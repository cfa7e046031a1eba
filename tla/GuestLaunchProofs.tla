-------------------------- MODULE GuestLaunchProofs --------------------------
(***************************************************************************)
(* Theorems about GuestLaunch, for every machine, module list and header.   *)
(***************************************************************************)
EXTENDS GuestLaunch, MemoryMapProofs, WellFoundedInduction

(***************************************************************************)
(* The order of the map that get_highest_sized_ram reads.                  *)
(***************************************************************************)
EndsBelow(m, limit) == \A j \in DOMAIN m : End(m[j]) <= limit

\* A later entry ends no lower; an empty one may lie anywhere.
InOrder(e, f) == End(e) <= End(f) \/ f.len = 0
Ordered(m) == \A j, k \in DOMAIN m : j < k => InOrder(m[j], m[k])

\* Every entry of the copy ends no higher than an entry already read.
Followed == \A j \in DOMAIN newmmap :
              \E k \in 1 .. at - 1 : End(newmmap[j]) <= End(orig[k])

OrderInv ==
  /\ pc = "walk" /\ Whole => EndsBelow(newmmap, Word64 - 1)
  /\ memmap => EndsBelow(mmap, Word64 - 1)
  /\ pc = "walk" /\ Sorted(orig) => Ordered(newmmap) /\ Followed
  /\ Sorted(orig) => Ordered(mmap)

LEMMA EndsOfConcat ==
  ASSUME NEW m \in Seq(Entries), NEW n \in Seq(Entries), NEW limit,
         EndsBelow(m, limit), EndsBelow(n, limit)
  PROVE  EndsBelow(m \o n, limit)
<1> DEFINE c == m \o n
<1>1. /\ Len(m) \in Nat /\ Len(n) \in Nat /\ Len(c) = Len(m) + Len(n)
      /\ DOMAIN m = 1 .. Len(m) /\ DOMAIN n = 1 .. Len(n) /\ DOMAIN c = 1 .. Len(c)
      /\ \A k \in 1 .. Len(m) : c[k] = m[k]
      /\ \A k \in 1 .. Len(n) : c[Len(m) + k] = n[k]
      BY ConcatProperties
<1> HIDE DEF c
<1>2. ASSUME NEW j \in DOMAIN c PROVE End(c[j]) <= limit
  <2>1. CASE j <= Len(m)
        BY <1>1, <2>1 DEF EndsBelow
  <2>2. CASE j > Len(m)
    <3>1. j - Len(m) \in 1 .. Len(n) /\ j = Len(m) + (j - Len(m))
          BY <1>1, <2>2
    <3>2. c[j] = n[j - Len(m)]
          BY <1>1, <3>1
    <3> QED
          BY <1>1, <3>1, <3>2 DEF EndsBelow
  <2> QED
        BY <1>1, <2>1, <2>2
<1> QED
      BY <1>2 DEF EndsBelow, c

LEMMA OrderOfConcat ==
  ASSUME NEW m \in Seq(Entries), NEW n \in Seq(Entries), Ordered(m), Ordered(n),
         \A j \in DOMAIN m, k \in DOMAIN n : InOrder(m[j], n[k])
  PROVE  Ordered(m \o n)
<1> DEFINE c == m \o n
<1>1. /\ Len(m) \in Nat /\ Len(n) \in Nat /\ Len(c) = Len(m) + Len(n)
      /\ DOMAIN m = 1 .. Len(m) /\ DOMAIN n = 1 .. Len(n) /\ DOMAIN c = 1 .. Len(c)
      /\ \A k \in 1 .. Len(m) : c[k] = m[k]
      /\ \A k \in 1 .. Len(n) : c[Len(m) + k] = n[k]
      BY ConcatProperties
<1> HIDE DEF c
<1>2. ASSUME NEW j \in DOMAIN c, j > Len(m)
      PROVE  j - Len(m) \in DOMAIN n /\ c[j] = n[j - Len(m)]
  <2>1. j - Len(m) \in 1 .. Len(n) /\ j = Len(m) + (j - Len(m))
        BY <1>1, <1>2
  <2> QED
        BY <1>1, <2>1
<1>3. ASSUME NEW j \in DOMAIN c, NEW k \in DOMAIN c, j < k PROVE InOrder(c[j], c[k])
  <2>1. CASE k <= Len(m)
        BY <1>1, <1>3, <2>1 DEF Ordered
  <2>2. CASE j <= Len(m) /\ k > Len(m)
        BY <1>1, <1>2, <2>2
  <2>3. CASE j > Len(m) /\ k > Len(m)
    <3>1. j - Len(m) < k - Len(m)
          BY <1>1, <1>3
    <3> QED
          BY <1>2, <2>3, <3>1 DEF Ordered
  <2> QED
        BY <1>1, <1>3, <2>1, <2>2, <2>3
<1> QED
      BY <1>3 DEF Ordered, c

\* A map that is sorted by address is also in this order, and an entry that is
\* not empty begins where all before it have ended.
LEMMA SortedIsOrdered ==
  ASSUME OrigInv, memmap, Sorted(orig)
  PROVE  /\ Ordered(orig)
         /\ \A j, k \in DOMAIN orig :
              j < k /\ orig[k].len # 0 => End(orig[j]) <= orig[k].addr
<1>1. ASSUME NEW j \in DOMAIN orig, NEW k \in DOMAIN orig, j < k
      PROVE  /\ orig[k].len # 0 => End(orig[j]) <= orig[k].addr
             /\ InOrder(orig[j], orig[k])
  <2>1. DOMAIN orig \subseteq Nat
        BY OrigIs
  <2>2. Apart(orig[j], orig[k])
        BY <1>1, <2>1, EntryIs
  <2>3. orig[j].addr <= orig[k].addr
        BY <1>1 DEF Sorted
  <2>4. orig[j] \in Entries /\ orig[k] \in Entries
        BY EntryIs
  <2> QED
        BY <2>2, <2>3, <2>4 DEF Apart, InOrder, End, Entries
<1> QED
      BY <1>1 DEF Ordered

\* Where the pieces of the entry that holds the hidden memory end.
LEMMA PiecesEnd ==
  ASSUME OrigInv, memmap, Whole
  PROVE  LET e == orig[Home] IN
         /\ Ordered(Split(e)) /\ Ordered(Rest(e))
         /\ EndsBelow(Split(e), HideEnd) /\ EndsBelow(Rest(e), End(e))
         /\ \A j \in DOMAIN Split(e) : HideAddr <= End(Split(e)[j])
         /\ \A j \in DOMAIN Rest(e) : End(Rest(e)[j]) = End(e)
<1> DEFINE e == orig[Home]
           a == Entry(e.addr, Uint64(HideAddr - e.addr), e.type)
           b == Entry(HideAddr, HideSize, MULTIBOOT_MEMORY_RESERVED)
           c == Entry(HideEnd, Uint64(End(e)) - HideEnd, e.type)
<1>1. /\ Home \in DOMAIN orig /\ e.addr <= HideAddr /\ HideEnd <= End(e)
      /\ e.addr \in Nat /\ End(e) \in Nat /\ Uint64(End(e)) = End(e)
      BY HomeIs, EntryIs DEF Covers, Whole
<1> HIDE DEF e
<1>2. Uint64(HideAddr - e.addr) = HideAddr - e.addr
  <2>1. HideAddr - e.addr \in Nat /\ HideAddr - e.addr < Word64
    <3>1. HideAddr < Word64
          BY MapAssumption
    <3> QED
          BY <1>1, <3>1, ConstantsAre
  <2> QED
        BY <2>1, ConstantsAre DEF Uint64
<1>3. End(a) = HideAddr /\ End(b) = HideEnd /\ End(c) = End(e)
      BY <1>1, <1>2, ConstantsAre DEF Entry, End
<1>4. HideAddr \in Nat /\ HideEnd \in Nat /\ HideAddr <= HideEnd
      BY ConstantsAre
<1>5. /\ DOMAIN Split(e) = {1, 2} /\ Split(e)[1] = a /\ Split(e)[2] = b
      BY DEF Split
<1>6. Rest(e) = <<c>> \/ Rest(e) = <<>>
      BY DEF Rest
<1> HIDE DEF a, b, c
<1>7. \A j \in DOMAIN Rest(e) : Rest(e)[j] = c /\ j = 1
      BY <1>6
<1>8. Ordered(Split(e)) /\ EndsBelow(Split(e), HideEnd)
      /\ \A j \in DOMAIN Split(e) : HideAddr <= End(Split(e)[j])
      BY <1>3, <1>4, <1>5 DEF Ordered, InOrder, EndsBelow
<1>9. Ordered(Rest(e)) /\ EndsBelow(Rest(e), End(e))
      /\ \A j \in DOMAIN Rest(e) : End(Rest(e)[j]) = End(e)
      BY <1>1, <1>3, <1>7 DEF Ordered, InOrder, EndsBelow
<1> QED
      BY <1>8, <1>9 DEF e

LEMMA EmptyIsOrdered == Ordered(<<>>) /\ (\A limit : EndsBelow(<<>>, limit))
BY DEF Ordered, EndsBelow

\* The map of the boot loader.
LEMMA OrigIsOrdered ==
  ASSUME OrigInv
  PROVE  /\ memmap => EndsBelow(orig, Word64 - 1)
         /\ Sorted(orig) => Ordered(orig)
<1>1. ASSUME memmap PROVE EndsBelow(orig, Word64 - 1)
  <2>1. \A k \in DOMAIN orig : End(orig[k]) < Word64
        BY <1>1, MapAssumption DEF OrigInv
  <2>2. \A k \in DOMAIN orig : End(orig[k]) \in Nat
        BY <1>1, EntryIs
  <2> QED
        BY <2>1, <2>2, ConstantsAre DEF EndsBelow
<1>2. ~memmap => Ordered(orig)
      BY EmptyIsOrdered DEF OrigInv
<1>3. memmap /\ Sorted(orig) => Ordered(orig)
      BY SortedIsOrdered
<1>4. memmap \in BOOLEAN
      BY DEF OrigInv
<1> QED
      BY <1>1, <1>2, <1>3, <1>4

LEMMA OrderKept ==
  ASSUME OrderInv, UNCHANGED mapVars, pc' = pc \/ pc' \notin {"hide", "walk"}
  PROVE  OrderInv'
<1>1. /\ memmap' = memmap /\ mmap' = mmap /\ newmmap' = newmmap /\ at' = at
      /\ orig' = orig
      BY DEF mapVars
<1>2. (Whole' <=> Whole) /\ (Followed' <=> Followed)
      BY <1>1 DEF Whole, Home, Followed
<1> QED
      BY <1>1, <1>2 DEF OrderInv

LEMMA NextOrderInv ==
  ASSUME MapInv, OrderInv, HideRuntimeMemory
  PROVE  OrderInv'
<1>0. /\ orig' = orig /\ memmap' = memmap /\ (Whole' <=> Whole)
      /\ (mmap' = mmap \/ HideDone)
  <2>1. orig' = orig /\ memmap' = memmap /\ (mmap' = mmap \/ HideDone)
        BY DEF HideRuntimeMemory, HideRefused, HideBegin, CopyEntry, RefuseEntry,
           SplitEntry, HideDone
  <2> QED
        BY <2>1 DEF Whole, Home
<1>1. OrigInv /\ newmmap \in Seq(Entries) /\ Len(orig) \in Nat
      /\ DOMAIN orig = 1 .. Len(orig)
      BY OrigIs DEF MapInv
<1>2. ASSUME mmap' = mmap
      PROVE  /\ memmap' => EndsBelow(mmap', Word64 - 1)
             /\ Sorted(orig') => Ordered(mmap')
      BY <1>0, <1>2 DEF OrderInv
<1>3. ASSUME NEW room \in BOOLEAN, HideRefused(room) PROVE OrderInv'
      BY <1>0, <1>2, <1>3 DEF HideRefused, HideReturns, HideDone, OrderInv
<1>4. CASE HideBegin
  <2>1. newmmap' = <<>> /\ mmap' = mmap
        BY <1>4 DEF HideBegin
  <2>2. Followed'
        BY <2>1 DEF Followed
  <2> QED
        BY <1>2, <2>1, <2>2, EmptyIsOrdered DEF OrderInv
<1>5. CASE RefuseEntry
      BY <1>0, <1>2, <1>5 DEF RefuseEntry, HideReturns, OrderInv
<1>6. ASSUME pc = "walk"
      PROVE  mmap = orig /\ memmap /\ at \in 1 .. Len(orig) + 1 /\ WalkInv
      BY <1>6 DEF MapInv, WalkInv
<1>7. CASE CopyEntry
  <2> DEFINE e == orig[at]
  <2>1. /\ pc = "walk" /\ pc' = "walk" /\ at \in DOMAIN orig /\ at' = at + 1
        /\ newmmap' = Append(newmmap, e) /\ mmap' = mmap /\ memmap
        BY <1>1, <1>6, <1>7 DEF CopyEntry
  <2>2. e \in Entries /\ End(e) \in Nat
        BY <1>1, <2>1, EntryIs
  <2>3. newmmap' = newmmap \o <<e>> /\ <<e>> \in Seq(Entries)
        /\ DOMAIN <<e>> = {1} /\ <<e>>[1] = e
    <3> HIDE DEF e
    <3>1. Append(newmmap, e) = newmmap \o <<e>>
          BY <1>1, <2>2
    <3>2. <<e>> \in Seq(Entries) /\ DOMAIN <<e>> = {1} /\ <<e>>[1] = e
          BY <2>2
    <3> QED
          BY <2>1, <3>1, <3>2
  <2>4. Whole => EndsBelow(newmmap', Word64 - 1)
    <3>1. EndsBelow(<<e>>, Word64 - 1)
          BY <1>1, <2>1, <2>3, OrigIsOrdered DEF EndsBelow
    <3> QED
          BY <1>1, <2>1, <2>3, <3>1, EndsOfConcat DEF OrderInv
  <2>5. ASSUME Sorted(orig) PROVE Ordered(newmmap') /\ Followed'
    <3>1. Ordered(newmmap) /\ Followed
          BY <2>1, <2>5 DEF OrderInv
    <3>2. Ordered(<<e>>)
          BY <2>2, <2>3 DEF Ordered
    <3>3. ASSUME NEW j \in DOMAIN newmmap PROVE InOrder(newmmap[j], e)
      <4>1. PICK k \in 1 .. at - 1 : End(newmmap[j]) <= End(orig[k])
            BY <3>1 DEF Followed
      <4>2. k \in DOMAIN orig /\ k < at
            BY <1>1, <2>1
      <4>3. InOrder(orig[k], e)
            BY <1>1, <2>1, <2>5, <4>2, SortedIsOrdered DEF Ordered
      <4>4. End(orig[k]) \in Nat /\ End(newmmap[j]) \in Nat
        <5>1. newmmap[j] \in Entries
              BY <1>1
        <5>2. End(newmmap[j]) \in Nat
              BY <5>1 DEF End, Entries
        <5> QED
              BY <1>1, <2>1, <4>2, <5>2, EntryIs
      <4> QED
            BY <2>2, <4>1, <4>3, <4>4 DEF InOrder
    <3>4. Ordered(newmmap \o <<e>>)
          BY <1>1, <2>3, <3>1, <3>2, <3>3, OrderOfConcat
    <3>5. Followed'
      <4>1. ASSUME NEW j \in DOMAIN newmmap'
            PROVE  \E k \in 1 .. at : End(newmmap'[j]) <= End(orig[k])
        <5>1. CASE j \in DOMAIN newmmap
          <6>1. newmmap'[j] = newmmap[j]
                BY <1>1, <2>1, <5>1
          <6>2. PICK k \in 1 .. at - 1 : End(newmmap[j]) <= End(orig[k])
                BY <3>1, <5>1 DEF Followed
          <6>3. k \in 1 .. at
                BY <1>1, <2>1
          <6> QED
                BY <6>1, <6>2, <6>3
        <5>2. CASE j \notin DOMAIN newmmap
          <6>1. newmmap'[j] = e
                BY <1>1, <2>1, <2>2, <5>2
          <6>2. at \in 1 .. at /\ End(e) <= End(e)
                BY <1>1, <2>1, <2>2
          <6> QED
                BY <6>1, <6>2
        <5> QED
              BY <5>1, <5>2
      <4>2. at' - 1 = at
            BY <1>1, <2>1
      <4> QED
            BY <1>0, <4>1, <4>2 DEF Followed
    <3> QED
          BY <2>3, <3>4, <3>5
  <2> QED
        BY <1>0, <1>2, <2>1, <2>4, <2>5 DEF OrderInv
<1>8. CASE SplitEntry
  <2>1. /\ pc = "walk" /\ at <= Len(orig) /\ ~Untouched(orig[at]) /\ mmap' = mmap /\ memmap
        /\ newmmap' = newmmap \o Split(orig[at]) \o Rest(orig[at])
        BY <1>6, <1>8 DEF SplitEntry
  <2>2. at \in DOMAIN orig /\ (Whole \/ Sorted(orig) => at = Home)
        BY <2>1, SplitsHome
  <2>3. CASE HideEnd > Uint64(End(orig[at]))
    <3>1. pc' = "launch"
          BY <1>6, <1>8, <2>1, <2>3 DEF SplitEntry, HideReturns
    <3> QED
          BY <1>0, <1>2, <2>1, <3>1 DEF OrderInv
  <2>4. CASE ~(HideEnd > Uint64(End(orig[at]))) /\ at = Home
    <3> DEFINE e == orig[Home]
               two == newmmap \o Split(e)
    <3>1. pc' = "walk" /\ at' = at + 1 /\ newmmap' = two \o Rest(e)
          BY <1>6, <1>8, <2>1, <2>4 DEF SplitEntry
    <3>2. Home \in DOMAIN orig /\ e.addr <= HideAddr /\ HideAddr < End(e)
          BY <1>1, <2>1, HomeIs DEF Covers
    <3>3. /\ e \in Entries /\ End(e) \in Nat /\ Uint64(End(e)) = End(e)
          BY <1>1, <2>1, <3>2, EntryIs
    <3>4. HideAddr \in Nat /\ HideEnd \in Nat /\ HideAddr <= HideEnd /\ HideEnd <= End(e)
          BY <2>4, <3>3, ConstantsAre
    <3>5. Whole
          BY <3>4 DEF Whole
    <3>6. /\ Split(e) \in Seq(Entries) /\ Rest(e) \in Seq(Entries)
          /\ two \in Seq(Entries)
          BY <1>1, <2>1, <3>2, SplitIs, ConcatIs
    <3>7. /\ Ordered(Split(e)) /\ Ordered(Rest(e))
          /\ EndsBelow(Split(e), HideEnd) /\ EndsBelow(Rest(e), End(e))
          /\ \A j \in DOMAIN Split(e) : HideAddr <= End(Split(e)[j])
          /\ \A j \in DOMAIN Rest(e) : End(Rest(e)[j]) = End(e)
          BY <1>1, <2>1, <3>5, PiecesEnd
    <3> HIDE DEF e, two
    <3>8. EndsBelow(newmmap', Word64 - 1)
      <4>1. End(e) <= Word64 - 1
            BY <1>1, <2>1, <3>2, OrigIsOrdered DEF EndsBelow, e
      <4>2. EndsBelow(Rest(e), Word64 - 1)
            BY <3>7, <4>1 DEF EndsBelow
      <4>3. EndsBelow(Split(e), Word64 - 1)
        <5>1. ASSUME NEW j \in DOMAIN Split(e) PROVE End(Split(e)[j]) <= Word64 - 1
          <6>1. Split(e)[j] \in Entries /\ End(Split(e)[j]) <= HideEnd
                BY <3>6, <3>7 DEF EndsBelow
          <6>2. End(Split(e)[j]) \in Nat
                BY <6>1 DEF End, Entries
          <6> QED
                BY <3>3, <3>4, <4>1, <6>1, <6>2, ConstantsAre
        <5> QED
              BY <5>1 DEF EndsBelow
      <4>4. EndsBelow(newmmap, Word64 - 1)
            BY <2>1, <3>5 DEF OrderInv
      <4>5. EndsBelow(two, Word64 - 1)
            BY <1>1, <3>6, <4>3, <4>4, EndsOfConcat DEF two
      <4> QED
            BY <3>1, <3>6, <4>2, <4>5, EndsOfConcat
    <3>9. ASSUME Sorted(orig) PROVE Ordered(newmmap') /\ Followed'
      <4>1. Ordered(newmmap) /\ Followed
            BY <2>1, <3>9 DEF OrderInv
      <4>2. EndsBelow(newmmap, HideAddr)
        <5> SUFFICES ASSUME NEW j \in DOMAIN newmmap PROVE End(newmmap[j]) <= HideAddr
            BY DEF EndsBelow
        <5>1. PICK k \in 1 .. at - 1 : End(newmmap[j]) <= End(orig[k])
              BY <4>1 DEF Followed
        <5>2. k \in DOMAIN orig /\ k < Home
              BY <1>1, <2>2, <2>4
        <5>3. e.len # 0
              BY <3>2, <3>3, <3>4 DEF End, Entries
        <5>4. End(orig[k]) <= e.addr
              BY <1>1, <2>1, <3>2, <3>9, <5>2, <5>3, SortedIsOrdered DEF e
        <5>5. End(orig[k]) \in Nat /\ End(newmmap[j]) \in Nat /\ e.addr \in Nat
          <6>1. newmmap[j] \in Entries
                BY <1>1
          <6>2. End(newmmap[j]) \in Nat
                BY <6>1 DEF End, Entries
          <6>3. e.addr \in Nat
                BY <3>3 DEF Entries
          <6> QED
                BY <1>1, <2>1, <5>2, <6>2, <6>3, EntryIs
        <5> QED
              BY <3>2, <3>4, <5>1, <5>4, <5>5
      <4>3. Ordered(two)
        <5>1. ASSUME NEW j \in DOMAIN newmmap, NEW k \in DOMAIN Split(e)
              PROVE  InOrder(newmmap[j], Split(e)[k])
          <6>1. End(newmmap[j]) <= HideAddr /\ HideAddr <= End(Split(e)[k])
                BY <3>7, <4>2 DEF EndsBelow
          <6>2. newmmap[j] \in Entries /\ Split(e)[k] \in Entries
                BY <1>1, <3>6
          <6> QED
                BY <3>4, <6>1, <6>2 DEF InOrder, End, Entries
        <5> QED
              BY <1>1, <3>6, <3>7, <4>1, <5>1, OrderOfConcat DEF two
      <4>4. EndsBelow(two, End(e))
        <5>1. EndsBelow(newmmap, End(e))
          <6>1. ASSUME NEW j \in DOMAIN newmmap PROVE End(newmmap[j]) <= End(e)
            <7>1. newmmap[j] \in Entries /\ End(newmmap[j]) <= HideAddr
                  BY <1>1, <4>2 DEF EndsBelow
            <7>2. End(newmmap[j]) \in Nat
                  BY <7>1 DEF End, Entries
            <7> QED
                  BY <3>3, <3>4, <7>1, <7>2
          <6> QED
                BY <6>1 DEF EndsBelow
        <5>2. EndsBelow(Split(e), End(e))
          <6>1. ASSUME NEW j \in DOMAIN Split(e) PROVE End(Split(e)[j]) <= End(e)
            <7>1. Split(e)[j] \in Entries /\ End(Split(e)[j]) <= HideEnd
                  BY <3>6, <3>7 DEF EndsBelow
            <7>2. End(Split(e)[j]) \in Nat
                  BY <7>1 DEF End, Entries
            <7> QED
                  BY <3>3, <3>4, <7>1, <7>2
          <6> QED
                BY <6>1 DEF EndsBelow
        <5> QED
              BY <1>1, <3>6, <5>1, <5>2, EndsOfConcat DEF two
      <4>5. Ordered(newmmap')
        <5>1. \A j \in DOMAIN two, k \in DOMAIN Rest(e) : InOrder(two[j], Rest(e)[k])
              BY <3>7, <4>4 DEF EndsBelow, InOrder
        <5> QED
              BY <3>1, <3>6, <3>7, <4>3, <5>1, OrderOfConcat
      <4>6. EndsBelow(newmmap', End(e))
            BY <3>1, <3>6, <3>7, <4>4, EndsOfConcat
      <4>7. at \in 1 .. at' - 1 /\ e = orig'[at]
            BY <1>0, <1>1, <2>2, <2>4, <3>1 DEF e
      <4> QED
            BY <1>0, <4>5, <4>6, <4>7 DEF Followed, EndsBelow
    <3> QED
          BY <1>0, <1>2, <2>1, <3>8, <3>9 DEF OrderInv
  <2>5. CASE at # Home
        BY <1>0, <1>2, <2>1, <2>2, <2>5 DEF OrderInv
  <2> QED
        BY <2>3, <2>4, <2>5
<1>9. CASE HideDone
  <2>1. /\ pc = "walk" /\ pc' = "launch" /\ mmap' = newmmap /\ at > Len(orig)
        BY <1>6, <1>9 DEF HideDone, HideReturns
  <2>2. Whole
    <3>1. Home \in 1 .. Len(orig)
          BY <1>1, <1>6, <2>1, HomeIs
    <3>2. Home < at
          BY <1>1, <1>6, <2>1, <3>1
    <3> QED
          BY <1>6, <2>1, <3>2 DEF WalkInv
  <2> QED
        BY <1>0, <2>1, <2>2 DEF OrderInv
<1> QED
      BY <1>3, <1>4, <1>5, <1>7, <1>8, <1>9 DEF HideRuntimeMemory

-----------------------------------------------------------------------------
(***************************************************************************)
(* The inductive invariant of the launch.                                  *)
(***************************************************************************)
\* A region of the map that can hold the initrd.
RamFits ==
  /\ \E k \in DOMAIN mmap :
       /\ FitsBelow(mmap[k]) /\ mmap[k].addr > 0
       /\ ram = [base |-> mmap[k].addr, size |-> mmap[k].len]
  /\ SearchComplete => \A k \in DOMAIN mmap : FitsBelow(mmap[k]) => mmap[k].addr <= ram.base

Top == PageAlignDown(Uint32(ram.base + ram.size - initrd.size))

InitrdAt == IF Uint32(Top + initrd.size) > hdr.initrd_addr_max
            THEN PageAlignDown(Uint32(hdr.initrd_addr_max - initrd.size)) ELSE Top

InitrdPlaced == RamFits /\ initrd_base = InitrdAt

KernelAt == /\ 1 \in DOMAIN mods /\ kernel = Image(mods[1])
            /\ protected_mode_base = Uint32(kernel.base + hdr.setup_sects + 1)

BeforeLaunch == {"hide", "walk", "launch"}
BeforeCopy == BeforeLaunch \cup {"header", "alloc", "place", "relocatable", "copy"}

GuestInv ==
  /\ mods \in ModuleLists /\ beyond \in Beyond /\ hdr \in HeaderType
  /\ initrd.base \in Nat /\ initrd.size \in 0 .. Word32 - 1
  /\ pc \in BeforeCopy => ramdisk = None
  /\ pc \in BeforeCopy \ BeforeLaunch => 1 \in DOMAIN mods /\ kernel = Image(mods[1])
  /\ pc = "place" => HasInitrd
  /\ pc \in {"relocatable", "copy"} => (HasInitrd => InitrdPlaced)
  /\ pc = "copy" => KernelAt
  /\ ramdisk # None =>
       /\ pc \notin BeforeCopy
       /\ HasInitrd /\ InitrdPlaced /\ KernelAt /\ ProtectedEnd <= initrd_base
       /\ ramdisk = [base |-> initrd_base, size |-> initrd.size]
  /\ pc \in {"jump", "kernel"} =>
       memmap /\ boot_e820 = [k \in DOMAIN mmap |-> BootEntry(mmap[k])]

LaunchInv == MapInv /\ OrderInv /\ GuestInv

-----------------------------------------------------------------------------
(***************************************************************************)
(* get_highest_sized_ram.                                                  *)
(***************************************************************************)
LEMMA LeastOf ==
  ASSUME NEW T, T \subseteq Nat, T # {}
  PROVE  \E x \in T : \A y \in T : x <= y
<1> DEFINE R == OpToRel(<, Nat)
<1>1. \A x, y \in Nat : y < x => <<y, x>> \in R
      BY DEF OpToRel
<1>2. IsWellFoundedOn(R, Nat)
      BY NatLessThanWellFounded
<1> HIDE DEF R
<1>3. PICK x \in T : \A y \in T : ~(<<y, x>> \in R)
      BY <1>2, WFMin
<1>4. ASSUME NEW y \in T PROVE x <= y
  <2>1. x \in Nat /\ y \in Nat /\ ~(y < x)
        BY <1>1, <1>3
  <2> QED
        BY <2>1
<1> QED
      BY <1>4

\* The first of the highest entries of a set of them is there to be chosen.
LEMMA HighestExists ==
  ASSUME NEW m \in Seq(Entries), EndsBelow(m, Word64 - 1),
         NEW fit, fit \subseteq DOMAIN m, fit # {}
  PROVE  \E k \in fit : \A j \in fit :
           m[j].addr < m[k].addr \/ (m[j].addr = m[k].addr /\ k <= j)
<1>1. ASSUME NEW k \in fit
      PROVE  k \in Nat /\ m[k].addr \in Nat /\ Word64 - m[k].addr \in Nat
  <2>1. k \in Nat /\ m[k] \in Entries /\ End(m[k]) <= Word64 - 1
        BY DEF EndsBelow
  <2> QED
        BY <2>1, ConstantsAre DEF End, Entries
<1> DEFINE gaps == {Word64 - m[k].addr : k \in fit}
<1>2. gaps \subseteq Nat /\ gaps # {}
      BY <1>1
<1>3. PICK g \in gaps : \A y \in gaps : g <= y
  <2> HIDE DEF gaps
  <2> QED
        BY <1>2, LeastOf
<1> DEFINE top == {k \in fit : Word64 - m[k].addr = g}
<1>4. top \subseteq Nat /\ top # {}
      BY <1>1, <1>3
<1>5. PICK k \in top : \A j \in top : k <= j
  <2> HIDE DEF top
  <2> QED
        BY <1>4, LeastOf
<1>6. ASSUME NEW j \in fit
      PROVE  m[j].addr < m[k].addr \/ (m[j].addr = m[k].addr /\ k <= j)
  <2>1. g <= Word64 - m[j].addr /\ g = Word64 - m[k].addr /\ k \in fit
        BY <1>3, <1>5
  <2>2. m[j].addr = m[k].addr => k <= j
        BY <1>5, <2>1
  <2>3. m[j].addr <= m[k].addr
    <3> DEFINE x == m[j].addr
               y == m[k].addr
    <3>1. x \in Nat /\ y \in Nat /\ Word64 \in Nat
          BY <1>1, <2>1, ConstantsAre
    <3>2. Word64 - y <= Word64 - x
          BY <2>1
    <3> HIDE DEF x, y
    <3>3. x <= y
          BY <3>1, <3>2
    <3> QED
          BY <3>3 DEF x, y
  <2> QED
        BY <1>1, <2>1, <2>2, <2>3
<1>7. k \in fit
      BY <1>5
<1> HIDE DEF top
<1> QED
      BY <1>6, <1>7

LEMMA HighestIs ==
  ASSUME NEW m \in Seq(Entries), EndsBelow(m, Word64 - 1), NEW size, NEW limit
  PROVE  LET fit == {k \in Fitting(m, size, limit) : m[k].addr > 0}
             r   == GetHighestSizedRam(m, size, limit)
         IN  \/ fit = {} /\ r = None
             \/ \E k \in fit : /\ r = [base |-> m[k].addr, size |-> m[k].len]
                               /\ \A j \in fit : m[j].addr <= m[k].addr
<1> DEFINE fit == {i \in Fitting(m, size, limit) : m[i].addr > 0}
           Best(i) == \A j \in fit : \/ m[j].addr < m[i].addr
                                     \/ m[j].addr = m[i].addr /\ i <= j
           k0 == CHOOSE i \in fit : Best(i)
<1>1. fit \subseteq DOMAIN m
      BY DEF Fitting, Examined
<1>2. CASE fit = {}
      BY <1>2 DEF GetHighestSizedRam
<1>3. CASE fit # {}
  <2>1. \E k \in fit : Best(k)
    <3> HIDE DEF fit
    <3> QED
        BY <1>1, <1>3, HighestExists
  <2>2. k0 \in fit /\ Best(k0)
    <3> HIDE DEF fit, Best
    <3> QED
        BY <2>1
  <2>3. GetHighestSizedRam(m, size, limit) = [base |-> m[k0].addr, size |-> m[k0].len]
        BY <1>3 DEF GetHighestSizedRam
  <2>4. \A j \in fit : m[j].addr <= m[k0].addr
    <3>1. ASSUME NEW j \in fit PROVE m[j].addr <= m[k0].addr
      <4>1. m[j] \in Entries /\ m[k0] \in Entries
            BY <1>1, <2>2
      <4>2. m[j].addr < m[k0].addr \/ m[j].addr = m[k0].addr
            BY <2>2
      <4> HIDE DEF k0, fit
      <4>3. m[j].addr \in Nat /\ m[k0].addr \in Nat
            BY <4>1 DEF Entries
      <4> QED
            BY <4>2, <4>3
    <3> QED
          BY <3>1
  <2> QED
        BY <2>2, <2>3, <2>4
<1> QED
      BY <1>2, <1>3

\* The map in mbi, whichever it is.
LEMMA MapIs ==
  ASSUME MapInv, OrderInv
  PROVE  mmap \in Seq(Entries) /\ EndsBelow(mmap, Word64 - 1)
<1>1. mmap \in Seq(Entries)
      BY OrigIs DEF MapInv, HiddenInv
<1>2. ~memmap => mmap = <<>>
      BY DEF MapInv, HiddenInv, OrigInv
<1>3. memmap \in BOOLEAN
      BY DEF MapInv, OrigInv
<1> QED
      BY <1>1, <1>2, <1>3, EmptyIsOrdered DEF OrderInv

\* What is found for the initrd fits, and of a complete search is the highest.
LEMMA FoundIs ==
  ASSUME MapInv, OrderInv, initrd.size \in Nat \ {0}
  PROVE  LET r == GetHighestSizedRam(mmap, initrd.size, MemLimit) IN
         /\ \/ r = None
            \/ \E k \in DOMAIN mmap :
                 /\ FitsBelow(mmap[k]) /\ mmap[k].addr > 0
                 /\ r = [base |-> mmap[k].addr, size |-> mmap[k].len]
         /\ SearchComplete =>
              \A k \in DOMAIN mmap : FitsBelow(mmap[k]) => mmap[k].addr <= r.base
<1> DEFINE fit == {k \in Fitting(mmap, initrd.size, MemLimit) : mmap[k].addr > 0}
           r   == GetHighestSizedRam(mmap, initrd.size, MemLimit)
<1>1. mmap \in Seq(Entries) /\ EndsBelow(mmap, Word64 - 1)
      BY MapIs
<1>2. \/ fit = {} /\ r = None
      \/ \E k \in fit : /\ r = [base |-> mmap[k].addr, size |-> mmap[k].len]
                        /\ \A j \in fit : mmap[j].addr <= mmap[k].addr
      BY <1>1, HighestIs
<1>3. ASSUME NEW k \in DOMAIN mmap
      PROVE  /\ mmap[k].addr \in Nat /\ mmap[k].len \in Nat /\ End(mmap[k]) \in Nat
             /\ Uint64(End(mmap[k])) = End(mmap[k]) /\ k \in Nat \ {0}
             /\ 1 .. k \subseteq DOMAIN mmap
  <2>1. mmap[k] \in Entries /\ End(mmap[k]) <= Word64 - 1 /\ k \in Nat \ {0}
        /\ 1 .. k \subseteq DOMAIN mmap
        BY <1>1 DEF EndsBelow
  <2>2. /\ mmap[k].addr \in Nat /\ mmap[k].len \in Nat /\ End(mmap[k]) \in Nat
        BY <2>1 DEF End, Entries
  <2>3. Uint64(End(mmap[k])) = End(mmap[k])
        BY <2>1, <2>2, ConstantsAre DEF Uint64
  <2> QED
        BY <2>1, <2>2, <2>3
<1>4. ASSUME NEW k \in fit PROVE k \in DOMAIN mmap /\ FitsBelow(mmap[k]) /\ mmap[k].addr > 0
  <2>1. /\ k \in DOMAIN mmap /\ mmap[k].type = MULTIBOOT_MEMORY_AVAILABLE
        /\ initrd.size <= mmap[k].len /\ mmap[k].addr > 0
        /\ \A j \in 1 .. k : mmap[j].type = MULTIBOOT_MEMORY_AVAILABLE
                               => Uint64(End(mmap[j])) <= MemLimit
        BY DEF Fitting, Examined
  <2>2. Uint64(End(mmap[k])) <= MemLimit
        BY <1>3, <2>1
  <2> QED
        BY <1>3, <2>1, <2>2 DEF FitsBelow
<1>5. ASSUME SearchComplete, NEW k \in DOMAIN mmap, FitsBelow(mmap[k]), mmap[k].addr > 0
      PROVE  k \in fit
  <2>1. /\ mmap[k].type = MULTIBOOT_MEMORY_AVAILABLE /\ End(mmap[k]) <= MemLimit
        /\ initrd.size <= mmap[k].len
        BY <1>5 DEF FitsBelow
  <2>2. ASSUME NEW j \in 1 .. k, mmap[j].type = MULTIBOOT_MEMORY_AVAILABLE
        PROVE  Uint64(End(mmap[j])) <= MemLimit
    <3>1. j \in DOMAIN mmap /\ MemLimit \in Nat
          BY <1>3, MapAssumption DEF MemLimit
    <3>2. CASE j = k
          BY <1>3, <2>1, <3>2
    <3>3. CASE j # k /\ Sorted(orig)
      <4>1. j < k
            BY <1>3, <3>3
      <4>2. InOrder(mmap[j], mmap[k])
            BY <3>1, <3>3, <4>1 DEF OrderInv, Ordered
      <4>3. End(mmap[j]) <= End(mmap[k])
            BY <1>3, <2>1, <4>2 DEF InOrder
      <4> QED
            BY <1>3, <2>1, <3>1, <4>3
    <3>4. CASE ~Sorted(orig)
          BY <1>3, <1>5, <2>2, <3>1, <3>4 DEF SearchComplete
    <3> QED
          BY <3>2, <3>3, <3>4
  <2> QED
        BY <1>5, <2>1, <2>2 DEF Fitting, Examined
<1> HIDE DEF fit, r
<1>6. \/ r = None
      \/ \E k \in DOMAIN mmap :
            /\ FitsBelow(mmap[k]) /\ mmap[k].addr > 0
            /\ r = [base |-> mmap[k].addr, size |-> mmap[k].len]
      BY <1>2, <1>4
<1>7. ASSUME SearchComplete, NEW k \in DOMAIN mmap, FitsBelow(mmap[k])
      PROVE  mmap[k].addr <= r.base
  <2>1. CASE fit = {}
    <3>1. mmap[k].addr = 0
          BY <1>3, <1>5, <1>7, <2>1
    <3>2. r.base = 0
          BY <1>2, <2>1 DEF None
    <3> QED
          BY <3>1, <3>2
  <2>2. CASE fit # {}
    <3>1. PICK l \in fit : /\ r = [base |-> mmap[l].addr, size |-> mmap[l].len]
                           /\ \A j \in fit : mmap[j].addr <= mmap[l].addr
          BY <1>2, <2>2
    <3>2. r.base = mmap[l].addr /\ r.base \in Nat
          BY <1>3, <1>4, <3>1
    <3>3. CASE mmap[k].addr = 0
          BY <3>2, <3>3
    <3>4. CASE mmap[k].addr # 0
          BY <1>3, <1>5, <1>7, <3>1, <3>2, <3>4
    <3> QED
          BY <3>3, <3>4
  <2> QED
        BY <2>1, <2>2
<1> QED
      BY <1>6, <1>7 DEF r

-----------------------------------------------------------------------------
(***************************************************************************)
(* The steps of the launch.                                                *)
(***************************************************************************)
LEMMA InitGuestInv == LaunchInit => LaunchInv
<1> SUFFICES ASSUME LaunchInit PROVE LaunchInv
    OBVIOUS
<1>1. MapInv
      BY InitMapInv DEF LaunchInit
<1>2. OrderInv
  <2>1. mmap = orig /\ pc = "hide" /\ OrigInv
        BY <1>1 DEF LaunchInit, MapInit, MapInv
  <2> QED
        BY <2>1, OrigIsOrdered DEF OrderInv
<1>3. GuestInv
  <2>1. hdr \in HeaderType
        BY LaunchAssumption DEF LaunchInit
  <2>2. initrd.base \in Nat /\ initrd.size \in 0 .. Word32 - 1
        BY MapAssumption DEF LaunchInit, None
  <2> QED
        BY <2>1, <2>2 DEF LaunchInit, GuestInv, BeforeLaunch, BeforeCopy
<1> QED
      BY <1>1, <1>2, <1>3 DEF LaunchInv

(***************************************************************************)
(* Pages.                                                                  *)
(***************************************************************************)
LEMMA RoundDown ==
  ASSUME NEW n \in Nat, NEW d \in Nat \ {0}
  PROVE  /\ n - (n % d) \in Nat /\ n - (n % d) <= n /\ n < n - (n % d) + d
         /\ (n - (n % d)) % d = 0
         /\ \A b \in Nat : b % d = 0 /\ b <= n => b <= n - (n % d)
<1>1. n % d \in 0 .. d - 1 /\ n = d * (n \div d) + (n % d) /\ n \div d \in Nat
      OBVIOUS
<1>2. n - (n % d) = d * (n \div d)
      BY <1>1
<1>3. (d * (n \div d)) % d = 0
      BY <1>1
<1>4. ASSUME NEW b \in Nat, b % d = 0, b <= n PROVE b <= n - (n % d)
  <2>1. b = d * (b \div d) /\ b \div d \in Nat
        BY <1>4
  <2>2. b \div d <= n \div d
        BY <1>1, <1>4, <2>1
  <2>3. d * (b \div d) <= d * (n \div d)
        BY <1>1, <2>1, <2>2
  <2> QED
        BY <1>2, <2>1, <2>3
<1>5. n - (n % d) \in Nat
  <2>1. d * (n \div d) \in Nat
        BY <1>1
  <2> QED
        BY <1>2, <2>1
<1>6. n - (n % d) <= n /\ n < n - (n % d) + d
      BY <1>1
<1> QED
      BY <1>2, <1>3, <1>4, <1>5, <1>6

LEMMA PageConstants ==
  Page \in Nat \ {0} /\ Word32 \in Nat \ {0} /\ MemLimit = Word32 /\ Word32 <= Word64
BY LaunchAssumption, MapAssumption DEF MemLimit

\* What depends only on variables that a step leaves alone stays.
LEMMA PlacedKept ==
  ASSUME UNCHANGED <<mmap, orig, ram, initrd, hdr, initrd_base>>
  PROVE  (InitrdPlaced' <=> InitrdPlaced) /\ (HasInitrd' <=> HasInitrd)
<1>1. (RamFits' <=> RamFits) /\ InitrdAt' = InitrdAt
      BY DEF RamFits, FitsBelow, SearchComplete, InitrdAt, Top
<1> QED
      BY <1>1 DEF InitrdPlaced, HasInitrd

LEMMA KernelKept ==
  ASSUME UNCHANGED <<mods, kernel, hdr, protected_mode_base>>
  PROVE  (KernelAt' <=> KernelAt) /\ ProtectedEnd' = ProtectedEnd
BY DEF KernelAt, ProtectedEnd

\* A module the launch reads is one.
LEMMA ModuleIs ==
  ASSUME mods \in ModuleLists, beyond \in Beyond, NEW midx \in Nat
  PROVE  /\ GetMbiModule(midx) \in ModuleType /\ Len(mods) \in Nat
         /\ (midx = 0 /\ GetMbiModule(midx) # NoModule) =>
              1 \in DOMAIN mods /\ GetMbiModule(midx) = mods[1]
<1>1. mods \in Seq(ModuleType) /\ beyond \in ModuleType
      BY LaunchAssumption
<1>2. NoModule \in ModuleType
      BY DEF NoModule, ModuleType
<1>3. Len(mods) \in Nat /\ DOMAIN mods = 1 .. Len(mods)
      BY <1>1
<1>4. CASE Len(mods) = 0 \/ midx > Len(mods)
  <2>1. GetMbiModule(midx) = NoModule
        BY <1>3, <1>4 DEF GetMbiModule
  <2> QED
        BY <1>2, <1>3, <2>1
<1>5. CASE Len(mods) # 0 /\ midx < Len(mods)
  <2>1. GetMbiModule(midx) = mods[midx + 1]
        BY <1>3, <1>5 DEF GetMbiModule
  <2>2. midx + 1 \in DOMAIN mods /\ 1 \in DOMAIN mods
        BY <1>3, <1>5
  <2> QED
        BY <1>1, <1>3, <2>1, <2>2
<1>6. CASE Len(mods) # 0 /\ midx = Len(mods)
  <2>1. GetMbiModule(midx) = beyond
        BY <1>3, <1>6 DEF GetMbiModule
  <2> QED
        BY <1>1, <1>3, <1>6, <2>1
<1>7. \A n \in Nat : midx > n \/ midx < n \/ midx = n
      OBVIOUS
<1> QED
      BY <1>3, <1>4, <1>5, <1>6, <1>7

LEMMA ImageIs ==
  ASSUME NEW m \in ModuleType
  PROVE  /\ Image(m).base \in Nat /\ Image(m).size \in 0 .. Word32 - 1
<1>1. m.mod_end - m.mod_start \in Int /\ m.mod_start \in Nat
      BY DEF ModuleType
<1>2. Uint32(m.mod_end - m.mod_start) \in 0 .. Word32 - 1
      BY <1>1, MapAssumption DEF Uint32
<1> QED
      BY <1>1, <1>2 DEF Image

\* Where the protected mode kernel begins and what it needs.
LEMMA ProtectedIs ==
  ASSUME mods \in ModuleLists, hdr \in HeaderType, KernelAt
  PROVE  /\ kernel.base \in Nat /\ hdr.init_size \in Nat /\ hdr.setup_sects \in Nat
         /\ protected_mode_base \in Nat /\ ProtectedEnd \in Nat
<1>1. mods[1] \in ModuleType
      BY LaunchAssumption DEF KernelAt
<1>2. kernel.base \in Nat
      BY <1>1, ImageIs DEF KernelAt
<1>3. hdr.init_size \in Nat /\ hdr.setup_sects \in Nat
      BY DEF HeaderType
<1>4. \A n \in Int : Uint32(n) \in Nat
      BY PageConstants DEF Uint32
<1>5. protected_mode_base \in Nat
      BY <1>2, <1>3, <1>4 DEF KernelAt
<1>6. PageAlign(hdr.init_size) \in Nat
  <2>1. hdr.init_size + Page - 1 \in Int
        BY <1>3, PageConstants
  <2>2. Uint32(hdr.init_size + Page - 1) \in Nat
        BY <1>4, <2>1
  <2> QED
        BY <2>2, PageConstants, RoundDown DEF PageAlign
<1>7. ProtectedEnd \in Nat
      BY <1>4, <1>5, <1>6 DEF ProtectedEnd
<1> QED
      BY <1>2, <1>3, <1>5, <1>7

\* Where the initrd is put.
LEMMA InitrdIs ==
  ASSUME MapInv, OrderInv, GuestInv, HasInitrd, InitrdPlaced
  PROVE  /\ initrd.size \in Nat \ {0} /\ hdr.initrd_addr_max \in Nat
         /\ ram.base \in Nat \ {0} /\ ram.size \in Nat /\ initrd.size <= ram.size
         /\ ram.base + ram.size <= Word32
         /\ Top = PageAlignDown(ram.base + ram.size - initrd.size)
         /\ initrd_base \in Nat /\ initrd_base % Page = 0
<1>1. initrd.size \in Nat \ {0} /\ initrd.size < Word32
      BY PageConstants DEF GuestInv, HasInitrd
<1>2. hdr.initrd_addr_max \in Nat
      BY DEF GuestInv, HeaderType
<1>3. PICK k \in DOMAIN mmap :
        /\ FitsBelow(mmap[k]) /\ mmap[k].addr > 0
        /\ ram = [base |-> mmap[k].addr, size |-> mmap[k].len]
      BY DEF InitrdPlaced, RamFits
<1>4. mmap[k] \in Entries
      BY <1>3, MapIs
<1>5. /\ ram.base \in Nat \ {0} /\ ram.size \in Nat /\ initrd.size <= ram.size
      /\ ram.base + ram.size <= Word32
      BY <1>3, <1>4, PageConstants DEF FitsBelow, End, Entries
<1>6. Uint32(ram.base + ram.size - initrd.size) = ram.base + ram.size - initrd.size
      /\ ram.base + ram.size - initrd.size \in Nat
  <2>1. /\ ram.base + ram.size - initrd.size \in Nat
        /\ ram.base + ram.size - initrd.size < Word32
        BY <1>1, <1>5, PageConstants
  <2> QED
        BY <2>1, PageConstants DEF Uint32
<1>7. Uint32(hdr.initrd_addr_max - initrd.size) \in Nat
      BY <1>1, <1>2, PageConstants DEF Uint32
<1>8. \A n \in Nat : PageAlignDown(n) \in Nat /\ PageAlignDown(n) % Page = 0
      BY PageConstants, RoundDown DEF PageAlignDown
<1>9. initrd_base \in Nat /\ initrd_base % Page = 0
      BY <1>6, <1>7, <1>8 DEF InitrdPlaced, InitrdAt, Top
<1> QED
      BY <1>1, <1>2, <1>5, <1>6, <1>9 DEF Top

LEMMA HideGuestInv ==
  ASSUME GuestInv, HideRuntimeMemory, UNCHANGED launchVars
  PROVE  GuestInv'
<1>1. pc \in {"hide", "walk"} /\ pc' \in BeforeLaunch
      BY DEF HideRuntimeMemory, HideRefused, HideBegin, CopyEntry, RefuseEntry, SplitEntry,
         HideDone, HideReturns, BeforeLaunch
<1>2. ramdisk' = None /\ ramdisk = None
      BY <1>1 DEF GuestInv, launchVars, BeforeCopy, BeforeLaunch
<1> QED
      BY <1>1, <1>2 DEF GuestInv, launchVars, BeforeCopy, BeforeLaunch

LEMMA NextGuestInv ==
  ASSUME LaunchInv, LaunchStep
  PROVE  GuestInv'
<1> USE DEF BeforeLaunch, BeforeCopy
<1>1. CASE HideRuntimeMemory /\ UNCHANGED launchVars
      BY <1>1, HideGuestInv DEF LaunchInv
<1>2. CASE LaunchLinuxKernel
  <2>1. GuestInv /\ ramdisk = None /\ pc = "launch"
        BY <1>2 DEF LaunchInv, GuestInv, LaunchLinuxKernel
  <2>2. /\ mods' = mods /\ beyond' = beyond /\ hdr' = hdr /\ ramdisk' = ramdisk
        /\ \/ pc' = "spin" /\ initrd' = initrd
           \/ /\ pc' = "header" /\ GetMbiModule(0) # NoModule
              /\ kernel' = Image(GetMbiModule(0)) /\ initrd' = Image(GetMbiModule(1))
        BY <1>2 DEF LaunchLinuxKernel, Fail, MVMLINUZ, MINITRD
  <2>3. /\ GetMbiModule(0) # NoModule => 1 \in DOMAIN mods /\ GetMbiModule(0) = mods[1]
        /\ GetMbiModule(1) \in ModuleType
        BY <2>1, ModuleIs DEF GuestInv
  <2>4. initrd'.base \in Nat /\ initrd'.size \in 0 .. Word32 - 1
        BY <2>1, <2>2, <2>3, ImageIs DEF GuestInv
  <2> QED
        BY <2>1, <2>2, <2>3, <2>4 DEF GuestInv
<1>3. CASE CheckHeader
  <2>1. GuestInv /\ ramdisk = None /\ pc = "header"
        BY <1>3 DEF LaunchInv, GuestInv, CheckHeader
  <2>2. /\ mods' = mods /\ beyond' = beyond /\ ramdisk' = ramdisk /\ initrd' = initrd
        /\ kernel' = kernel /\ pc' \in {"spin", "alloc"}
        /\ hdr' = hdr \/ hdr' = [hdr EXCEPT !.setup_sects = DEFAULT_SECTOR_NUM]
        BY <1>3 DEF CheckHeader, Fail
  <2>3. hdr' \in HeaderType
        BY <2>1, <2>2 DEF GuestInv, HeaderType, DEFAULT_SECTOR_NUM
  <2> QED
        BY <2>1, <2>2, <2>3 DEF GuestInv
<1>4. ASSUME NEW room \in BOOLEAN, AllocBootParams(room) PROVE GuestInv'
  <2>1. GuestInv /\ ramdisk = None /\ pc = "alloc"
        BY <1>4 DEF LaunchInv, GuestInv, AllocBootParams
  <2>2. /\ mods' = mods /\ beyond' = beyond /\ ramdisk' = ramdisk /\ initrd' = initrd
        /\ kernel' = kernel /\ hdr' = hdr
        /\ \/ pc' = "spin" \/ (pc' = "place" /\ HasInitrd)
           \/ (pc' = "relocatable" /\ ~HasInitrd)
        BY <1>4 DEF AllocBootParams, launchVars
  <2>3. HasInitrd' <=> HasInitrd
        BY <2>2 DEF HasInitrd
  <2> QED
        BY <2>1, <2>2, <2>3 DEF GuestInv
<1>5. CASE PlaceInitrd
  <2>1. GuestInv /\ ramdisk = None /\ pc = "place" /\ HasInitrd
        BY <1>5 DEF LaunchInv, GuestInv, PlaceInitrd
  <2>2. /\ mods' = mods /\ beyond' = beyond /\ ramdisk' = ramdisk /\ initrd' = initrd
        /\ kernel' = kernel /\ hdr' = hdr /\ mmap' = mmap /\ orig' = orig
        /\ ram' = GetHighestSizedRam(mmap, initrd.size, MemLimit)
        BY <1>5 DEF PlaceInitrd, mapVars
  <2>3. CASE ram'.base = 0 \/ ram'.size = 0
    <3>1. pc' = "spin"
          BY <1>5, <2>3 DEF PlaceInitrd, Fail
    <3> QED
          BY <2>1, <2>2, <3>1 DEF GuestInv
  <2>4. CASE ~(ram'.base = 0 \/ ram'.size = 0)
    <3>1. pc' = "relocatable" /\ initrd_base' = InitrdAt'
          BY <1>5, <2>2, <2>4 DEF PlaceInitrd, InitrdAt, Top
    <3>2. ram' # None
          BY <2>4 DEF None
    <3>3. initrd.size \in Nat \ {0}
          BY <2>1, MapAssumption DEF GuestInv, HasInitrd
    <3>4. /\ \E k \in DOMAIN mmap :
               /\ FitsBelow(mmap[k]) /\ mmap[k].addr > 0
               /\ ram' = [base |-> mmap[k].addr, size |-> mmap[k].len]
          /\ SearchComplete =>
               \A k \in DOMAIN mmap : FitsBelow(mmap[k]) => mmap[k].addr <= ram'.base
          BY <2>2, <3>2, <3>3, FoundIs DEF LaunchInv
    <3>5. RamFits'
          BY <2>2, <3>4 DEF RamFits, FitsBelow, SearchComplete
    <3> QED
          BY <2>1, <2>2, <3>1, <3>5 DEF GuestInv, InitrdPlaced
  <2> QED
        BY <2>3, <2>4
<1>6. CASE CheckRelocatable
  <2>1. GuestInv /\ ramdisk = None /\ pc = "relocatable"
        BY <1>6 DEF LaunchInv, GuestInv, CheckRelocatable
  <2>2. /\ UNCHANGED <<mmap, orig, ram, initrd, hdr, initrd_base>>
        /\ mods' = mods /\ beyond' = beyond /\ ramdisk' = ramdisk /\ kernel' = kernel
        /\ \/ pc' = "spin"
           \/ /\ pc' = "copy"
              /\ protected_mode_base' = Uint32(kernel.base + hdr.setup_sects + 1)
        BY <1>6 DEF CheckRelocatable, mapVars, Fail
  <2>3. (InitrdPlaced' <=> InitrdPlaced) /\ (HasInitrd' <=> HasInitrd)
        BY <2>2, PlacedKept
  <2>4. pc' = "copy" => KernelAt'
        BY <2>1, <2>2 DEF GuestInv, KernelAt
  <2> QED
        BY <2>1, <2>2, <2>3, <2>4 DEF GuestInv
<1>7. CASE CopyInitrd
  <2>1. GuestInv /\ ramdisk = None /\ pc = "copy"
        BY <1>7 DEF LaunchInv, GuestInv, CopyInitrd
  <2>5. ASSUME HasInitrd, ~(ProtectedEnd > initrd_base) PROVE ProtectedEnd <= initrd_base
    <3>1. KernelAt /\ InitrdPlaced
          BY <2>1, <2>5 DEF GuestInv
    <3>2. ProtectedEnd \in Nat
          BY <2>1, <3>1, ProtectedIs DEF GuestInv
    <3>3. initrd_base \in Nat
          BY <2>1, <2>5, <3>1, InitrdIs DEF LaunchInv
    <3> QED
          BY <2>5, <3>2, <3>3
  <2>2. /\ UNCHANGED <<mmap, orig, ram, initrd, hdr, initrd_base>>
        /\ UNCHANGED <<mods, kernel, hdr, protected_mode_base>> /\ beyond' = beyond
        /\ \/ pc' = "spin" /\ ramdisk' = None
           \/ pc' = "cmdline" /\ ~HasInitrd /\ ramdisk' = None
           \/ /\ pc' \in {"cmdline", "overwritten"} /\ HasInitrd
              /\ ProtectedEnd <= initrd_base
              /\ ramdisk' = [base |-> initrd_base, size |-> initrd.size]
    <3>1. UNCHANGED <<mmap, orig, ram, initrd, hdr, initrd_base, mods, kernel,
                      protected_mode_base, beyond>>
          BY <1>7 DEF CopyInitrd, mapVars
    <3>2. CASE ~HasInitrd
          BY <1>7, <3>1, <3>2 DEF CopyInitrd, NoInitrd
    <3>3. CASE HasInitrd /\ ProtectedEnd > initrd_base
          BY <1>7, <2>1, <3>1, <3>3 DEF CopyInitrd, Fail
    <3>4. CASE HasInitrd /\ ~(ProtectedEnd > initrd_base)
          BY <1>7, <2>5, <3>1, <3>4 DEF CopyInitrd, StoreInitrd
    <3> QED
          BY <3>2, <3>3, <3>4
  <2>3. (InitrdPlaced' <=> InitrdPlaced) /\ (HasInitrd' <=> HasInitrd)
        BY <2>2, PlacedKept
  <2>4. (KernelAt' <=> KernelAt) /\ ProtectedEnd' = ProtectedEnd
        BY <2>2, KernelKept
  <2> QED
        BY <2>1, <2>2, <2>3, <2>4, <2>5 DEF GuestInv
<1>8. CASE CopyCmdline \/ SetupBootParams \/ JumpLinuxImage
  <2>1. /\ UNCHANGED <<mmap, orig, ram, initrd, hdr, initrd_base>>
        /\ UNCHANGED <<mods, kernel, hdr, protected_mode_base>>
        /\ beyond' = beyond /\ ramdisk' = ramdisk /\ memmap' = memmap
        /\ pc \in {"cmdline", "boot_params", "jump"}
        /\ pc' \in {"spin", "boot_params", "jump", "kernel"}
        BY <1>8 DEF CopyCmdline, SetupBootParams, JumpLinuxImage, mapVars, launchVars, Fail
  <2>2. (InitrdPlaced' <=> InitrdPlaced) /\ (HasInitrd' <=> HasInitrd)
        BY <2>1, PlacedKept
  <2>3. (KernelAt' <=> KernelAt) /\ ProtectedEnd' = ProtectedEnd
        BY <2>1, KernelKept
  <2>4. pc' \in {"jump", "kernel"} =>
          memmap' /\ boot_e820' = [k \in DOMAIN mmap' |-> BootEntry(mmap'[k])]
    <3>1. CASE CopyCmdline
          BY <3>1 DEF CopyCmdline, Fail
    <3>2. CASE SetupBootParams
          BY <2>1, <3>2 DEF SetupBootParams, Fail
    <3>3. CASE JumpLinuxImage
          BY <2>1, <3>3 DEF JumpLinuxImage, launchVars, GuestInv, LaunchInv
    <3> QED
          BY <1>8, <3>1, <3>2, <3>3
  <2> QED
        BY <2>1, <2>2, <2>3, <2>4 DEF GuestInv, LaunchInv
<1> QED
      BY <1>1, <1>2, <1>3, <1>4, <1>5, <1>6, <1>7, <1>8 DEF LaunchStep

LEMMA NextLaunchInv ==
  ASSUME LaunchInv, [LaunchStep \/ LaunchDone]_vars
  PROVE  LaunchInv'
<1>1. CASE UNCHANGED vars
  <2>1. MapInv' /\ OrderInv'
        BY <1>1, MapKept, OrderKept DEF LaunchInv, vars
  <2>2. /\ UNCHANGED <<mmap, orig, ram, initrd, hdr, initrd_base>>
        /\ UNCHANGED <<mods, kernel, hdr, protected_mode_base>>
        /\ pc' = pc /\ beyond' = beyond /\ ramdisk' = ramdisk /\ memmap' = memmap
        /\ boot_e820' = boot_e820
        BY <1>1 DEF vars, mapVars, launchVars
  <2>3. (InitrdPlaced' <=> InitrdPlaced) /\ (HasInitrd' <=> HasInitrd)
        BY <2>2, PlacedKept
  <2>4. (KernelAt' <=> KernelAt) /\ ProtectedEnd' = ProtectedEnd
        BY <2>2, KernelKept
  <2>5. GuestInv'
        BY <2>2, <2>3, <2>4 DEF GuestInv, LaunchInv
  <2> QED
        BY <2>1, <2>5 DEF LaunchInv
<1>2. CASE LaunchStep
  <2>1. GuestInv'
        BY <1>2, NextGuestInv
  <2>2. CASE HideRuntimeMemory
        BY <2>1, <2>2, NextMapInv, NextOrderInv DEF LaunchInv
  <2>3. CASE ~HideRuntimeMemory
    <3>1. UNCHANGED mapVars /\ pc' \notin {"hide", "walk"}
          BY <1>2, <2>3 DEF LaunchStep, LaunchLinuxKernel, CheckHeader, AllocBootParams,
             PlaceInitrd, CheckRelocatable, CopyInitrd, NoInitrd, StoreInitrd,
             CopyCmdline, SetupBootParams, JumpLinuxImage, Fail
    <3> QED
          BY <2>1, <3>1, MapKept, OrderKept DEF LaunchInv
  <2> QED
        BY <2>2, <2>3
<1> QED
      BY <1>1, <1>2 DEF LaunchDone

LEMMA LaunchAlways == LaunchSpec => []LaunchInv
BY InitGuestInv, NextLaunchInv, PTL DEF LaunchSpec

-----------------------------------------------------------------------------
(***************************************************************************)
(* The theorems.                                                           *)
(***************************************************************************)
Reserve(t) == IF t = E820_BAD_MEM THEN E820_RESERVED_MEM ELSE t

\* boot_params holds the map of mbi, type by type.
LEMMA BootTypes ==
  ASSUME NEW m \in Seq(Entries), NEW p,
         NEW b, DOMAIN b = DOMAIN m, \A k \in DOMAIN m : b[k] = BootEntry(m[k])
  PROVE  /\ TypesAt(b, p) = {Reserve(t) : t \in TypesAt(m, p)}
         /\ Cuts(b) \subseteq Nat
<1>1. ASSUME NEW k \in DOMAIN m
      PROVE  /\ b[k].addr = m[k].addr /\ End(b[k]) = End(m[k])
             /\ b[k].type = Reserve(m[k].type)
             /\ b[k].addr \in Nat /\ End(b[k]) \in Nat
  <2>1. b[k] = BootEntry(m[k]) /\ m[k] \in Entries
        OBVIOUS
  <2>2. /\ b[k].addr = m[k].addr /\ b[k].len = m[k].len
        /\ b[k].type = Reserve(m[k].type) /\ m[k].addr \in Nat /\ m[k].len \in Nat
        BY <2>1 DEF BootEntry, Entries, Reserve
  <2> QED
        BY <2>2 DEF End
<1>2. DOMAIN b = DOMAIN m
      OBVIOUS
<1>3. TypesAt(b, p) = {Reserve(t) : t \in TypesAt(m, p)}
  <2>1. ASSUME NEW t \in TypesAt(b, p) PROVE \E u \in TypesAt(m, p) : t = Reserve(u)
    <3>1. PICK k \in DOMAIN b : b[k].addr <= p /\ p < End(b[k]) /\ t = b[k].type
          BY DEF TypesAt
    <3>2. m[k].type \in TypesAt(m, p) /\ t = Reserve(m[k].type)
          BY <1>1, <1>2, <3>1 DEF TypesAt
    <3> QED
          BY <3>2
  <2>2. ASSUME NEW u \in TypesAt(m, p) PROVE Reserve(u) \in TypesAt(b, p)
    <3>1. PICK k \in DOMAIN m : m[k].addr <= p /\ p < End(m[k]) /\ u = m[k].type
          BY DEF TypesAt
    <3> QED
          BY <1>1, <1>2, <3>1 DEF TypesAt
  <2> QED
        BY <2>1, <2>2
<1>4. Cuts(b) \subseteq Nat
      BY <1>1, <1>2, ConstantsAre DEF Cuts
<1> QED
      BY <1>3, <1>4

\* The kernel gets a faithful map, whatever map the boot loader passed, in any
\* order, and whether or not the hiding succeeded.
THEOREM KernelMapFaithful == LaunchSpec => []BootMapFaithful
<1>1. ASSUME LaunchInv PROVE BootMapFaithful
  <2> SUFFICES ASSUME pc = "kernel", NEW p \in Cuts(orig) \cup Cuts(boot_e820)
               PROVE  TypesAt(boot_e820, p) =
                        IF hide_ret = "TRUE" /\ InHidden(p) THEN {E820_RESERVED_MEM}
                        ELSE {Reserve(t) : t \in TypesAt(orig, p)}
      BY DEF BootMapFaithful, Reserve
  <2>1. mmap \in Seq(Entries) /\ orig \in Seq(Entries)
        BY <1>1, MapIs, OrigIs DEF LaunchInv, MapInv
  <2>2. /\ DOMAIN boot_e820 = DOMAIN mmap
        /\ \A k \in DOMAIN mmap : boot_e820[k] = BootEntry(mmap[k])
    <3>1. boot_e820 = [k \in DOMAIN mmap |-> BootEntry(mmap[k])]
          BY <1>1 DEF LaunchInv, GuestInv
    <3> QED
          BY <3>1
  <2>3. p \in Nat
        BY <2>1, <2>2, BootTypes, CutsAre
  <2>4. TypesAt(boot_e820, p) = {Reserve(t) : t \in TypesAt(mmap, p)}
        BY <2>1, <2>2, BootTypes
  <2>5. CASE hide_ret = "TRUE"
    <3>1. TypesAt(mmap, p) =
            IF InHidden(p) THEN {MULTIBOOT_MEMORY_RESERVED} ELSE TypesAt(orig, p)
          BY <1>1, <2>3, <2>5, MapIsFaithful DEF LaunchInv
    <3>2. {Reserve(t) : t \in {MULTIBOOT_MEMORY_RESERVED}} = {E820_RESERVED_MEM}
          BY DEF Reserve, MULTIBOOT_MEMORY_RESERVED, E820_RESERVED_MEM, E820_BAD_MEM
    <3>3. CASE InHidden(p)
          BY <2>4, <2>5, <3>1, <3>2, <3>3
    <3>4. CASE ~InHidden(p)
          BY <2>4, <2>5, <3>1, <3>4
    <3> QED
          BY <3>3, <3>4
  <2>6. CASE hide_ret # "TRUE"
    <3>1. mmap = orig
          BY <1>1, <2>6 DEF LaunchInv, MapInv
    <3> QED
          BY <2>4, <2>6, <3>1
  <2> QED
        BY <2>5, <2>6
<1> QED
      BY <1>1, LaunchAlways, PTL

\* The test of the overlap keeps the initrd off the kernel, wherever the kernel
\* lies and the initrd is put, as long as no sum of the test wraps.
THEOREM KernelIsSpared == LaunchSpec => []InitrdSparesKernel
<1>1. ASSUME LaunchInv, KernelFits, ramdisk # None
      PROVE  ~Overlap(ramdisk, [base |-> protected_mode_base, size |-> hdr.init_size])
  <2>1. /\ HasInitrd /\ InitrdPlaced /\ KernelAt /\ ProtectedEnd <= initrd_base
        /\ ramdisk = [base |-> initrd_base, size |-> initrd.size]
        /\ mods \in ModuleLists /\ hdr \in HeaderType
        BY <1>1 DEF LaunchInv, GuestInv
  <2>2. /\ kernel.base \in Nat /\ hdr.init_size \in Nat /\ hdr.setup_sects \in Nat
        /\ protected_mode_base \in Nat /\ ProtectedEnd \in Nat
        BY <2>1, ProtectedIs
  <2>3. initrd_base \in Nat /\ initrd.size \in Nat
        BY <1>1, <2>1, InitrdIs DEF LaunchInv
  <2> DEFINE n == hdr.init_size
             b == kernel.base + hdr.setup_sects + 1
             a == PageAlign(n)
  <2>4. n \in Nat /\ b \in Nat /\ b + n + Page <= Word32
        BY <1>1, <2>2, PageConstants DEF KernelFits
  <2>5. protected_mode_base = Uint32(b)
        BY <2>1 DEF KernelAt
  <2>6. ProtectedEnd = Uint32(protected_mode_base + a)
        BY DEF ProtectedEnd
  <2> HIDE DEF b
  <2>7. a \in Nat /\ n <= a /\ a < n + Page
    <3> HIDE DEF n
    <3>1. n + Page - 1 \in Nat /\ n + Page - 1 < Word32
          BY <2>4, PageConstants
    <3> DEFINE x == n + Page - 1
    <3>2. x \in Nat /\ Uint32(x) = x
          BY <3>1, PageConstants DEF Uint32
    <3>3. x - (x % Page) \in Nat /\ x - (x % Page) <= x /\ x < x - (x % Page) + Page
      <4> HIDE DEF x
      <4> QED
            BY <3>2, PageConstants, RoundDown
    <3>4. a = x - (x % Page)
          BY <3>2 DEF PageAlign
    <3> DEFINE y == x - (x % Page)
    <3>5. y \in Nat /\ y <= n + Page - 1 /\ n + Page - 1 < y + Page /\ a = y
          BY <3>3, <3>4
    <3> HIDE DEF y, x, a
    <3> QED
          BY <2>4, <3>5, PageConstants
  <2> HIDE DEF n, a
  <2>8. Uint32(b) = b /\ Uint32(b + a) = b + a
    <3>1. b < Word32 /\ b + a < Word32 /\ b + a \in Nat
          BY <2>4, <2>7, PageConstants
    <3> QED
          BY <2>4, <3>1, PageConstants DEF Uint32
  <2>9. protected_mode_base + n <= initrd_base
        BY <2>1, <2>3, <2>4, <2>5, <2>6, <2>7, <2>8
  <2>10. ramdisk.base = initrd_base
        BY <2>1
  <2> QED
        BY <2>2, <2>3, <2>9, <2>10 DEF Overlap, n
<1>2. LaunchInv => InitrdSparesKernel
      BY <1>1 DEF InitrdSparesKernel
<1> QED
      BY <1>2, LaunchAlways, PTL

\* With room, the initrd lies in the region that was found, and below its limit.
LEMMA InitrdInRegion ==
  ASSUME LaunchInv, InitrdRoom, ramdisk # None
  PROVE  /\ ramdisk.base \in Nat /\ ramdisk.size \in Nat \ {0} /\ ramdisk.base % Page = 0
         /\ ram.base <= ramdisk.base
         /\ ramdisk.base + ramdisk.size <= ram.base + ram.size
         /\ ramdisk.base + ramdisk.size <= hdr.initrd_addr_max
<1>1. /\ HasInitrd /\ InitrdPlaced /\ initrd_base = InitrdAt
      /\ ramdisk = [base |-> initrd_base, size |-> initrd.size]
      BY DEF LaunchInv, GuestInv, InitrdPlaced
<1> DEFINE n == initrd.size
           b == ram.base
           e == ram.base + ram.size
           l == hdr.initrd_addr_max
<1>2. /\ n \in Nat \ {0} /\ l \in Nat /\ b \in Nat \ {0} /\ e \in Nat /\ b + n <= e
      /\ Top = PageAlignDown(e - n) /\ initrd_base \in Nat /\ initrd_base % Page = 0
      BY <1>1, InitrdIs DEF LaunchInv
<1>3. b % Page = 0 /\ e < Word32 /\ b + n <= l
      BY DEF InitrdRoom
<1>4. initrd_base = IF Uint32(Top + n) > l THEN PageAlignDown(Uint32(l - n)) ELSE Top
      BY <1>1 DEF InitrdAt
<1> HIDE DEF n, b, e, l
<1>5. ASSUME NEW x \in Nat, b <= x
      PROVE  PageAlignDown(x) \in Nat /\ PageAlignDown(x) <= x /\ b <= PageAlignDown(x)
      BY <1>2, <1>3, <1>5, PageConstants, RoundDown DEF PageAlignDown
<1>6. Top \in Nat /\ Top + n <= e /\ b <= Top
  <2>1. e - n \in Nat /\ b <= e - n
        BY <1>2
  <2> QED
        BY <1>2, <1>5, <2>1
<1>7. Uint32(Top + n) = Top + n
  <2>1. Top + n \in Nat /\ Top + n < Word32
        BY <1>2, <1>3, <1>6, PageConstants
  <2> QED
        BY <2>1, PageConstants DEF Uint32
<1>8. b <= initrd_base /\ initrd_base + n <= e /\ initrd_base + n <= l
  <2>1. CASE Top + n > l
    <3>1. l - n \in Nat /\ b <= l - n /\ l - n < Word32
          BY <1>2, <1>3, <1>6, <2>1, PageConstants
    <3>2. Uint32(l - n) = l - n
          BY <3>1, PageConstants DEF Uint32
    <3>3. initrd_base = PageAlignDown(l - n)
          BY <1>4, <1>7, <2>1, <3>2
    <3>4. initrd_base <= l - n /\ b <= initrd_base
          BY <1>5, <3>1, <3>3
    <3> QED
          BY <1>2, <1>6, <2>1, <3>4
  <2>2. CASE ~(Top + n > l)
    <3>1. initrd_base = Top
          BY <1>4, <1>7, <2>2
    <3> QED
          BY <1>2, <1>6, <2>2, <3>1
  <2> QED
        BY <2>1, <2>2
<1>9. ramdisk.base = initrd_base /\ ramdisk.size = n
      BY <1>1 DEF n
<1> QED
      BY <1>2, <1>8, <1>9 DEF b, e, l

\* A module that lies low enough, or reaches up to the limit, is copied as it is:
\* the copy begins less than a page below the limit less its size.
THEOREM RamdiskIsIntact == LaunchSpec => []RamdiskIntact
<1>1. ASSUME LaunchInv, InitrdRoom, SourceClear, ramdisk # None
      PROVE  CopyIntact(ramdisk, initrd)
  <2>1. /\ HasInitrd /\ InitrdPlaced /\ initrd_base = InitrdAt
        /\ ramdisk.base = initrd_base /\ initrd.base \in Nat
        BY <1>1 DEF LaunchInv, GuestInv, InitrdPlaced
  <2> DEFINE n == initrd.size
             e == ram.base + ram.size
             l == hdr.initrd_addr_max
             top == InitrdLimit
             s == initrd.base
  <2>2. /\ n \in Nat \ {0} /\ l \in Nat /\ e \in Nat /\ n <= e
        /\ Top = PageAlignDown(e - n) /\ initrd_base \in Nat
        BY <1>1, <2>1, InitrdIs DEF LaunchInv
  <2>3. e < Word32 /\ n <= l
    <3>1. ram.base \in Nat /\ ram.base + n <= l
          BY <1>1, <2>1, InitrdIs DEF LaunchInv, InitrdRoom
    <3> QED
          BY <1>1, <2>2, <3>1 DEF InitrdRoom
  <2>4. initrd_base = IF Uint32(Top + n) > l THEN PageAlignDown(Uint32(l - n)) ELSE Top
        BY <2>1 DEF InitrdAt
  <2>5. top = IF e <= l THEN e ELSE l
        BY DEF InitrdLimit
  <2>6. s + 2 * n + Page <= top \/ top <= s + n
        BY <1>1 DEF SourceClear
  <2> HIDE DEF n, e, l, top, s
  <2>7. ASSUME NEW x \in Nat
        PROVE  PageAlignDown(x) \in Nat /\ PageAlignDown(x) <= x /\ x < PageAlignDown(x) + Page
        BY PageConstants, RoundDown DEF PageAlignDown
  <2>8. Top \in Nat /\ Top + n <= e /\ e < Top + n + Page /\ Uint32(Top + n) = Top + n
    <3>1. e - n \in Nat
          BY <2>2
    <3>2. Top \in Nat /\ Top <= e - n /\ e - n < Top + Page
          BY <2>2, <2>7, <3>1
    <3>3. Top + n \in Nat /\ Top + n < Word32
          BY <2>2, <2>3, <3>2, PageConstants
    <3> QED
          BY <2>2, <3>2, <3>3, PageConstants DEF Uint32
  <2>9. initrd_base + n <= top /\ top < initrd_base + n + Page /\ top \in Nat
    <3>1. CASE Top + n > l
      <4>1. l - n \in Nat /\ l - n < Word32 /\ l < e
            BY <2>2, <2>3, <2>8, <3>1, PageConstants
      <4>2. Uint32(l - n) = l - n
            BY <4>1, PageConstants DEF Uint32
      <4>3. initrd_base <= l - n /\ l - n < initrd_base + Page
            BY <2>4, <2>7, <2>8, <3>1, <4>1, <4>2
      <4>4. top = l
            BY <2>2, <2>5, <4>1
      <4> QED
            BY <2>2, <4>3, <4>4, PageConstants
    <3>2. CASE ~(Top + n > l)
      <4>1. initrd_base = Top
            BY <2>4, <2>8, <3>2
      <4>2. top \in Nat /\ top <= e /\ Top + n <= top
            BY <2>2, <2>5, <2>8, <3>2
      <4> QED
            BY <2>2, <2>8, <4>1, <4>2, PageConstants
    <3> QED
          BY <3>1, <3>2
  <2>10. s \in Nat /\ ~(s < initrd_base /\ initrd_base < s + n)
    <3>1. s \in Nat
          BY <2>1 DEF s
    <3> QED
          BY <2>2, <2>6, <2>9, <3>1, PageConstants
  <2> QED
        BY <2>1, <2>10 DEF CopyIntact, s, n
<1>2. LaunchInv => RamdiskIntact
      BY <1>1 DEF RamdiskIntact
<1> QED
      BY <1>2, LaunchAlways, PTL

\* A byte that one entry of the boot loader's map reports has its type only.
LEMMA OneType ==
  ASSUME OrigInv, NEW p \in Nat, NEW t \in TypesAt(orig, p)
  PROVE  TypesAt(orig, p) = {t}
<1>1. PICK k \in DOMAIN orig : orig[k].addr <= p /\ p < End(orig[k]) /\ t = orig[k].type
      BY DEF TypesAt
<1>2. memmap
      BY <1>1 DEF OrigInv
<1>3. ASSUME NEW j \in DOMAIN orig, orig[j].addr <= p, p < End(orig[j]) PROVE j = k
  <2>1. j # k => Apart(orig[j], orig[k])
        BY <1>2, EntryIs
  <2>2. /\ orig[j].addr \in Nat /\ End(orig[j]) \in Nat
        /\ orig[k].addr \in Nat /\ End(orig[k]) \in Nat
        BY <1>2, EntryIs
  <2> QED
        BY <1>1, <1>3, <2>1, <2>2 DEF Apart
<1>4. ASSUME NEW u \in TypesAt(orig, p) PROVE u = t
      BY <1>1, <1>3 DEF TypesAt
<1> QED
      BY <1>4

\* An initrd for which there is room is copied to whole pages of memory that the
\* boot loader reported as available, below the kernel's limit and off the
\* monitor.
THEOREM InitrdIsInRam == LaunchSpec => []InitrdInRam
<1>1. ASSUME LaunchInv, InitrdRoom, ramdisk # None
      PROVE  /\ ramdisk.base % Page = 0
             /\ ramdisk.base + ramdisk.size <= hdr.initrd_addr_max
             /\ ~Overlap(ramdisk, Monitor)
             /\ \A p \in {q \in Cuts(orig) \cup {ramdisk.base} : Within(ramdisk, q)} :
                  TypesAt(orig, p) = {MULTIBOOT_MEMORY_AVAILABLE}
  <2>1. /\ ramdisk.base \in Nat /\ ramdisk.size \in Nat \ {0} /\ ramdisk.base % Page = 0
        /\ ram.base <= ramdisk.base
        /\ ramdisk.base + ramdisk.size <= ram.base + ram.size
        /\ ramdisk.base + ramdisk.size <= hdr.initrd_addr_max
        BY <1>1, InitrdInRegion
  <2>2. PICK k \in DOMAIN mmap :
          FitsBelow(mmap[k]) /\ ram = [base |-> mmap[k].addr, size |-> mmap[k].len]
        BY <1>1 DEF LaunchInv, GuestInv, InitrdPlaced, RamFits
  <2>3. mmap[k] \in Entries /\ mmap[k].type = MULTIBOOT_MEMORY_AVAILABLE
        BY <1>1, <2>2, MapIs DEF LaunchInv, FitsBelow
  <2>4. /\ ram.base = mmap[k].addr /\ ram.base + ram.size = End(mmap[k])
        /\ ram.base \in Nat /\ End(mmap[k]) \in Nat
        BY <2>2, <2>3 DEF End, Entries
  <2>5. ASSUME NEW p \in Nat, Within(ramdisk, p)
        PROVE  ~InHidden(p) /\ TypesAt(orig, p) = {MULTIBOOT_MEMORY_AVAILABLE}
    <3>1. mmap[k].addr <= p /\ p < End(mmap[k])
          BY <2>1, <2>4, <2>5 DEF Within
    <3>2. MULTIBOOT_MEMORY_AVAILABLE \in TypesAt(mmap, p)
          BY <2>3, <3>1 DEF TypesAt
    <3>3. TypesAt(mmap, p) =
            IF InHidden(p) THEN {MULTIBOOT_MEMORY_RESERVED} ELSE TypesAt(orig, p)
          BY <1>1, MapIsFaithful DEF LaunchInv, InitrdRoom
    <3>4. ~InHidden(p)
          BY <3>2, <3>3 DEF MULTIBOOT_MEMORY_AVAILABLE, MULTIBOOT_MEMORY_RESERVED
    <3>5. OrigInv
          BY <1>1 DEF LaunchInv, MapInv
    <3> QED
          BY <3>2, <3>3, <3>4, <3>5, OneType
  <2>6. ~Overlap(ramdisk, Monitor)
    <3> SUFFICES ASSUME Overlap(ramdisk, Monitor) PROVE FALSE
        OBVIOUS
    <3>1. /\ ramdisk.base < HideAddr + HideSize /\ HideAddr < ramdisk.base + ramdisk.size
          BY DEF Overlap, Monitor
    <3>2. CASE ramdisk.base <= HideAddr
      <4>1. HideAddr \in Nat /\ Within(ramdisk, HideAddr) /\ InHidden(HideAddr)
            BY <2>1, <3>1, <3>2, ConstantsAre DEF Within, InHidden
      <4> QED
            BY <2>5, <4>1
    <3>3. CASE HideAddr <= ramdisk.base
      <4>1. Within(ramdisk, ramdisk.base) /\ InHidden(ramdisk.base)
            BY <2>1, <3>1, <3>3, ConstantsAre DEF Within, InHidden
      <4> QED
            BY <2>1, <2>5, <4>1
    <3> QED
          BY <2>1, <3>2, <3>3, ConstantsAre
  <2>7. Cuts(orig) \cup {ramdisk.base} \subseteq Nat
    <3>1. orig \in Seq(Entries)
          BY <1>1, OrigIs DEF LaunchInv, MapInv
    <3> QED
          BY <2>1, <3>1, CutsAre
  <2> QED
        BY <2>1, <2>5, <2>6, <2>7
<1>2. LaunchInv => InitrdInRam
      BY <1>1 DEF InitrdInRam
<1> QED
      BY <1>2, LaunchAlways, PTL

\* get_highest_sized_ram returns a region below the limit that is large enough, and
\* the highest one if the map is sorted or has no available memory above the limit,
\* whether or not the map was split.
THEOREM HighestRamFound == LaunchSpec => HighestRam
<1>1. ASSUME LaunchInv, LaunchStep \/ LaunchDone, pc = "place"
      PROVE  /\ SearchComplete =>
                  \A i \in DOMAIN mmap : FitsBelow(mmap[i]) => mmap[i].addr <= ram'.base
             /\ ram' = None \/ \E i \in DOMAIN mmap :
                  FitsBelow(mmap[i]) /\ ram' = [base |-> mmap[i].addr, size |-> mmap[i].len]
  <2>1. ram' = GetHighestSizedRam(mmap, initrd.size, MemLimit)
        BY <1>1 DEF LaunchStep, LaunchDone, HideRuntimeMemory, HideRefused, HideBegin,
           CopyEntry, RefuseEntry, SplitEntry, HideDone, LaunchLinuxKernel, CheckHeader,
           AllocBootParams, PlaceInitrd, CheckRelocatable, CopyInitrd, CopyCmdline,
           SetupBootParams, JumpLinuxImage
  <2>2. initrd.size \in Nat \ {0}
        BY <1>1, PageConstants DEF LaunchInv, GuestInv, HasInitrd
  <2> QED
        BY <1>1, <2>1, <2>2, FoundIs DEF LaunchInv
<1> QED
      BY <1>1, LaunchAlways, PTL DEF LaunchSpec, HighestRam

\* With a monitor of at least a page, an initrd that a region beyond the monitor
\* can take spares the running loader, if the search is complete.
THEOREM LoaderIsSpared ==
  ASSUME Page <= HideSize
  PROVE  LaunchSpec => []InitrdSparesLoader
<1>1. ASSUME LaunchInv, ramdisk # None, SearchComplete,
             HideAddr + HideSize + ramdisk.size + Page <= hdr.initrd_addr_max,
             NEW k \in DOMAIN mmap, FitsBelow(mmap[k]), mmap[k].addr >= HideAddr + HideSize
      PROVE  ~Overlap(ramdisk, Loader)
  <2>1. /\ HasInitrd /\ InitrdPlaced /\ initrd_base = InitrdAt
        /\ ramdisk = [base |-> initrd_base, size |-> initrd.size]
        BY <1>1 DEF LaunchInv, GuestInv, InitrdPlaced
  <2> DEFINE n == initrd.size
             b == ram.base
             e == ram.base + ram.size
             l == hdr.initrd_addr_max
  <2>2. /\ n \in Nat \ {0} /\ l \in Nat /\ b \in Nat \ {0} /\ e \in Nat /\ b + n <= e
        /\ e <= Word32 /\ Top = PageAlignDown(e - n) /\ initrd_base \in Nat
        BY <1>1, <2>1, InitrdIs DEF LaunchInv
  <2>3. HideEnd <= b
    <3>1. mmap[k].addr <= b
          BY <1>1, <2>1 DEF InitrdPlaced, RamFits
    <3>2. mmap[k] \in Entries
          BY <1>1, MapIs DEF LaunchInv
    <3>3. mmap[k].addr \in Nat
          BY <3>2 DEF Entries
    <3> HIDE DEF b
    <3> QED
          BY <1>1, <2>2, <3>1, <3>3, ConstantsAre
  <2>4. initrd_base = IF Uint32(Top + n) > l THEN PageAlignDown(Uint32(l - n)) ELSE Top
        BY <2>1 DEF InitrdAt
  <2>5. HideEnd + n + Page <= l
        BY <1>1, <2>1, ConstantsAre
  <2> HIDE DEF n, b, e, l
  <2>6. ASSUME NEW x \in Nat
        PROVE  PageAlignDown(x) \in Nat /\ PageAlignDown(x) <= x /\ x < PageAlignDown(x) + Page
        BY PageConstants, RoundDown DEF PageAlignDown
  <2>7. HideAddr \in Nat /\ HideEnd \in Nat /\ HideAddr + Page <= HideEnd
        BY ConstantsAre, PageConstants
  <2>8. Top \in Nat /\ e - n < Top + Page /\ Top + n <= Word32
    <3>1. e - n \in Nat
          BY <2>2
    <3>2. Top \in Nat /\ Top <= e - n /\ e - n < Top + Page
          BY <2>2, <2>6, <3>1
    <3> QED
          BY <2>2, <3>2, PageConstants
  <2>9. HideAddr <= initrd_base
    <3>1. CASE Uint32(Top + n) > l
      <4>1. Uint32(Top + n) < Word32 /\ Uint32(Top + n) \in Nat
            BY <2>2, <2>8, PageConstants DEF Uint32
      <4>2. l - n \in Nat /\ l - n < Word32
            BY <2>2, <2>5, <2>7, <3>1, <4>1, PageConstants
      <4>3. Uint32(l - n) = l - n
            BY <4>2, PageConstants DEF Uint32
      <4>4. l - n < initrd_base + Page
            BY <2>4, <2>6, <3>1, <4>2, <4>3
      <4> QED
            BY <2>2, <2>5, <2>7, <4>4, PageConstants
    <3>2. CASE ~(Uint32(Top + n) > l)
      <4>1. initrd_base = Top
            BY <2>4, <3>2
      <4> QED
            BY <2>2, <2>3, <2>7, <2>8, <4>1, PageConstants
    <3> QED
          BY <3>1, <3>2
  <2>10. Loader.base + Loader.size = HideAddr
        BY LaunchAssumption, ConstantsAre DEF Loader
  <2>11. ramdisk.base = initrd_base
        BY <2>1
  <2> QED
        BY <2>2, <2>7, <2>9, <2>10, <2>11 DEF Overlap
<1>2. LaunchInv => InitrdSparesLoader
      BY <1>1 DEF InitrdSparesLoader
<1> QED
      BY <1>2, LaunchAlways, PTL
=============================================================================
