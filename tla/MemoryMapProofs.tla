--------------------------- MODULE MemoryMapProofs ---------------------------
(***************************************************************************)
(* Theorems about MemoryMap, for every map of disjoint entries that reports *)
(* the memory the monitor runs in, whatever its length and its order.       *)
(***************************************************************************)
EXTENDS MemoryMap, SequenceTheorems, TLAPS

Entries == [addr : Nat, len : Nat, type : 1 .. 5]

\* The entry that holds the first hidden byte, and whether it holds them all.
Home     == CHOOSE i \in DOMAIN orig : orig[i].addr <= HideAddr /\ HideAddr < End(orig[i])
Whole    == HideEnd <= End(orig[Home])
HomeFree == orig[Home].type = MULTIBOOT_MEMORY_AVAILABLE

Covers(e, p) == e.addr <= p /\ p < End(e)

\* The types that the entries before the k-th give to p.
TypesBefore(k, p) == {orig[i].type : i \in {j \in 1 .. k - 1 : Covers(orig[j], p)}}

\* A map of the boot loader.
OrigInv ==
  /\ memmap \in BOOLEAN
  /\ memmap => orig \in Maps
  /\ ~memmap => orig = <<>>

LEMMA OrigIs ==
  ASSUME OrigInv
  PROVE  orig \in Seq(Entries) /\ Len(orig) \in Nat /\ DOMAIN orig = 1 .. Len(orig)
<1>1. Maps \subseteq Seq(Entries)
      BY MapAssumption DEF Entries
<1>2. orig \in Seq(Entries)
  <2>1. <<>> \in Seq(Entries)
        OBVIOUS
  <2> QED
        BY <1>1, <2>1 DEF OrigInv
<1> QED
      BY <1>2

LEMMA ConstantsAre ==
  /\ HideAddr \in Nat /\ HideSize \in Nat \ {0}
  /\ Word64 \in Nat \ {0} /\ HideEnd = HideAddr + HideSize
<1>1. /\ HideAddr \in Nat /\ HideSize \in Nat \ {0} /\ Word32 \in Nat \ {0}
      /\ Word64 \in Nat \ {0} /\ HideAddr + HideSize < Word32
      BY MapAssumption
<1> QED
      BY <1>1 DEF HideEnd, Uint32

LEMMA EntryIs ==
  ASSUME OrigInv, memmap, NEW i \in DOMAIN orig
  PROVE  /\ orig[i] \in Entries /\ End(orig[i]) \in Nat
         /\ orig[i].addr \in Nat /\ orig[i].addr <= End(orig[i])
         /\ Uint64(End(orig[i])) = End(orig[i])
         /\ \A j \in DOMAIN orig : i # j => Apart(orig[i], orig[j])
<1>1. /\ orig \in Seq(Entries) /\ End(orig[i]) < Word64
      /\ \A j \in DOMAIN orig : i # j => Apart(orig[i], orig[j])
      BY MapAssumption DEF OrigInv, Entries
<1>2. orig[i] \in Entries
      BY <1>1
<1>3. /\ orig[i].addr \in Nat /\ End(orig[i]) \in Nat /\ orig[i].addr <= End(orig[i])
      BY <1>2 DEF Entries, End
<1>4. Uint64(End(orig[i])) = End(orig[i])
      BY <1>1, <1>3, ConstantsAre DEF Uint64
<1> QED
      BY <1>1, <1>2, <1>3, <1>4

LEMMA HomeIs ==
  ASSUME OrigInv, memmap
  PROVE  /\ Home \in DOMAIN orig /\ Covers(orig[Home], HideAddr)
         /\ ~Untouched(orig[Home])
<1>1. \E i \in DOMAIN orig : orig[i].addr <= HideAddr /\ HideAddr < End(orig[i])
      BY MapAssumption DEF OrigInv
<1>2. Home \in DOMAIN orig /\ orig[Home].addr <= HideAddr /\ HideAddr < End(orig[Home])
      BY <1>1 DEF Home
<1>3. ~Untouched(orig[Home])
      BY <1>2, EntryIs, ConstantsAre DEF Untouched
<1> QED
      BY <1>2, <1>3 DEF Covers

\* Where one entry holds all of the hidden memory, no other is touched by it.
LEMMA OthersUntouched ==
  ASSUME OrigInv, memmap, Whole, NEW i \in DOMAIN orig, i # Home
  PROVE  Untouched(orig[i])
<1>1. Home \in DOMAIN orig /\ orig[Home].addr <= HideAddr /\ HideEnd <= End(orig[Home])
      BY HomeIs DEF Covers, Whole
<1>2. Apart(orig[i], orig[Home])
      BY <1>1, EntryIs
<1>3. /\ orig[Home].addr \in Nat /\ End(orig[Home]) \in Nat
      /\ orig[i].addr \in Nat /\ End(orig[i]) \in Nat /\ Uint64(End(orig[i])) = End(orig[i])
      BY <1>1, EntryIs
<1> QED
      BY <1>1, <1>2, <1>3, ConstantsAre DEF Apart, Untouched

\* Where it does not, an entry touched before it lies above it.
LEMMA TouchedAbove ==
  ASSUME OrigInv, memmap, NEW i \in DOMAIN orig, i # Home, ~Untouched(orig[i])
  PROVE  orig[Home].addr < orig[i].addr
<1>1. Home \in DOMAIN orig /\ orig[Home].addr <= HideAddr /\ HideAddr < End(orig[Home])
      BY HomeIs DEF Covers
<1>2. Apart(orig[i], orig[Home])
      BY <1>1, EntryIs
<1>3. /\ orig[Home].addr \in Nat /\ End(orig[Home]) \in Nat
      /\ orig[i].addr \in Nat /\ End(orig[i]) \in Nat /\ Uint64(End(orig[i])) = End(orig[i])
      BY <1>1, EntryIs
<1> QED
      BY <1>1, <1>2, <1>3, ConstantsAre DEF Apart, Untouched

-----------------------------------------------------------------------------
(***************************************************************************)
(* What the entries of a sequence say of a byte.                           *)
(***************************************************************************)
LEMMA TypesOfConcat ==
  ASSUME NEW m \in Seq(Entries), NEW n \in Seq(Entries), NEW p
  PROVE  TypesAt(m \o n, p) = TypesAt(m, p) \cup TypesAt(n, p)
<1> DEFINE c == m \o n
<1>1. /\ Len(m) \in Nat /\ Len(n) \in Nat /\ Len(c) = Len(m) + Len(n)
      /\ DOMAIN m = 1 .. Len(m) /\ DOMAIN n = 1 .. Len(n) /\ DOMAIN c = 1 .. Len(c)
      /\ \A i \in 1 .. Len(m) : c[i] = m[i]
      /\ \A i \in 1 .. Len(n) : c[Len(m) + i] = n[i]
      BY ConcatProperties
<1> HIDE DEF c
<1>2. ASSUME NEW t \in TypesAt(c, p) PROVE t \in TypesAt(m, p) \cup TypesAt(n, p)
  <2>1. PICK i \in DOMAIN c : c[i].addr <= p /\ p < End(c[i]) /\ t = c[i].type
        BY DEF TypesAt
  <2>2. CASE i <= Len(m)
        BY <1>1, <2>1, <2>2 DEF TypesAt
  <2>3. CASE i > Len(m)
    <3>1. i - Len(m) \in 1 .. Len(n) /\ i = Len(m) + (i - Len(m))
          BY <1>1, <2>1, <2>3
    <3>2. c[i] = n[i - Len(m)]
          BY <1>1, <3>1
    <3> QED
          BY <1>1, <2>1, <3>1, <3>2 DEF TypesAt
  <2> QED
        BY <1>1, <2>2, <2>3
<1>3. ASSUME NEW t \in TypesAt(m, p) PROVE t \in TypesAt(c, p)
  <2>1. PICK i \in DOMAIN m : m[i].addr <= p /\ p < End(m[i]) /\ t = m[i].type
        BY DEF TypesAt
  <2>2. i \in DOMAIN c /\ c[i] = m[i]
        BY <1>1, <2>1
  <2> QED
        BY <2>1, <2>2 DEF TypesAt
<1>4. ASSUME NEW t \in TypesAt(n, p) PROVE t \in TypesAt(c, p)
  <2>1. PICK i \in DOMAIN n : n[i].addr <= p /\ p < End(n[i]) /\ t = n[i].type
        BY DEF TypesAt
  <2>2. Len(m) + i \in DOMAIN c /\ c[Len(m) + i] = n[i]
        BY <1>1, <2>1
  <2> QED
        BY <2>1, <2>2 DEF TypesAt
<1> QED
      BY <1>2, <1>3, <1>4 DEF c

LEMMA ConcatIs ==
  ASSUME NEW m \in Seq(Entries), NEW n \in Seq(Entries)
  PROVE  m \o n \in Seq(Entries) /\ Len(m \o n) = Len(m) + Len(n)
BY ConcatProperties

LEMMA TypesOfOne ==
  ASSUME NEW e \in Entries, NEW p
  PROVE  /\ <<e>> \in Seq(Entries) /\ Len(<<e>>) = 1
         /\ TypesAt(<<e>>, p) = IF Covers(e, p) THEN {e.type} ELSE {}
<1>1. DOMAIN <<e>> = {1} /\ <<e>>[1] = e
      OBVIOUS
<1> QED
      BY <1>1 DEF TypesAt, Covers

\* One entry more.
LEMMA TypesBeforeNext ==
  ASSUME NEW k \in Nat \ {0}, NEW p
  PROVE  TypesBefore(k + 1, p) =
           TypesBefore(k, p) \cup (IF Covers(orig[k], p) THEN {orig[k].type} ELSE {})
<1>1. 1 .. (k + 1) - 1 = (1 .. k - 1) \cup {k}
      OBVIOUS
<1> QED
      BY <1>1 DEF TypesBefore

\* The two or three entries a split makes are entries.
LEMMA SplitIs ==
  ASSUME OrigInv, memmap, NEW i \in DOMAIN orig
  PROVE  /\ Split(orig[i]) \in Seq(Entries) /\ Len(Split(orig[i])) = 2
         /\ Rest(orig[i]) \in Seq(Entries) /\ Len(Rest(orig[i])) \in 0 .. 1
         /\ HideEnd > Uint64(End(orig[i])) => Rest(orig[i]) = <<>>
<1> DEFINE e == orig[i]
<1>1. /\ e.addr \in Nat /\ e.type \in 1 .. 5 /\ End(e) \in Nat /\ Uint64(End(e)) = End(e)
      BY EntryIs DEF Entries
<1> HIDE DEF e
<1>2. Uint64(HideAddr - e.addr) \in Nat
      BY <1>1, ConstantsAre DEF Uint64
<1>3. /\ Entry(e.addr, Uint64(HideAddr - e.addr), e.type) \in Entries
      /\ Entry(HideAddr, HideSize, MULTIBOOT_MEMORY_RESERVED) \in Entries
      BY <1>1, <1>2, ConstantsAre DEF Entry, Entries, MULTIBOOT_MEMORY_RESERVED
<1>4. Split(e) \in Seq(Entries) /\ Len(Split(e)) = 2
      BY <1>3 DEF Split
<1>5. CASE HideEnd < Uint64(End(e))
  <2>1. Uint64(End(e)) - HideEnd \in Nat /\ HideEnd \in Nat
        BY <1>1, <1>5, ConstantsAre
  <2>2. Entry(HideEnd, Uint64(End(e)) - HideEnd, e.type) \in Entries
        BY <1>1, <2>1 DEF Entry, Entries
  <2> QED
        BY <1>1, <1>4, <1>5, <2>2, ConstantsAre DEF Rest, e
<1>6. CASE ~(HideEnd < Uint64(End(e)))
  <2>1. Rest(e) = <<>>
        BY <1>6 DEF Rest
  <2> QED
        BY <1>4, <2>1 DEF e
<1> QED
      BY <1>5, <1>6

\* Split, the entry that holds the hidden memory says RESERVED of it, and of the
\* rest of its bytes what it said.
LEMMA SplitTypes ==
  ASSUME OrigInv, memmap, Whole, NEW p \in Nat
  PROVE  TypesAt(Split(orig[Home]), p) \cup TypesAt(Rest(orig[Home]), p) =
           IF InHidden(p) THEN {MULTIBOOT_MEMORY_RESERVED}
           ELSE IF Covers(orig[Home], p) THEN {orig[Home].type} ELSE {}
<1> DEFINE e == orig[Home]
           a == Entry(e.addr, Uint64(HideAddr - e.addr), e.type)
           b == Entry(HideAddr, HideSize, MULTIBOOT_MEMORY_RESERVED)
           c == Entry(HideEnd, Uint64(End(e)) - HideEnd, e.type)
<1>1. /\ Home \in DOMAIN orig /\ e.addr <= HideAddr /\ HideEnd <= End(e)
      /\ e.addr \in Nat /\ End(e) \in Nat /\ Uint64(End(e)) = End(e)
      BY HomeIs, EntryIs DEF Covers, Whole
<1> HIDE DEF e
<1>2. Uint64(HideAddr - e.addr) = HideAddr - e.addr
  <2>1. HideAddr - e.addr \in Nat /\ HideAddr - e.addr < Word64
    <3>1. HideAddr < Word64
          BY MapAssumption
    <3> QED
          BY <1>1, <3>1, ConstantsAre
  <2> QED
        BY <2>1, ConstantsAre DEF Uint64
<1>3. /\ a.addr = e.addr /\ End(a) = HideAddr /\ a.type = e.type
      /\ b.addr = HideAddr /\ End(b) = HideEnd /\ b.type = MULTIBOOT_MEMORY_RESERVED
      /\ c.addr = HideEnd /\ End(c) = End(e) /\ c.type = e.type
      BY <1>1, <1>2, ConstantsAre DEF Entry, End
<1> HIDE DEF a, b, c
<1>4. TypesAt(<<a, b>>, p) = (IF Covers(a, p) THEN {a.type} ELSE {})
                               \cup (IF Covers(b, p) THEN {b.type} ELSE {})
  <2>1. DOMAIN <<a, b>> = {1, 2} /\ <<a, b>>[1] = a /\ <<a, b>>[2] = b
        OBVIOUS
  <2> HIDE DEF a, b
  <2> QED
        BY <2>1 DEF TypesAt, Covers
<1>5. TypesAt(Rest(e), p) = IF Covers(c, p) THEN {c.type} ELSE {}
  <2>1. CASE HideEnd < Uint64(End(e))
    <3>1. Rest(e) = <<c>>
          BY <2>1 DEF Rest, c
    <3>2. DOMAIN <<c>> = {1} /\ <<c>>[1] = c
          OBVIOUS
    <3> QED
          BY <3>1, <3>2 DEF TypesAt, Covers
  <2>2. CASE ~(HideEnd < Uint64(End(e)))
    <3>1. Rest(e) = <<>>
          BY <2>2 DEF Rest
    <3>2. TypesAt(<<>>, p) = {}
          BY DEF TypesAt
    <3>3. ~Covers(c, p)
          BY <1>1, <1>3, <2>2, ConstantsAre DEF Covers
    <3> QED
          BY <3>1, <3>2, <3>3
  <2> QED
        BY <2>1, <2>2
<1>6. Split(e) = <<a, b>>
      BY DEF Split, a, b
<1>7. /\ InHidden(p) <=> Covers(b, p)
      /\ InHidden(p) => ~Covers(a, p) /\ ~Covers(c, p)
      /\ ~InHidden(p) => (Covers(e, p) <=> Covers(a, p) \/ Covers(c, p))
      BY <1>1, <1>3, ConstantsAre DEF Covers, InHidden
<1> QED
      BY <1>3, <1>4, <1>5, <1>6, <1>7 DEF e

-----------------------------------------------------------------------------
(***************************************************************************)
(* The inductive invariant of the walk.                                    *)
(***************************************************************************)
TypesInv ==
  \A p \in Nat : TypesAt(newmmap, p) =
                   IF Home < at /\ InHidden(p) THEN {MULTIBOOT_MEMORY_RESERVED}
                   ELSE TypesBefore(at, p)

WalkInv ==
  /\ memmap /\ at \in 1 .. Len(orig) + 1
  /\ Home < at => Whole /\ HomeFree
  /\ Whole => TypesInv
  /\ Sorted(orig) => Len(newmmap) <= at - 1 + (IF Home < at THEN 2 ELSE 0)

HiddenInv == memmap /\ at = Len(orig) + 1 /\ mmap = newmmap /\ Whole /\ TypesInv

MapInv ==
  /\ OrigInv
  /\ newmmap \in Seq(Entries)
  /\ pc \in {"hide", "walk"} => hide_ret = "none"
  /\ pc = "hide" => at = 0
  /\ hide_ret # "TRUE" => mmap = orig
  /\ pc = "walk" => WalkInv
  /\ hide_ret = "TRUE" => HiddenInv
  /\ (hide_ret = "FALSE" /\ at > 0) => memmap /\ ~(Whole /\ HomeFree)
  /\ EntriesFit

LEMMA InitMapInv == MapInit /\ pc = "hide" => MapInv
<1> SUFFICES ASSUME MapInit, pc = "hide" PROVE MapInv
    OBVIOUS
<1>1. OrigInv /\ newmmap \in Seq(Entries) /\ mmap = orig
      BY DEF MapInit, OrigInv
<1>2. EntriesFit
  <2>1. Len(newmmap) = 0 /\ Len(orig) \in Nat
        BY <1>1, OrigIs DEF MapInit
  <2> QED
        BY <2>1 DEF EntriesFit
<1> QED
      BY <1>1, <1>2 DEF MapInit, MapInv

\* A step of the launch that follows leaves all of it alone.
LEMMA MapKept ==
  ASSUME MapInv, UNCHANGED mapVars, pc' = pc \/ pc' \notin {"hide", "walk"}
  PROVE  MapInv'
<1>1. /\ memmap' = memmap /\ mmap' = mmap /\ newmmap' = newmmap /\ at' = at
      /\ hide_ret' = hide_ret /\ orig' = orig
      BY DEF mapVars
<1>2. Home' = Home /\ (Whole' <=> Whole) /\ (HomeFree' <=> HomeFree)
      BY <1>1 DEF Whole, HomeFree, Home
<1>3. TypesInv' <=> TypesInv
      BY <1>1, <1>2 DEF TypesInv, TypesBefore
<1>4. WalkInv' <=> WalkInv
      BY <1>1, <1>2, <1>3 DEF WalkInv
<1>5. HiddenInv' <=> HiddenInv
      BY <1>1, <1>2, <1>3 DEF HiddenInv
<1>6. (OrigInv' <=> OrigInv) /\ (EntriesFit' <=> EntriesFit)
      BY <1>1 DEF OrigInv, EntriesFit
<1> QED
      BY <1>1, <1>2, <1>4, <1>5, <1>6 DEF MapInv

\* The entry a walk splits is the first it meets of the hidden memory; if one
\* entry holds all of it, or the map is sorted, the one with its first byte.
LEMMA SplitsHome ==
  ASSUME MapInv, pc = "walk", at <= Len(orig), ~Untouched(orig[at])
  PROVE  /\ at \in DOMAIN orig /\ Home \in DOMAIN orig /\ ~(Home < at)
         /\ Whole \/ Sorted(orig) => at = Home
<1>1. OrigInv /\ WalkInv /\ memmap
      BY DEF MapInv, WalkInv
<1>2. Len(orig) \in Nat /\ DOMAIN orig = 1 .. Len(orig)
      BY <1>1, OrigIs
<1>3. at \in DOMAIN orig /\ Home \in DOMAIN orig
      BY <1>1, <1>2, HomeIs DEF WalkInv
<1>4. Whole => at = Home
      BY <1>1, <1>3, OthersUntouched
<1>5. ~(Home < at)
  <2> SUFFICES ASSUME Home < at PROVE FALSE
      OBVIOUS
  <2>1. Whole /\ at # Home
        BY <1>1, <1>2, <1>3 DEF WalkInv
  <2> QED
        BY <1>4, <2>1
<1>6. Sorted(orig) => at = Home
      \* an entry touched elsewhere lies above Home, hence after it
  <2> SUFFICES ASSUME Sorted(orig), at # Home PROVE FALSE
      OBVIOUS
  <2>1. at < Home
        BY <1>2, <1>3, <1>5
  <2>2. orig[at].addr <= orig[Home].addr
        BY <1>3, <2>1 DEF Sorted
  <2>3. orig[Home].addr < orig[at].addr
        BY <1>1, <1>3, TouchedAbove
  <2>4. orig[Home].addr \in Nat /\ orig[at].addr \in Nat
        BY <1>1, <1>3, EntryIs
  <2> QED
        BY <2>2, <2>3, <2>4
<1> QED
      BY <1>3, <1>4, <1>5, <1>6

LEMMA NextMapInv ==
  ASSUME MapInv, HideRuntimeMemory
  PROVE  MapInv'
<1>0. /\ orig' = orig /\ memmap' = memmap /\ Home' = Home
      /\ (OrigInv' <=> OrigInv) /\ (Whole' <=> Whole) /\ (HomeFree' <=> HomeFree)
  <2>1. orig' = orig /\ memmap' = memmap
        BY DEF HideRuntimeMemory, HideRefused, HideBegin, CopyEntry, RefuseEntry,
           SplitEntry, HideDone
  <2> QED
        BY <2>1 DEF OrigInv, Whole, HomeFree, Home
<1>1. OrigInv /\ OrigInv' /\ newmmap \in Seq(Entries) /\ EntriesFit
      BY <1>0 DEF MapInv
<1>2. Len(orig) \in Nat /\ DOMAIN orig = 1 .. Len(orig) /\ Len(newmmap) \in Nat
      BY <1>1, OrigIs
<1>3. ASSUME NEW room \in BOOLEAN, HideRefused(room) PROVE MapInv'
  <2>1. EntriesFit'
        BY <1>0, <1>1, <1>3 DEF HideRefused, EntriesFit
  <2> QED
        BY <1>0, <1>1, <1>3, <2>1 DEF HideRefused, HideReturns, MapInv
<1>4. CASE HideBegin
  <2>1. /\ pc' = "walk" /\ newmmap' = <<>> /\ at' = 1 /\ memmap /\ hide_ret' = hide_ret
        /\ mmap' = mmap /\ pc = "hide"
        BY <1>4 DEF HideBegin
  <2>2. Home \in 1 .. Len(orig)
        BY <1>1, <1>2, <2>1, HomeIs
  <2>3. TypesInv'
    <3> SUFFICES ASSUME NEW p \in Nat
                 PROVE  TypesAt(newmmap', p) = TypesBefore(1, p) /\ ~(Home < 1)
        BY <1>0, <2>1 DEF TypesInv, TypesBefore
    <3>1. TypesAt(<<>>, p) = {}
          BY DEF TypesAt
    <3>2. TypesBefore(1, p) = {}
          BY DEF TypesBefore
    <3>3. ~(Home < 1)
          BY <2>2
    <3> QED
          BY <2>1, <3>1, <3>2, <3>3
  <2>4. WalkInv' /\ EntriesFit' /\ newmmap' \in Seq(Entries)
        BY <1>0, <1>2, <2>1, <2>2, <2>3 DEF WalkInv, EntriesFit
  <2> QED
        BY <1>0, <1>1, <2>1, <2>4 DEF MapInv
<1> DEFINE e == orig[at]
<1>5. ASSUME pc = "walk"
      PROVE  /\ WalkInv /\ mmap = orig /\ hide_ret = "none" /\ memmap
             /\ Home \in 1 .. Len(orig) /\ at \in 1 .. Len(orig) + 1
             /\ at <= Len(orig) => at \in DOMAIN orig /\ e \in Entries
      BY <1>1, <1>2, <1>5, HomeIs, EntryIs DEF MapInv, WalkInv
<1>6. CASE CopyEntry
  <2>1. /\ pc = "walk" /\ pc' = "walk" /\ at \in DOMAIN orig /\ at <= Len(orig)
        /\ newmmap' = Append(newmmap, e) /\ at' = at + 1 /\ Untouched(e)
        /\ mmap' = mmap /\ hide_ret' = hide_ret /\ e \in Entries
        BY <1>5, <1>6 DEF CopyEntry
  <2>2. at # Home
        BY <1>1, <1>5, <2>1, HomeIs
  <2> HIDE DEF e
  <2>3. newmmap' = newmmap \o <<e>> /\ newmmap' \in Seq(Entries)
        /\ Len(newmmap') = Len(newmmap) + 1
        BY <1>1, <2>1
  <2>4. (Home < at') <=> (Home < at)
        BY <1>5, <2>1, <2>2
  <2>5. ASSUME Whole PROVE TypesInv'
    <3> SUFFICES ASSUME NEW p \in Nat
                 PROVE  TypesAt(newmmap', p) =
                          IF Home < at /\ InHidden(p) THEN {MULTIBOOT_MEMORY_RESERVED}
                          ELSE TypesBefore(at + 1, p)
        BY <1>0, <2>1, <2>4 DEF TypesInv, TypesBefore
    <3>1. TypesAt(newmmap', p) = TypesAt(newmmap, p) \cup
                                   (IF Covers(e, p) THEN {e.type} ELSE {})
      <4>1. <<e>> \in Seq(Entries)
            BY <2>1
      <4>2. TypesAt(newmmap \o <<e>>, p) = TypesAt(newmmap, p) \cup TypesAt(<<e>>, p)
            BY <1>1, <4>1, TypesOfConcat
      <4>3. TypesAt(<<e>>, p) = IF Covers(e, p) THEN {e.type} ELSE {}
            BY <2>1, TypesOfOne
      <4> QED
            BY <2>3, <4>2, <4>3
    <3>2. TypesAt(newmmap, p) =
            IF Home < at /\ InHidden(p) THEN {MULTIBOOT_MEMORY_RESERVED}
            ELSE TypesBefore(at, p)
          BY <1>5, <2>1, <2>5 DEF WalkInv, TypesInv
    <3>3. TypesBefore(at + 1, p) =
            TypesBefore(at, p) \cup (IF Covers(e, p) THEN {e.type} ELSE {})
          BY <1>5, <2>1, TypesBeforeNext DEF e
    <3>4. InHidden(p) => ~Covers(e, p)
      <4>1. e.addr \in Nat /\ End(e) \in Nat /\ Uint64(End(e)) = End(e)
            BY <1>1, <1>5, <2>1, EntryIs DEF e
      <4> QED
            BY <2>1, <4>1, ConstantsAre DEF InHidden, Covers, Untouched
    <3> QED
          BY <3>1, <3>2, <3>3, <3>4
  <2>6. at' \in 1 .. Len(orig) + 1
        BY <1>2, <1>5, <2>1
  <2>7. Sorted(orig) => Len(newmmap') <= at' - 1 + (IF Home < at' THEN 2 ELSE 0)
        BY <1>2, <1>5, <2>1, <2>3, <2>4 DEF WalkInv
  <2>8. EntriesFit'
        BY <1>0, <1>2, <2>3, <2>6, <2>7 DEF EntriesFit
  <2>9. WalkInv'
        BY <1>0, <1>5, <2>1, <2>4, <2>5, <2>6, <2>7 DEF WalkInv
  <2> QED
        BY <1>0, <1>1, <1>5, <2>1, <2>3, <2>8, <2>9 DEF MapInv
<1>7. CASE RefuseEntry
  <2>1. /\ pc = "walk" /\ pc' = "launch" /\ at \in DOMAIN orig /\ hide_ret' = "FALSE"
        /\ ~Untouched(e) /\ e.type # MULTIBOOT_MEMORY_AVAILABLE
        /\ mmap' = mmap /\ newmmap' = newmmap /\ at' = at
        BY <1>5, <1>7 DEF RefuseEntry, HideReturns
  <2>2. ~(Whole /\ HomeFree)
        BY <1>1, <1>5, <2>1, OthersUntouched DEF HomeFree
  <2>3. EntriesFit'
        BY <1>0, <1>1, <2>1 DEF EntriesFit
  <2> QED
        BY <1>0, <1>1, <1>5, <2>1, <2>2, <2>3 DEF MapInv
<1>8. CASE SplitEntry
  <2>1. /\ pc = "walk" /\ at \in DOMAIN orig /\ at <= Len(orig) /\ ~Untouched(e)
        /\ e.type = MULTIBOOT_MEMORY_AVAILABLE /\ mmap' = mmap
        /\ newmmap' = newmmap \o Split(e) \o Rest(e)
        BY <1>5, <1>8 DEF SplitEntry
  <2>2. /\ Split(e) \in Seq(Entries) /\ Len(Split(e)) = 2
        /\ Rest(e) \in Seq(Entries) /\ Len(Rest(e)) \in 0 .. 1
        /\ HideEnd > Uint64(End(e)) => Rest(e) = <<>>
        BY <1>1, <1>5, <2>1, SplitIs
  <2>3. e.addr \in Nat /\ End(e) \in Nat /\ Uint64(End(e)) = End(e)
        BY <1>1, <1>5, <2>1, EntryIs
  <2> DEFINE two == newmmap \o Split(e)
  <2>4. two \in Seq(Entries) /\ Len(two) = Len(newmmap) + 2
        BY <1>1, <2>2, ConcatIs
  <2>5. newmmap' \in Seq(Entries) /\ Len(newmmap') = Len(newmmap) + 2 + Len(Rest(e))
    <3> HIDE DEF two
    <3>1. two \o Rest(e) \in Seq(Entries) /\ Len(two \o Rest(e)) = Len(two) + Len(Rest(e))
          BY <2>2, <2>4, ConcatIs
    <3>2. newmmap' = two \o Rest(e)
          BY <2>1 DEF two
    <3> QED
          BY <2>4, <3>1, <3>2
  <2>6. ASSUME NEW p
        PROVE  TypesAt(newmmap', p) =
                 TypesAt(newmmap, p) \cup (TypesAt(Split(e), p) \cup TypesAt(Rest(e), p))
    <3>1. TypesAt(two, p) = TypesAt(newmmap, p) \cup TypesAt(Split(e), p)
          BY <1>1, <2>2, TypesOfConcat
    <3> HIDE DEF two
    <3>2. TypesAt(two \o Rest(e), p) = TypesAt(two, p) \cup TypesAt(Rest(e), p)
          BY <2>2, <2>4, TypesOfConcat
    <3>3. newmmap' = two \o Rest(e)
          BY <2>1 DEF two
    <3> QED
          BY <3>1, <3>2, <3>3
  <2> HIDE DEF two
  <2>7. ~(Home < at) /\ (Sorted(orig) => at = Home)
        BY <2>1, SplitsHome
  <2>9. Sorted(orig) => Len(newmmap) <= at - 1
        BY <1>5, <2>1, <2>7 DEF WalkInv
  <2>10. CASE HideEnd > Uint64(End(e))
    <3>1. /\ pc' = "launch" /\ hide_ret' = "FALSE" /\ at' = at
          BY <1>8, <2>1, <2>10, <1>5 DEF SplitEntry, HideReturns
    <3>2. ~Whole \/ ~HomeFree
      <4>1. CASE at = Home
            BY <2>3, <2>10, <4>1, ConstantsAre DEF Whole
      <4>2. CASE at # Home
            BY <1>1, <1>5, <2>1, <4>2, OthersUntouched
      <4> QED
            BY <4>1, <4>2
    <3>3. EntriesFit'
      <4>1. Rest(e) = <<>> /\ Len(Rest(e)) = 0
            BY <2>2, <2>10
      <4> QED
            BY <1>0, <1>2, <2>1, <2>5, <2>9, <4>1, <1>5 DEF EntriesFit
    <3> QED
          BY <1>0, <1>1, <1>5, <2>1, <2>5, <3>1, <3>2, <3>3 DEF MapInv
  <2>11. CASE ~(HideEnd > Uint64(End(e)))
    <3>1. pc' = "walk" /\ hide_ret' = "none" /\ at' = at + 1
          BY <1>8, <2>1, <2>11, <1>5 DEF SplitEntry
    <3>2. at' \in 1 .. Len(orig) + 1
          BY <1>2, <1>5, <2>1, <3>1
    <3>3. Sorted(orig) => at = Home
          BY <2>7
    <3>4. at = Home => Whole /\ HomeFree
          BY <2>1, <2>3, <2>11, ConstantsAre DEF Whole, HomeFree
    <3>5. Home < at' => at = Home
          BY <1>2, <1>5, <2>1, <2>7, <3>1
    <3>6. Sorted(orig) => Len(newmmap') <= at' - 1 + 2
      <4>1. at \in Nat /\ Len(Rest(e)) \in 0 .. 1
            BY <1>2, <2>1, <2>2
      <4> DEFINE r == Len(Rest(e))
                 n == Len(newmmap)
      <4>2. r \in 0 .. 1 /\ n \in Nat /\ Len(newmmap') = n + 2 + r
            BY <1>2, <2>2, <2>5
      <4>3. Sorted(orig) => n <= at - 1
            BY <2>9
      <4> HIDE DEF r, n
      <4> QED
            BY <3>1, <4>1, <4>2, <4>3
    <3>7. ASSUME Whole PROVE TypesInv'
      <4>1. at = Home
            BY <1>1, <1>5, <2>1, <3>7, OthersUntouched
      <4>0. Home < at + 1
            BY <1>5, <2>1, <4>1
      <4> SUFFICES ASSUME NEW p \in Nat
                   PROVE  TypesAt(newmmap', p) =
                            IF InHidden(p) THEN {MULTIBOOT_MEMORY_RESERVED}
                            ELSE TypesBefore(at + 1, p)
          BY <1>0, <3>1, <4>0 DEF TypesInv, TypesBefore
      <4>2. TypesAt(newmmap, p) = TypesBefore(at, p)
            BY <1>5, <2>1, <2>7, <3>7 DEF WalkInv, TypesInv
      <4>3. TypesAt(Split(e), p) \cup TypesAt(Rest(e), p) =
              IF InHidden(p) THEN {MULTIBOOT_MEMORY_RESERVED}
              ELSE IF Covers(e, p) THEN {e.type} ELSE {}
            BY <1>1, <1>5, <2>1, <3>7, <4>1, SplitTypes
      <4>4. TypesBefore(at + 1, p) =
              TypesBefore(at, p) \cup (IF Covers(e, p) THEN {e.type} ELSE {})
        <5>1. at \in Nat \ {0}
              BY <1>2, <2>1
        <5> QED
              BY <5>1, TypesBeforeNext
      <4>5. InHidden(p) => TypesBefore(at, p) = {}
        <5> SUFFICES ASSUME InHidden(p), NEW j \in 1 .. at - 1, Covers(orig[j], p)
                     PROVE  FALSE
            BY DEF TypesBefore
        <5>1. j \in DOMAIN orig /\ j # Home
              BY <1>2, <2>1, <4>1, <1>5
        <5>2. Untouched(orig[j])
              BY <1>1, <1>5, <2>1, <3>7, <5>1, OthersUntouched
        <5>3. orig[j].addr \in Nat /\ End(orig[j]) \in Nat
              /\ Uint64(End(orig[j])) = End(orig[j])
              BY <1>1, <1>5, <2>1, <5>1, EntryIs
        <5> QED
              BY <5>2, <5>3, ConstantsAre DEF InHidden, Covers, Untouched
      <4>6. TypesAt(newmmap', p) =
              TypesAt(newmmap, p) \cup (TypesAt(Split(e), p) \cup TypesAt(Rest(e), p))
            BY <2>6
      <4> HIDE DEF e
      <4> DEFINE s == TypesAt(Split(e), p) \cup TypesAt(Rest(e), p)
                 n == TypesAt(newmmap', p)
                 b == TypesBefore(at, p)
                 c == TypesBefore(at + 1, p)
      <4>7. /\ n = b \cup s /\ c = b \cup (IF Covers(e, p) THEN {e.type} ELSE {})
            /\ s = IF InHidden(p) THEN {MULTIBOOT_MEMORY_RESERVED}
                   ELSE IF Covers(e, p) THEN {e.type} ELSE {}
            /\ InHidden(p) => b = {}
            BY <4>2, <4>3, <4>4, <4>5, <4>6
      <4> HIDE DEF s, n, b, c
      <4>8. n = IF InHidden(p) THEN {MULTIBOOT_MEMORY_RESERVED} ELSE c
            BY <4>7
      <4> QED
            BY <4>8 DEF n, c
    <3>8. WalkInv'
          BY <1>0, <1>5, <2>1, <3>1, <3>2, <3>3, <3>4, <3>5, <3>6, <3>7 DEF WalkInv
    <3>9. EntriesFit'
          BY <1>0, <1>2, <2>5, <3>2, <3>6 DEF EntriesFit
    <3> QED
          BY <1>0, <1>1, <1>5, <2>1, <2>5, <3>1, <3>8, <3>9 DEF MapInv
  <2> QED
        BY <2>10, <2>11
<1>9. CASE HideDone
  <2>1. /\ pc = "walk" /\ pc' = "launch" /\ hide_ret' = "TRUE" /\ mmap' = newmmap
        /\ newmmap' = newmmap /\ at' = at /\ at > Len(orig)
        BY <1>5, <1>9 DEF HideDone, HideReturns
  <2>2. at = Len(orig) + 1 /\ Home < at
        BY <1>2, <1>5, <2>1
  <2>3. Whole /\ TypesInv
        BY <1>5, <2>1, <2>2 DEF WalkInv
  <2>4. TypesInv'
        BY <1>0, <2>1, <2>3 DEF TypesInv, TypesBefore
  <2>5. HiddenInv' /\ EntriesFit'
        BY <1>0, <1>1, <1>5, <2>1, <2>2, <2>3, <2>4 DEF HiddenInv, EntriesFit
  <2> QED
        BY <1>0, <1>1, <2>1, <2>5 DEF MapInv
<1> QED
      BY <1>3, <1>4, <1>6, <1>7, <1>8, <1>9 DEF HideRuntimeMemory

-----------------------------------------------------------------------------
LEMMA MapAlways == HideSpec => []MapInv
<1>1. HideInit => MapInv
      BY InitMapInv DEF HideInit
<1>2. MapInv /\ [HideRuntimeMemory \/ Hidden]_<<pc, mapVars>> => MapInv'
      BY NextMapInv, MapKept DEF Hidden
<1> QED
      BY <1>1, <1>2, PTL DEF HideSpec

LEMMA EntriesBefore ==
  ASSUME OrigInv, NEW p
  PROVE  TypesBefore(Len(orig) + 1, p) = TypesAt(orig, p)
<1>1. Len(orig) \in Nat /\ DOMAIN orig = 1 .. Len(orig)
      BY OrigIs
<1>2. 1 .. (Len(orig) + 1) - 1 = DOMAIN orig
      BY <1>1
<1> QED
      BY <1>2 DEF TypesBefore, TypesAt, Covers

LEMMA CutsAre ==
  ASSUME NEW m \in Seq(Entries)
  PROVE  Cuts(m) \subseteq Nat
<1>1. \A i \in DOMAIN m : m[i] \in Entries
      OBVIOUS
<1>2. \A i \in DOMAIN m : m[i].addr \in Nat /\ End(m[i]) \in Nat
      BY <1>1 DEF Entries, End
<1> QED
      BY <1>2, ConstantsAre DEF Cuts

\* What the invariant says of every byte: the map in mbi is the boot loader's,
\* or gives RESERVED to the hidden memory and to every other byte its old types.
LEMMA MapIsFaithful ==
  ASSUME MapInv
  PROVE  /\ MapWholeOrHidden
         /\ (hide_ret = "TRUE") =>
              \A p \in Nat : TypesAt(mmap, p) =
                 IF InHidden(p) THEN {MULTIBOOT_MEMORY_RESERVED} ELSE TypesAt(orig, p)
<1>1. ASSUME hide_ret = "TRUE", NEW p \in Nat
      PROVE  TypesAt(mmap, p) = IF InHidden(p) THEN {MULTIBOOT_MEMORY_RESERVED}
                                ELSE TypesAt(orig, p)
  <2>1. OrigInv /\ memmap /\ at = Len(orig) + 1 /\ mmap = newmmap /\ TypesInv
        BY <1>1 DEF MapInv, HiddenInv
  <2>2. Home < at
        BY <2>1, OrigIs, HomeIs
  <2>3. TypesBefore(at, p) = TypesAt(orig, p)
        BY <2>1, EntriesBefore
  <2> QED
        BY <2>1, <2>2, <2>3 DEF TypesInv
<1>2. hide_ret = "TRUE" => Cuts(orig) \cup Cuts(mmap) \subseteq Nat
  <2>1. hide_ret = "TRUE" => mmap \in Seq(Entries) /\ orig \in Seq(Entries)
        BY OrigIs DEF MapInv, HiddenInv
  <2> QED
        BY <2>1, CutsAre
<1>3. hide_ret # "TRUE" => mmap = orig
      BY DEF MapInv
<1> QED
      BY <1>1, <1>2, <1>3 DEF MapWholeOrHidden

\* hide_runtime_memory leaves the map of the boot loader, or puts one in its
\* place that gives RESERVED to the hidden memory and changes no other byte:
\* for every map of disjoint entries, in any order.
THEOREM MapIsWholeOrHidden == HideSpec => []MapWholeOrHidden
<1>1. MapInv => MapWholeOrHidden
      BY MapIsFaithful
<1> QED
      BY <1>1, MapAlways, PTL

\* The two entries more for which memory is allocated are enough for every map
\* sorted by address.
THEOREM NewMapFits == HideSpec => []EntriesFit
<1>1. MapInv => EntriesFit
      BY DEF MapInv
<1> QED
      BY <1>1, MapAlways, PTL

\* The walk gives up only where no single AVAILABLE entry holds the memory.
THEOREM HidesInOneEntry == HideSpec => []HidesWhatItCan
<1>1. ASSUME MapInv PROVE HidesWhatItCan
  <2> SUFFICES ASSUME hide_ret = "FALSE", at > 0, NEW i \in DOMAIN orig,
                      orig[i].type = MULTIBOOT_MEMORY_AVAILABLE,
                      orig[i].addr <= HideAddr, HideAddr + HideSize <= End(orig[i])
               PROVE  FALSE
      BY DEF HidesWhatItCan
  <2>1. OrigInv /\ memmap /\ ~(Whole /\ HomeFree)
        BY <1>1 DEF MapInv
  <2>2. Home \in DOMAIN orig /\ orig[Home].addr <= HideAddr /\ HideAddr < End(orig[Home])
        BY <2>1, HomeIs DEF Covers
  <2>3. /\ End(orig[i]) \in Nat /\ orig[i].addr \in Nat
        /\ End(orig[Home]) \in Nat /\ orig[Home].addr \in Nat
        /\ i # Home => Apart(orig[i], orig[Home])
        BY <2>1, <2>2, EntryIs
  <2>4. i = Home
        BY <2>2, <2>3, ConstantsAre DEF Apart
  <2> QED
        BY <2>1, <2>4, ConstantsAre DEF Whole, HomeFree
<1> QED
      BY <1>1, MapAlways, PTL
=============================================================================
