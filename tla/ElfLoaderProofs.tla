--------------------------- MODULE ElfLoaderProofs ---------------------------
(***************************************************************************)
(* Proofs about load_image, for every image the linker makes, every place   *)
(* it is loaded to and every size of the package: what it writes, and what  *)
(* the image is when it returns TRUE.                                      *)
(***************************************************************************)
EXTENDS ElfLoader, WellFoundedInduction, TLAPS

-----------------------------------------------------------------------------
(* Numbers.                                                                *)

LEMMA Fits ==
  ASSUME NEW x \in Nat, NEW w \in Nat, x < w
  PROVE  x % w = x
BY SMT

LEMMA Wraps ==
  ASSUME NEW x \in Int, NEW w \in Nat, x < 0, 0 <= x + w
  PROVE  x % w = x + w
BY SMT

LEMMA SquarePositive ==
  ASSUME NEW w \in Nat, 0 < w
  PROVE  w * w \in Nat /\ 0 < w * w
BY SMT

LEMMA IndexInFile ==
  ASSUME NEW offset \in Nat, NEW base \in Nat, NEW n \in Nat, NEW size \in Nat,
         NEW len \in Nat, NEW p \in Int,
         base <= p, p - base < n, n <= size, offset + size <= len
  PROVE  offset + p - base + 1 \in 1 .. len
OBVIOUS

LEMMA OffsetInside ==
  ASSUME NEW base \in Nat, NEW size \in Nat, NEW o \in Int, NEW w \in Nat,
         base + size < w, 0 <= o, o < size
  PROVE  0 <= base + o /\ base + o <= w - 1
OBVIOUS

LEMMA CommonUnit ==
  ASSUME NEW a \in Nat, NEW n \in Nat, NEW b \in Nat, NEW k \in Nat,
         NEW p \in Int, a <= p, p < a + n, b <= p, p < b + k
  PROVE  ~(a + n <= b) /\ ~(b + k <= a)
OBVIOUS

LEMMA Shifted ==
  ASSUME NEW p \in Int, NEW q \in Int, NEW m \in Int
  PROVE  p + m \in Int /\ p - q \in Int /\ p + m = (q + m) + (p - q)
OBVIOUS

LEMMA MinOfTwo ==
  ASSUME NEW a \in Nat, NEW b \in Nat
  PROVE  /\ Min({a, b}) \in Nat
         /\ Min({a, b}) <= a /\ Min({a, b}) <= b
<1>1. \E x \in {a, b} : \A y \in {a, b} : x =< y
      OBVIOUS
<1> QED
      BY <1>1 DEF Min

LEMMA LeastIs ==
  ASSUME NEW T, T \subseteq Nat, T # {}
  PROVE  Min(T) \in T /\ \A y \in T : Min(T) <= y
<1> DEFINE R == OpToRel(<, Nat)
<1>1. \A x, y \in Nat : y < x => <<y, x>> \in R
      BY DEF OpToRel
<1>2. IsWellFoundedOn(R, Nat)
      BY NatLessThanWellFounded
<1> HIDE DEF R
<1>3. PICK x \in T : \A y \in T : ~(<<y, x>> \in R)
      BY <1>2, WFMin
<1>4. ASSUME NEW y \in T PROVE x =< y
  <2>1. x \in Nat /\ y \in Nat /\ ~(y < x)
        BY <1>1, <1>3
  <2> QED
        BY <2>1
<1>5. \E z \in T : \A y \in T : z =< y
      BY <1>4
<1> QED
      BY <1>5 DEF Min

LEMMA GreatestIs ==
  ASSUME NEW T, T \subseteq Nat, T # {}, NEW b \in Nat, \A y \in T : y <= b
  PROVE  Max(T) \in T /\ \A y \in T : y <= Max(T)
<1> DEFINE below == {b - y : y \in T}
<1>1. below \subseteq Nat /\ below # {}
  <2>1. ASSUME NEW y \in T PROVE b - y \in Nat
        OBVIOUS
  <2>2. PICK y \in T : TRUE
        OBVIOUS
  <2>3. b - y \in below
        OBVIOUS
  <2> QED
        BY <2>1, <2>3
<1>2. Min(below) \in below /\ \A z \in below : Min(below) <= z
  <2> HIDE DEF below
  <2> QED
        BY <1>1, LeastIs
<1>3. PICK x \in T : Min(below) = b - x
      BY <1>2
<1>4. ASSUME NEW y \in T PROVE x >= y
  <2>1. b - x <= b - y
        BY <1>2, <1>3
  <2>2. x \in Nat /\ y \in Nat
        OBVIOUS
  <2> QED
        BY <2>1, <2>2
<1>5. \E z \in T : \A y \in T : z >= y
      BY <1>4
<1>6. /\ Max(T) \in T
      /\ \A y \in T : Max(T) >= y
      BY <1>5 DEF Max
<1>7. ASSUME NEW y \in T PROVE y <= Max(T)
  <2>1. Max(T) \in Nat /\ y \in Nat /\ Max(T) >= y
        BY <1>6
  <2> QED
        BY <2>1
<1> QED
      BY <1>6, <1>7

-----------------------------------------------------------------------------
(* The file.                                                               *)

LEMMA ConstantsAre ==
  /\ Page \in Nat \ {0} /\ Word \in Nat /\ Allocated \in Nat /\ Base \in Nat
  /\ Base < Word /\ 0 < Word
BY ImageAssumption

LEMMA FileIs ==
  ASSUME NEW f \in Images
  PROVE  /\ f.entry \in Nat
         /\ f.data \in Seq(Nat) /\ f.phdrs \in Seq(PhdrType)
         /\ f.rela \in Seq(RelocType) /\ f.rel \in Seq(RelocType)
         /\ PlacesApart(f, f.rela) /\ PlacesApart(f, f.rel)
         /\ \A j \in DOMAIN f.data : f.data[j] < Limit(f)
BY ImageAssumption

LEMMA SegmentIs ==
  ASSUME NEW f \in Images, NEW ph \in Loads(f)
  PROVE  /\ ph \in PhdrType
         /\ ph.offset \in Nat /\ ph.paddr \in Nat
         /\ ph.filesz \in Nat /\ ph.memsz \in Nat /\ 0 < ph.memsz
         /\ FileSize(ph) \in Nat
         /\ FileSize(ph) <= ph.filesz /\ FileSize(ph) <= ph.memsz
         /\ ph.offset + ph.filesz <= Len(f.data) /\ ph.offset <= Allocated
         /\ ph.paddr + ph.memsz < Word
         /\ Base + (ph.paddr - LowAddr(f)) + ph.memsz < Word
         /\ ph.paddr = LowAddr(f) => ph.offset = 0 /\ Len(f.phdrs) < FileSize(ph)
         /\ \A q \in Loads(f) : q = ph \/ ph.paddr + ph.memsz <= q.paddr
                                       \/ q.paddr + q.memsz <= ph.paddr
<1>1. PICK j \in DOMAIN f.phdrs : Loadable(f.phdrs[j]) /\ ph = f.phdrs[j]
      BY DEF Loads
<1>2. ph \in PhdrType /\ ph.memsz # 0
      BY <1>1, FileIs DEF Loadable
<1>3. /\ ph.offset \in Nat /\ ph.paddr \in Nat
      /\ ph.filesz \in Nat /\ ph.memsz \in Nat /\ 0 < ph.memsz
      BY <1>2 DEF PhdrType
<1>4. /\ FileSize(ph) \in Nat
      /\ FileSize(ph) <= ph.filesz /\ FileSize(ph) <= ph.memsz
      BY <1>3, MinOfTwo DEF FileSize
<1>5. /\ ph.offset + ph.filesz <= Len(f.data) /\ ph.offset <= Allocated
      /\ ph.paddr + ph.memsz < Word
      /\ Base + (ph.paddr - LowAddr(f)) + ph.memsz < Word
      /\ ph.paddr = LowAddr(f) => ph.offset = 0 /\ Len(f.phdrs) < FileSize(ph)
      BY ImageAssumption
<1>6. \A q \in Loads(f) \ {ph} : \/ ph.paddr + ph.memsz <= q.paddr
                                 \/ q.paddr + q.memsz <= ph.paddr
      BY ImageAssumption
<1> QED
      BY <1>2, <1>3, <1>4, <1>5, <1>6

LEMMA LoadsHas ==
  ASSUME NEW f, NEW j \in DOMAIN f.phdrs, Loadable(f.phdrs[j])
  PROVE  f.phdrs[j] \in Loads(f)
BY DEF Loads

LEMMA LowIs ==
  ASSUME NEW f \in Images
  PROVE  /\ LowAddr(f) \in Nat
         /\ \A ph \in Loads(f) : LowAddr(f) <= ph.paddr
         /\ Loads(f) = {} => LowAddr(f) = Word - 1
         /\ Loads(f) # {} => \E ph \in Loads(f) : ph.paddr = LowAddr(f)
<1> DEFINE T == {Word - 1} \cup {ph.paddr : ph \in Loads(f)}
<1>1. T \subseteq Nat /\ T # {}
  <2>1. \A ph \in Loads(f) : ph.paddr \in Nat
        BY SegmentIs
  <2>2. Word - 1 \in Nat
        BY ConstantsAre
  <2> QED
        BY <2>1, <2>2
<1>2. LowAddr(f) \in T /\ \A y \in T : LowAddr(f) <= y
  <2>1. LowAddr(f) = Min(T)
        BY DEF LowAddr
  <2> HIDE DEF T
  <2> QED
        BY <1>1, <2>1, LeastIs
<1>3. \A ph \in Loads(f) : LowAddr(f) <= ph.paddr
      BY <1>2
<1>4. ASSUME NEW q \in Loads(f)
      PROVE  \E ph \in Loads(f) : ph.paddr = LowAddr(f)
  <2>1. LowAddr(f) <= q.paddr /\ q.paddr \in Nat /\ q.memsz \in Nat /\ 0 < q.memsz
        /\ q.paddr + q.memsz < Word
        BY <1>3, SegmentIs
  <2>2. LowAddr(f) # Word - 1
        BY <2>1, ConstantsAre
  <2> QED
        BY <1>2, <2>2
<1>5. Loads(f) = {} => LowAddr(f) = Word - 1
      BY <1>2
<1>6. LowAddr(f) \in Nat
      BY <1>1, <1>2
<1> HIDE DEF T
<1> QED
      BY <1>3, <1>4, <1>5, <1>6

LEMMA HighIs ==
  ASSUME NEW f \in Images
  PROVE  /\ MaxAddr(f) \in Nat
         /\ \A ph \in Loads(f) : ph.paddr + ph.memsz <= MaxAddr(f)
<1> DEFINE T == {0} \cup {ph.paddr + ph.memsz : ph \in Loads(f)}
<1>1. T \subseteq Nat /\ T # {} /\ \A y \in T : y <= Word
  <2>1. ASSUME NEW ph \in Loads(f)
        PROVE  ph.paddr + ph.memsz \in Nat /\ ph.paddr + ph.memsz <= Word
    <3>1. ph.paddr \in Nat /\ ph.memsz \in Nat /\ ph.paddr + ph.memsz < Word
          BY SegmentIs
    <3> QED
          BY <3>1, ConstantsAre
  <2> QED
        BY <2>1, ConstantsAre
<1>2. Max(T) \in T /\ \A y \in T : y <= Max(T)
  <2> HIDE DEF T
  <2> QED
        BY <1>1, ConstantsAre, GreatestIs
<1>3. MaxAddr(f) = Max(T)
      BY DEF MaxAddr
<1>4. MaxAddr(f) \in Nat
      BY <1>1, <1>2, <1>3
<1>5. ASSUME NEW ph \in Loads(f) PROVE ph.paddr + ph.memsz <= MaxAddr(f)
      BY <1>2, <1>3
<1> QED
      BY <1>4, <1>5

\* Where a segment is loaded to.
LEMMA DestinationIs ==
  ASSUME NEW f \in Images, NEW ph \in Loads(f)
  PROVE  LET d == ph.paddr + Moved(f)
         IN  /\ d \in Nat /\ Base <= d /\ d + ph.memsz < Word
             /\ d + ph.memsz <= Base + MaxAddr(f) - LowAddr(f)
             /\ Uint32(d) = d /\ Moved(f) \in Int
<1>1. /\ LowAddr(f) \in Nat /\ LowAddr(f) <= ph.paddr /\ ph.paddr \in Nat
      /\ ph.memsz \in Nat /\ MaxAddr(f) \in Nat
      /\ ph.paddr + ph.memsz <= MaxAddr(f)
      /\ Base + (ph.paddr - LowAddr(f)) + ph.memsz < Word
      BY LowIs, HighIs, SegmentIs
<1> DEFINE d == ph.paddr + Moved(f)
<1>2. d = Base + (ph.paddr - LowAddr(f)) /\ Moved(f) \in Int
      BY <1>1, ConstantsAre DEF Moved
<1>3. /\ d \in Nat /\ Base <= d /\ d + ph.memsz < Word
      /\ d + ph.memsz <= Base + MaxAddr(f) - LowAddr(f)
      BY <1>1, <1>2, ConstantsAre
<1> HIDE DEF d
<1>4. d < Word
      BY <1>1, <1>3, ConstantsAre
<1>5. Uint32(d) = d
      BY <1>3, <1>4, Fits, ConstantsAre DEF Uint32
<1> QED
      BY <1>2, <1>3, <1>5 DEF d

-----------------------------------------------------------------------------
(* The units of the image and of memory.                                   *)

LEMMA LimitIs ==
  ASSUME NEW f \in Images
  PROVE  Limit(f) \in Nat /\ 0 < Limit(f)
BY ConstantsAre, SquarePositive DEF Limit

\* A unit of the file needs no cutting.
LEMMA ValueFits ==
  ASSUME img \in Images, NEW x \in Nat, x < Limit(img)
  PROVE  Value(x) = x
<1>1. CASE img.class = "elf32"
      BY <1>1, Fits, ConstantsAre DEF Value, Uint32, Limit
<1>2. CASE img.class # "elf32"
  <2> DEFINE w == Word * Word
  <2>1. w \in Nat /\ x < w
        BY <1>2, ConstantsAre, SquarePositive DEF Limit
  <2>2. Value(x) = x % w
        BY <1>2 DEF Value
  <2> HIDE DEF w
  <2> QED
        BY <2>1, <2>2, Fits
<1> QED
      BY <1>1, <1>2

\* A unit is in one segment.
LEMMA UnitIs ==
  ASSUME NEW f \in Images, NEW ph \in Loads(f), NEW p \in Int, InSegment(ph, p)
  PROVE  /\ SegmentOf(f, p) = ph
         /\ Linked(f, p) \in Nat /\ Linked(f, p) < Limit(f)
         /\ p + Moved(f) \in 0 .. Word - 1
<1>1. /\ ph.offset \in Nat /\ ph.paddr \in Nat /\ ph.memsz \in Nat
      /\ ph.filesz \in Nat /\ FileSize(ph) \in Nat /\ FileSize(ph) <= ph.filesz
      /\ ph.offset + ph.filesz <= Len(f.data)
      BY SegmentIs
<1>2. ASSUME NEW q \in Loads(f), InSegment(q, p) PROVE q = ph
  <2>1. q.paddr \in Nat /\ q.memsz \in Nat
        BY SegmentIs
  <2>2. q = ph \/ ph.paddr + ph.memsz <= q.paddr \/ q.paddr + q.memsz <= ph.paddr
        BY SegmentIs
  <2>3. /\ ph.paddr <= p /\ p < ph.paddr + ph.memsz
        /\ q.paddr <= p /\ p < q.paddr + q.memsz
        BY <1>2 DEF InSegment
  <2> QED
        BY <1>1, <2>1, <2>2, <2>3, CommonUnit
<1>3. SegmentOf(f, p) = ph
      BY <1>2 DEF SegmentOf
<1>4. ASSUME p - ph.paddr < FileSize(ph)
      PROVE  Linked(f, p) \in Nat /\ Linked(f, p) < Limit(f)
  <2> DEFINE k == ph.offset + p - ph.paddr + 1
  <2>1. Linked(f, p) = f.data[k]
        BY <1>3, <1>4 DEF Linked
  <2>2. Len(f.data) \in Nat /\ f.data \in Seq(Nat) /\ DOMAIN f.data = 1 .. Len(f.data)
        BY FileIs
  <2>3. k \in 1 .. Len(f.data)
    <3>1. ph.paddr <= p
          BY DEF InSegment
    <3> QED
          BY <1>1, <1>4, <2>2, <3>1, IndexInFile
  <2> HIDE DEF k
  <2>4. f.data[k] \in Nat
        BY <2>2, <2>3
  <2> QED
        BY <2>1, <2>2, <2>3, <2>4, FileIs
<1>5. ASSUME ~(p - ph.paddr < FileSize(ph))
      PROVE  Linked(f, p) \in Nat /\ Linked(f, p) < Limit(f)
  <2>1. Linked(f, p) = 0
        BY <1>3, <1>5 DEF Linked
  <2> QED
        BY <2>1, LimitIs
<1>6. p + Moved(f) \in 0 .. Word - 1
  <2> DEFINE d == ph.paddr + Moved(f)
             a == p + Moved(f)
             o == p - ph.paddr
  <2>1. d \in Nat /\ d + ph.memsz < Word /\ Moved(f) \in Int
        BY DestinationIs
  <2>2. a \in Int /\ a = d + o /\ o \in Int
    <3>1. ph.paddr \in Int
          BY <1>1
    <3> QED
          BY <2>1, <3>1, Shifted
  <2>3. 0 <= o /\ o < ph.memsz
        BY <1>1 DEF InSegment
  <2> HIDE DEF a, d, o
  <2>4. 0 <= a /\ a <= Word - 1
        BY <1>1, <2>1, <2>2, <2>3, ConstantsAre, OffsetInside
  <2> QED
        BY <2>2, <2>4, ConstantsAre DEF a
<1> QED
      BY <1>3, <1>4, <1>5, <1>6

\* The test for membership in a stretch of memory, by an unsigned difference.
LEMMA StretchIs ==
  ASSUME NEW dest \in Nat, NEW n \in Nat, dest + n <= Word,
         NEW a \in 0 .. Word - 1
  PROVE  /\ (Uint32(a - dest) < n) <=> (dest <= a /\ a < dest + n)
         /\ dest <= a => Uint32(a - dest) = a - dest
<1>1. CASE dest <= a
  <2>1. a - dest \in Nat /\ a - dest < Word
        BY <1>1, ConstantsAre
  <2>2. Uint32(a - dest) = a - dest
        BY <2>1, Fits, ConstantsAre DEF Uint32
  <2> QED
        BY <1>1, <2>2, ConstantsAre
<1>2. CASE a < dest
  <2>1. a - dest \in Int /\ a - dest < 0 /\ 0 <= (a - dest) + Word
        BY <1>2, ConstantsAre
  <2>2. Uint32(a - dest) = (a - dest) + Word
        BY <2>1, Wraps, ConstantsAre DEF Uint32
  <2> QED
        BY <1>2, <2>2, ConstantsAre
<1> QED
      BY <1>1, <1>2, ConstantsAre

LEMMA CopiedIs ==
  ASSUME NEW m, DOMAIN m = 0 .. Word - 1, NEW offset \in Nat,
         NEW dest \in Nat, NEW n \in Nat, dest + n <= Word
  PROVE  /\ DOMAIN Copied(m, dest, offset, n) = 0 .. Word - 1
         /\ \A a \in 0 .. Word - 1 :
              Copied(m, dest, offset, n)[a] =
                IF dest <= a /\ a < dest + n
                THEN img.data[offset + (a - dest) + 1] ELSE m[a]
<1>1. DOMAIN Copied(m, dest, offset, n) = 0 .. Word - 1
      BY DEF Copied
<1>2. ASSUME NEW a \in 0 .. Word - 1
      PROVE  Copied(m, dest, offset, n)[a] =
               IF dest <= a /\ a < dest + n
               THEN img.data[offset + (a - dest) + 1] ELSE m[a]
  <2>1. Copied(m, dest, offset, n)[a] =
          IF Uint32(a - dest) < n
          THEN img.data[offset + Uint32(a - dest) + 1] ELSE m[a]
        BY DEF Copied
  <2> QED
        BY <2>1, StretchIs
<1> QED
      BY <1>1, <1>2

LEMMA ZeroedIs ==
  ASSUME NEW m, DOMAIN m = 0 .. Word - 1,
         NEW dest \in Nat, NEW n \in Nat, dest + n <= Word
  PROVE  /\ DOMAIN Zeroed(m, dest, n) = 0 .. Word - 1
         /\ \A a \in 0 .. Word - 1 :
              Zeroed(m, dest, n)[a] =
                IF dest <= a /\ a < dest + n THEN 0 ELSE m[a]
<1>1. DOMAIN Zeroed(m, dest, n) = 0 .. Word - 1
      BY DEF Zeroed
<1>2. ASSUME NEW a \in 0 .. Word - 1
      PROVE  Zeroed(m, dest, n)[a] =
               IF dest <= a /\ a < dest + n THEN 0 ELSE m[a]
  <2>1. Zeroed(m, dest, n)[a] = IF Uint32(a - dest) < n THEN 0 ELSE m[a]
        BY DEF Zeroed
  <2> QED
        BY <2>1, StretchIs
<1> QED
      BY <1>1, <1>2

\* No more is read than the segment has room for, also when the file ends early.
LEMMA ReadableIs ==
  ASSUME NEW offset \in Nat, offset <= Allocated, NEW n \in Nat, n < Word
  PROVE  Readable(offset, n) \in Nat /\ Readable(offset, n) <= n
<1>1. CASE Uint32(offset + n) > Allocated
  <2>1. Uint32(offset + n) <= offset + n
    <3>1. ASSUME NEW x \in Nat, NEW w \in Nat, 0 < w PROVE x % w <= x
          BY <3>1
    <3> QED
          BY <3>1, ConstantsAre DEF Uint32
  <2>2. Uint32(offset + n) \in Nat
        BY ConstantsAre DEF Uint32
  <2>3. Allocated - offset \in Nat /\ Allocated - offset < n
        BY <1>1, <2>1, <2>2, ConstantsAre
  <2>4. Uint32(Allocated - offset) = Allocated - offset
        BY <2>3, Fits, ConstantsAre DEF Uint32
  <2> QED
        BY <1>1, <2>3, <2>4 DEF Readable
<1> QED
      BY <1>1 DEF Readable

-----------------------------------------------------------------------------
(* The inductive invariant.                                                *)

FrameInv ==
  /\ img \in Images /\ i \in Nat \ {0} /\ DOMAIN mem = 0 .. Word - 1
  /\ pc \in {"get_image_info", "load_image", "load_executable", "segments",
             "relocation", "relocate", "TRUE", "FALSE"}

\* The image has segments and info says where they go.
Placed ==
  /\ Loads(img) # {}
  /\ info.start = Base /\ info.offset = Moved(img)
  /\ info.entry = img.entry + Moved(img)

StageInv ==
  /\ pc \in {"get_image_info", "load_image", "load_executable"} => i = 1
  /\ pc = "load_executable" =>
       /\ Loads(img) # {}
       /\ info.start = LowAddr(img) /\ info.entry = img.entry
  /\ pc \in {"segments", "relocation", "relocate"} => Placed
  /\ pc \in {"relocation", "relocate"} => phdr_dyn # 0
  /\ pc = "relocate" => table \in {"RELA", "REL"}

\* The linked addresses of the image.
Units(f) == {p \in Nat : \E ph \in Loads(f) : InSegment(ph, p)}

At(p) == mem[p + Moved(img)]

\* What the relocation r makes of its place.
Target(r) ==
  Value((IF table = "RELA" THEN r.addend ELSE Linked(img, r.offset))
          + Moved(img) + Symbol(r))

\* The first k - 1 relocations are done and leave the other places alone.
RelocatedBefore(k) ==
  /\ \A j \in DOMAIN Relocs : j < k /\ Relocs[j].kind # "NONE" =>
       At(Relocs[j].offset) = Target(Relocs[j])
  /\ \A p \in Units(img) :
       \/ At(p) = Value(Unpatched(img, p))
       \/ \E j \in DOMAIN Relocs :
            j < k /\ Relocs[j].kind # "NONE" /\ Relocs[j].offset = p

ContentInv ==
  /\ pc = "segments" =>
       \A j \in DOMAIN img.phdrs : j < i /\ Loadable(img.phdrs[j]) =>
         \A p \in Nat : InSegment(img.phdrs[j], p) => At(p) = Linked(img, p)
  /\ pc = "relocation" =>
       \A p \in Units(img) : At(p) = Value(Unpatched(img, p))
  /\ pc = "relocate" => RelocatedBefore(i)

ElfInv ==
  FrameInv /\ StageInv /\ ContentInv /\ ImageLoaded /\ WritesInLoadSize

LEMMA InitElfInv == ElfInit => ElfInv
<1> SUFFICES ASSUME ElfInit PROVE ElfInv
    OBVIOUS
<1>1. FrameInv /\ StageInv /\ ContentInv /\ ImageLoaded
      BY DEF ElfInit, FrameInv, StageInv, ContentInv, ImageLoaded
<1>2. WritesInLoadSize
      BY DEF ElfInit, WritesInLoadSize
<1> QED
      BY <1>1, <1>2 DEF ElfInv

\* A unit of the image is loaded inside load_size.
LEMMA UnitPlaced ==
  ASSUME NEW f \in Images, NEW p \in Units(f)
  PROVE  /\ p \in Nat /\ Moved(f) \in Int /\ p + Moved(f) \in 0 .. Word - 1
         /\ Base <= p + Moved(f)
         /\ p + Moved(f) < Base + MaxAddr(f) - LowAddr(f)
<1>1. PICK ph \in Loads(f) : p \in Nat /\ InSegment(ph, p)
      BY DEF Units
<1>2. p + Moved(f) \in 0 .. Word - 1
      BY <1>1, UnitIs
<1>3. /\ ph.paddr \in Nat /\ ph.memsz \in Nat /\ LowAddr(f) \in Nat
      /\ MaxAddr(f) \in Nat
      BY SegmentIs, LowIs, HighIs
<1> DEFINE d == ph.paddr + Moved(f)
           a == p + Moved(f)
<1>4. /\ d \in Nat /\ Base <= d /\ Moved(f) \in Int
      /\ d + ph.memsz <= Base + MaxAddr(f) - LowAddr(f)
      BY DestinationIs
<1>5. a \in Int /\ a = d + (p - ph.paddr)
      BY <1>1, <1>3, <1>4
<1>6. 0 <= p - ph.paddr /\ p - ph.paddr < ph.memsz
      BY <1>1, <1>3 DEF InSegment
<1> HIDE DEF a, d
<1>7. Base <= a /\ a < Base + MaxAddr(f) - LowAddr(f)
      BY <1>1, <1>3, <1>4, <1>5, <1>6, ConstantsAre
<1> QED
      BY <1>1, <1>2, <1>4, <1>7 DEF a

\* The steps that leave memory alone keep what was written.
LEMMA QuietWrites ==
  ASSUME WritesInLoadSize, img' = img, mem' = mem
  PROVE  WritesInLoadSize'
BY DEF WritesInLoadSize

LEMMA StartSteps ==
  ASSUME ElfInv, GetImageInfo \/ LoadElfImage \/ ElfLoadExecutable
  PROVE  ElfInv'
<1>1. FrameInv /\ StageInv /\ WritesInLoadSize
      BY DEF ElfInv
<1>2. FrameInv' /\ img' = img /\ mem' = mem /\ i' = i
      BY <1>1 DEF FrameInv, GetImageInfo, LoadElfImage, ElfLoadExecutable, Fail
<1>3. WritesInLoadSize'
      BY <1>1, <1>2, QuietWrites
<1>4. img \in Images
      BY <1>1 DEF FrameInv
<1>5. ElfGetLoadInfo(img) => Loads(img) # {}
  <2>1. (Word - 1) % Page # 0
        BY ImageAssumption
  <2> QED
        BY <1>4, <2>1, LowIs DEF ElfGetLoadInfo, GetLoadInfo
<1>6. CASE GetImageInfo
  <2>1. pc' \in {"load_image", "FALSE"} /\ i = 1
        BY <1>1, <1>6 DEF GetImageInfo, Fail, StageInv
  <2> QED
        BY <1>2, <1>3, <2>1 DEF ElfInv, StageInv, ContentInv, ImageLoaded
<1>7. CASE LoadElfImage
  <2>1. pc' \in {"load_executable", "FALSE"} /\ i = 1
        BY <1>1, <1>7 DEF LoadElfImage, Fail, StageInv
  <2>2. pc' = "load_executable" =>
          /\ Loads(img) # {}
          /\ info'.start = LowAddr(img) /\ info'.entry = img.entry
        BY <1>5, <1>7 DEF LoadElfImage, Fail
  <2> QED
        BY <1>2, <1>3, <2>1, <2>2 DEF ElfInv, StageInv, ContentInv, ImageLoaded
<1>8. CASE ElfLoadExecutable
  <2>1. /\ i = 1 /\ Loads(img) # {} /\ pc' = "segments"
        /\ info.start = LowAddr(img) /\ info.entry = img.entry
        BY <1>1, <1>8 DEF ElfLoadExecutable, StageInv
  <2>2. /\ info'.start = info.start + (Base - info.start)
        /\ info'.entry = info.entry + (Base - info.start)
        /\ info'.offset = Base - info.start
        BY <1>8 DEF ElfLoadExecutable
  <2>3. LowAddr(img) \in Nat /\ Base \in Nat
        BY <1>4, LowIs, ConstantsAre
  <2>4. Placed'
        BY <1>2, <2>1, <2>2, <2>3 DEF Placed, Moved
  <2>5. StageInv'
        BY <1>2, <2>1, <2>4 DEF StageInv
  <2>6. ContentInv'
    <3>1. ASSUME NEW j \in DOMAIN img.phdrs PROVE ~(j < i)
          BY <1>4, <2>1, FileIs
    <3> QED
          BY <1>2, <2>1, <3>1 DEF ContentInv
  <2> QED
        BY <1>2, <1>3, <2>1, <2>5, <2>6 DEF ElfInv, ImageLoaded
<1> QED
      BY <1>6, <1>7, <1>8

LEMMA SkipStep ==
  ASSUME ElfInv, SkipSegment
  PROVE  ElfInv'
<1>1. FrameInv /\ StageInv /\ ContentInv /\ WritesInLoadSize
      BY DEF ElfInv
<1>2. /\ img' = img /\ mem' = mem /\ info' = info /\ pc = "segments" /\ pc' = pc
      /\ i' = i + 1 /\ ~Loadable(img.phdrs[i])
      BY DEF SkipSegment
<1>3. FrameInv'
      BY <1>1, <1>2 DEF FrameInv
<1>4. StageInv'
      BY <1>1, <1>2 DEF StageInv, Placed
<1>5. ContentInv'
  <2>1. ASSUME NEW j \in DOMAIN img.phdrs, j < i + 1, Loadable(img.phdrs[j])
        PROVE  j < i
    <3>1. j \in Nat /\ i \in Nat /\ j # i
          BY <1>1, <1>2, <2>1, FileIs DEF FrameInv
    <3> QED
          BY <2>1, <3>1
  <2> QED
        BY <1>1, <1>2, <2>1 DEF ContentInv, At
<1>6. WritesInLoadSize'
      BY <1>1, <1>2, QuietWrites
<1> QED
      BY <1>2, <1>3, <1>4, <1>5, <1>6 DEF ElfInv, ImageLoaded

\* What the load of a segment does to memory, whether the file is long enough
\* or not.
LEMMA SegmentCopied ==
  ASSUME FrameInv, Placed, LoadSegment
  PROVE  LET ph == img.phdrs[i]
             d  == ph.paddr + Moved(img)
         IN  /\ DOMAIN mem' = 0 .. Word - 1
             /\ \A a \in 0 .. Word - 1 :
                  ~(d <= a /\ a < d + ph.memsz) => mem'[a] = mem[a]
             /\ pc' = pc =>
                  \A p \in Nat : InSegment(ph, p) =>
                    mem'[p + Moved(img)] = Linked(img, p)
<1> DEFINE ph == img.phdrs[i]
           d  == ph.paddr + Moved(img)
           n  == Readable(ph.offset, FileSize(ph))
           m  == Copied(mem, d, ph.offset, n)
<1>1. /\ img \in Images /\ ph \in Loads(img) /\ DOMAIN mem = 0 .. Word - 1
  <2>1. i \in DOMAIN img.phdrs
        BY FileIs DEF FrameInv, LoadSegment
  <2> QED
        BY <2>1, LoadsHas DEF FrameInv, LoadSegment
<1>2. info.offset = Moved(img)
      BY DEF Placed
<1>3. d \in Nat /\ d + ph.memsz < Word /\ Uint32(d) = d /\ Moved(img) \in Int
      BY <1>1, DestinationIs
<1>4. /\ ph.offset \in Nat /\ ph.offset <= Allocated /\ ph.memsz \in Nat
      /\ ph.paddr \in Nat /\ ph.paddr + ph.memsz < Word
      /\ FileSize(ph) \in Nat /\ FileSize(ph) <= ph.memsz
      BY <1>1, SegmentIs
<1>5. n \in Nat /\ n <= FileSize(ph)
  <2>1. FileSize(ph) < Word
        BY <1>4, ConstantsAre
  <2> QED
        BY <1>4, <2>1, ReadableIs
<1>6. \/ n # FileSize(ph) /\ pc' = "FALSE" /\ mem' = m
      \/ /\ n = FileSize(ph) /\ pc' = pc
         /\ mem' = Zeroed(m, Uint32(d + n), ph.memsz - n)
      BY <1>2, <1>3 DEF LoadSegment, Fail
<1>7. pc = "segments"
      BY DEF LoadSegment
<1> HIDE DEF ph, d, n
<1>8. d + n \in Nat /\ d + n <= Word /\ d + n < Word
      BY <1>3, <1>4, <1>5, ConstantsAre
<1>9. /\ DOMAIN m = 0 .. Word - 1
      /\ \A a \in 0 .. Word - 1 :
           m[a] = IF d <= a /\ a < d + n
                  THEN img.data[ph.offset + (a - d) + 1] ELSE mem[a]
  <2>1. d \in Nat /\ n \in Nat /\ ph.offset \in Nat /\ d + n <= Word
        BY <1>3, <1>4, <1>5, <1>8
  <2> QED
        BY <1>1, <2>1, CopiedIs, ZenonT(40)
<1> HIDE DEF m
<1>10. CASE n # FileSize(ph) /\ pc' = "FALSE" /\ mem' = m
  <2>1. ASSUME NEW a \in 0 .. Word - 1, ~(d <= a /\ a < d + ph.memsz)
        PROVE  ~(d <= a /\ a < d + n)
        BY <1>3, <1>4, <1>5, <2>1, ConstantsAre
  <2> QED
        BY <1>7, <1>9, <1>10, <2>1 DEF ph, d
<1>11. CASE /\ n = FileSize(ph) /\ pc' = pc
            /\ mem' = Zeroed(m, Uint32(d + n), ph.memsz - n)
  <2> DEFINE e == d + n
             r == ph.memsz - n
  <2>1. Uint32(e) = e
        BY <1>8, Fits, ConstantsAre DEF Uint32
  <2>2. e \in Nat /\ r \in Nat /\ e + r = d + ph.memsz /\ e + r <= Word
        BY <1>3, <1>4, <1>5, <1>8, ConstantsAre
  <2>3. mem' = Zeroed(m, e, r)
        BY <1>11, <2>1
  <2> HIDE DEF e, r
  <2>4. /\ DOMAIN mem' = 0 .. Word - 1
        /\ \A a \in 0 .. Word - 1 :
             mem'[a] = IF e <= a /\ a < e + r THEN 0 ELSE m[a]
        BY <1>9, <2>2, <2>3, ZeroedIs
  <2>5. ASSUME NEW a \in 0 .. Word - 1, ~(d <= a /\ a < d + ph.memsz)
        PROVE  mem'[a] = mem[a]
    <3>1. ~(d <= a /\ a < d + n)
          BY <1>3, <1>4, <1>5, <2>5, ConstantsAre
    <3>2. ~(e <= a /\ a < e + r)
      <4>1. d <= e
            BY <1>3, <1>5 DEF e
      <4> QED
            BY <1>3, <2>2, <2>5, <4>1, ConstantsAre
    <3> QED
          BY <1>9, <2>4, <3>1, <3>2
  <2>6. ASSUME NEW p \in Nat, InSegment(ph, p)
        PROVE  mem'[p + Moved(img)] = Linked(img, p)
    <3> DEFINE a == p + Moved(img)
    <3>1. a \in 0 .. Word - 1 /\ SegmentOf(img, p) = ph
          BY <1>1, <2>6, UnitIs
    <3>2. a = d + (p - ph.paddr)
          BY <1>3, <1>4 DEF d
    <3>3. 0 <= p - ph.paddr /\ p - ph.paddr < ph.memsz
          BY <1>4, <2>6 DEF InSegment
    <3> HIDE DEF a
    <3>4. CASE p - ph.paddr < n
      <4>1. d <= a /\ a < d + n /\ ~(e <= a)
            BY <1>3, <1>4, <1>5, <3>1, <3>2, <3>3, <3>4 DEF e
      <4>2. mem'[a] = img.data[ph.offset + (a - d) + 1]
            BY <1>9, <2>4, <3>1, <4>1
      <4>3. ph.offset + (a - d) + 1 = ph.offset + p - ph.paddr + 1
            BY <1>3, <1>4, <3>2
      <4>4. Linked(img, p) = img.data[ph.offset + p - ph.paddr + 1]
            BY <1>11, <3>1, <3>4 DEF Linked
      <4> QED
            BY <4>2, <4>3, <4>4 DEF a
    <3>5. CASE ~(p - ph.paddr < n)
      <4>1. e <= a /\ a < e + r
            BY <1>3, <1>4, <1>5, <2>2, <3>1, <3>2, <3>3, <3>5 DEF e
      <4>2. mem'[a] = 0
            BY <2>4, <3>1, <4>1
      <4>3. Linked(img, p) = 0
            BY <1>11, <3>1, <3>5 DEF Linked
      <4> QED
            BY <4>2, <4>3 DEF a
    <3> QED
          BY <3>4, <3>5
  <2> QED
        BY <2>4, <2>5, <2>6 DEF ph, d
<1> QED
      BY <1>6, <1>10, <1>11

LEMMA LoadStep ==
  ASSUME ElfInv, LoadSegment
  PROVE  ElfInv'
<1> DEFINE ph == img.phdrs[i]
           d  == ph.paddr + Moved(img)
<1>1. FrameInv /\ StageInv /\ ContentInv /\ WritesInLoadSize
      BY DEF ElfInv
<1>2. /\ img' = img /\ info' = info /\ pc = "segments" /\ Loadable(ph)
      /\ \/ pc' = "FALSE" /\ i' = i
         \/ pc' = pc /\ i' = i + 1
      BY DEF LoadSegment, Fail
<1>3. img \in Images /\ i \in Nat \ {0} /\ DOMAIN mem = 0 .. Word - 1 /\ Placed
      BY <1>1, <1>2 DEF FrameInv, StageInv
<1>4. i \in DOMAIN img.phdrs
      BY <1>3, FileIs DEF LoadSegment
<1>5. ph \in Loads(img)
      BY <1>2, <1>4, LoadsHas
<1>6. /\ DOMAIN mem' = 0 .. Word - 1
      /\ \A a \in 0 .. Word - 1 :
           ~(d <= a /\ a < d + ph.memsz) => mem'[a] = mem[a]
      /\ pc' = pc => \A p \in Nat : InSegment(ph, p) =>
                       mem'[p + Moved(img)] = Linked(img, p)
      BY <1>1, <1>3, SegmentCopied
<1>7. /\ d \in Nat /\ Base <= d /\ Moved(img) \in Int
      /\ d + ph.memsz <= Base + MaxAddr(img) - LowAddr(img)
      BY <1>3, <1>5, DestinationIs
<1>8. ph.memsz \in Nat /\ ph.paddr \in Nat
      BY <1>3, <1>5, SegmentIs
<1>9. FrameInv'
      BY <1>1, <1>2, <1>3, <1>6 DEF FrameInv
<1>10. StageInv'
      BY <1>1, <1>2 DEF StageInv, Placed
<1>11. ContentInv'
  <2> SUFFICES ASSUME pc' = pc, i' = i + 1,
                      NEW j \in DOMAIN img.phdrs, j < i + 1,
                      Loadable(img.phdrs[j]),
                      NEW p \in Nat, InSegment(img.phdrs[j], p)
               PROVE  mem'[p + Moved(img)] = Linked(img, p)
      BY <1>2 DEF ContentInv, At
  <2>1. CASE img.phdrs[j] = ph
        BY <1>6, <2>1
  <2>2. CASE img.phdrs[j] # ph
    <3> DEFINE q == img.phdrs[j]
               a == p + Moved(img)
    <3>1. j < i
      <4>1. j \in Nat /\ i \in Nat /\ j # i
            BY <1>3, <2>2, FileIs
      <4> QED
            BY <4>1
    <3>2. mem[p + Moved(img)] = Linked(img, p)
          BY <1>1, <1>2, <3>1 DEF ContentInv, At
    <3>3. q \in Loads(img)
          BY LoadsHas
    <3>4. /\ q.paddr \in Nat /\ q.memsz \in Nat
          /\ ph.paddr + ph.memsz <= q.paddr \/ q.paddr + q.memsz <= ph.paddr
          BY <1>3, <1>5, <2>2, <3>3, SegmentIs
    <3>5. a \in 0 .. Word - 1
          BY <1>3, <3>3, UnitIs
    <3>6. q.paddr <= p /\ p < q.paddr + q.memsz
          BY DEF InSegment
    <3>7. ~(ph.paddr <= p /\ p < ph.paddr + ph.memsz)
      <4> HIDE DEF q
      <4> QED
          BY <1>8, <3>4, <3>6
    <3>8. ~(d <= a /\ a < d + ph.memsz)
          BY <1>7, <1>8, <3>7
    <3> HIDE DEF d
    <3> QED
          BY <1>6, <3>2, <3>5, <3>8
  <2> QED
        BY <2>1, <2>2
<1>12. WritesInLoadSize'
  <2> SUFFICES ASSUME NEW a \in 0 .. Word - 1, mem'[a] # Old
               PROVE  Base <= a /\ a < Base + MaxAddr(img) - LowAddr(img)
      BY <1>2, <1>6 DEF WritesInLoadSize
  <2> HIDE DEF d, ph
  <2>1. CASE d <= a /\ a < d + ph.memsz
    <3>1. MaxAddr(img) \in Nat /\ LowAddr(img) \in Nat
          BY <1>3, LowIs, HighIs
    <3> QED
          BY <1>7, <1>8, <2>1, <3>1, ConstantsAre
  <2>2. CASE ~(d <= a /\ a < d + ph.memsz)
    <3>1. mem[a] # Old
          BY <1>6, <2>2
    <3> QED
          BY <1>1, <1>3, <3>1 DEF WritesInLoadSize
  <2> QED
        BY <2>1, <2>2
<1> QED
      BY <1>2, <1>9, <1>10, <1>11, <1>12 DEF ElfInv, ImageLoaded

\* A program header, as a unit of the image.
LEMMA HeaderIs ==
  ASSUME NEW f \in Images, Loads(f) # {}, NEW j \in DOMAIN f.phdrs
  PROVE  /\ j \in Nat /\ LowAddr(f) + j \in Units(f)
         /\ Uint32(Base + j) = Base + j
<1>1. PICK ph \in Loads(f) : ph.paddr = LowAddr(f)
      BY LowIs
<1>2. /\ ph.paddr \in Nat /\ ph.memsz \in Nat /\ FileSize(ph) \in Nat
      /\ FileSize(ph) <= ph.memsz /\ Len(f.phdrs) < FileSize(ph)
      /\ Base + (ph.paddr - LowAddr(f)) + ph.memsz < Word
      BY <1>1, SegmentIs
<1>3. j \in Nat /\ Len(f.phdrs) \in Nat /\ j <= Len(f.phdrs)
      BY FileIs
<1>4. j < ph.memsz
      BY <1>2, <1>3
<1>5. LowAddr(f) + j \in Nat /\ InSegment(ph, LowAddr(f) + j)
      BY <1>1, <1>2, <1>3, <1>4 DEF InSegment
<1>6. LowAddr(f) + j \in Units(f)
      BY <1>5 DEF Units
<1>7. Base + j \in Nat /\ Base + j < Word
      BY <1>1, <1>2, <1>3, <1>4, ConstantsAre
<1>8. Uint32(Base + j) = Base + j
      BY <1>7, Fits, ConstantsAre DEF Uint32
<1> QED
      BY <1>3, <1>6, <1>8

LEMMA HeaderStep ==
  ASSUME ElfInv, UpdateHeaders
  PROVE  ElfInv'
<1> DEFINE Moves(a) == \E j \in DOMAIN img.phdrs :
                         a = Uint32(info.start + j) /\ img.phdrs[j].memsz # 0
<1>1. FrameInv /\ StageInv /\ ContentInv /\ WritesInLoadSize
      BY DEF ElfInv
<1>2. /\ img' = img /\ info' = info /\ i' = i /\ phdr_dyn' = phdr_dyn
      /\ table' = table /\ pc = "segments" /\ i > Len(img.phdrs)
      /\ pc' = IF phdr_dyn = 0 THEN "TRUE" ELSE "relocation"
      /\ entry' = IF phdr_dyn = 0 THEN info.entry ELSE entry
      BY DEF UpdateHeaders
<1>3. img \in Images /\ i \in Nat \ {0} /\ DOMAIN mem = 0 .. Word - 1 /\ Placed
      BY <1>1, <1>2 DEF FrameInv, StageInv
<1>4. /\ DOMAIN mem' = 0 .. Word - 1
      /\ \A a \in 0 .. Word - 1 :
           mem'[a] = IF Moves(a) THEN Value(mem[a] + info.offset) ELSE mem[a]
      BY <1>3 DEF UpdateHeaders
<1>5. ASSUME NEW j \in DOMAIN img.phdrs
      PROVE  Uint32(info.start + j) = (LowAddr(img) + j) + Moved(img)
  <2>1. Uint32(info.start + j) = Base + j /\ j \in Nat
        BY <1>3, HeaderIs DEF Placed
  <2> QED
        BY <1>3, <2>1, LowIs, ConstantsAre DEF Moved
<1>6. ASSUME NEW p \in Units(img)
      PROVE  Moves(p + Moved(img)) <=> IsHeader(img, p)
  <2>1. p \in Nat /\ Moved(img) \in Int /\ LowAddr(img) \in Nat
        BY <1>3, UnitPlaced, LowIs
  <2>2. ASSUME NEW j \in DOMAIN img.phdrs
        PROVE  (p + Moved(img) = Uint32(info.start + j)) <=> (p = LowAddr(img) + j)
    <3>1. j \in Nat
          BY <1>3, FileIs
    <3> QED
          BY <1>5, <2>1, <3>1
  <2> QED
        BY <2>2 DEF IsHeader
<1>7. ASSUME NEW p \in Units(img)
      PROVE  mem'[p + Moved(img)] = Value(Unpatched(img, p))
  <2>1. PICK ph \in Loads(img) : p \in Nat /\ InSegment(ph, p)
        BY DEF Units
  <2>2. mem[p + Moved(img)] = Linked(img, p)
    <3>1. PICK j \in DOMAIN img.phdrs : Loadable(img.phdrs[j]) /\ ph = img.phdrs[j]
          BY DEF Loads
    <3>2. j < i
      <4>1. j \in Nat /\ j <= Len(img.phdrs) /\ Len(img.phdrs) \in Nat
            BY <1>3, FileIs
      <4> QED
            BY <1>2, <1>3, <4>1
    <3> QED
          BY <1>1, <1>2, <2>1, <3>1, <3>2 DEF ContentInv, At
  <2>3. /\ Linked(img, p) \in Nat /\ Linked(img, p) < Limit(img)
        /\ p + Moved(img) \in 0 .. Word - 1
        BY <1>3, <2>1, UnitIs
  <2>4. CASE IsHeader(img, p)
    <3>1. mem'[p + Moved(img)] = Value(Linked(img, p) + Moved(img))
      <4>1. info.offset = Moved(img) /\ Moves(p + Moved(img))
            BY <1>3, <1>6, <2>4 DEF Placed
      <4> HIDE DEF Moves
      <4> QED
            BY <1>4, <2>2, <2>3, <4>1
    <3> QED
          BY <2>4, <3>1 DEF Unpatched
  <2>5. CASE ~IsHeader(img, p)
    <3>1. mem'[p + Moved(img)] = Linked(img, p)
      <4>1. ~Moves(p + Moved(img))
            BY <1>6, <2>5
      <4> HIDE DEF Moves
      <4> QED
            BY <1>4, <2>2, <2>3, <4>1
    <3>2. Unpatched(img, p) = Linked(img, p)
          BY <2>3, <2>5 DEF Unpatched
    <3> QED
          BY <1>3, <2>3, <3>1, <3>2, ValueFits
  <2> QED
        BY <2>4, <2>5
<1>8. FrameInv'
      BY <1>1, <1>2, <1>3, <1>4 DEF FrameInv
<1>9. StageInv'
      BY <1>1, <1>2, <1>3 DEF StageInv, Placed
<1>10. ContentInv'
  <2>1. ASSUME NEW p \in Units(img) PROVE (At(p) = Value(Unpatched(img, p)))'
        BY <1>2, <1>7 DEF At, Value
  <2> QED
        BY <1>2, <2>1 DEF ContentInv
<1>11. ImageLoaded'
  <2> SUFFICES ASSUME pc' = "TRUE" PROVE ImageLoaded'
      BY DEF ImageLoaded
  <2>1. phdr_dyn' = 0 /\ entry' = img.entry + Moved(img)
        BY <1>2, <1>3 DEF Placed
  <2>2. ASSUME NEW ph \in Loads(img), NEW p \in ph.paddr .. ph.paddr + ph.memsz - 1
        PROVE  (mem[p + Moved(img)] = Value(Expected(p)))'
    <3>1. p \in Nat /\ InSegment(ph, p)
      <4>1. ph.paddr \in Nat /\ ph.memsz \in Nat
            BY <1>3, SegmentIs
      <4> QED
            BY <4>1 DEF InSegment
    <3>2. p \in Units(img)
          BY <3>1 DEF Units
    <3>3. Expected(p)' = Unpatched(img, p)
          BY <1>2, <2>1 DEF Expected
    <3> QED
          BY <1>2, <1>7, <3>2, <3>3 DEF Value
  <2> QED
        BY <1>2, <2>1, <2>2 DEF ImageLoaded
<1>12. WritesInLoadSize'
  <2> SUFFICES ASSUME NEW a \in 0 .. Word - 1, mem'[a] # Old
               PROVE  Base <= a /\ a < Base + MaxAddr(img) - LowAddr(img)
      BY <1>2, <1>4 DEF WritesInLoadSize
  <2>1. CASE Moves(a)
    <3>1. PICK j \in DOMAIN img.phdrs : a = Uint32(info.start + j)
          BY <2>1
    <3>2. LowAddr(img) + j \in Units(img) /\ a = (LowAddr(img) + j) + Moved(img)
          BY <1>3, <1>5, <3>1, HeaderIs DEF Placed
    <3> QED
          BY <1>3, <3>2, UnitPlaced
  <2>2. CASE ~Moves(a)
    <3>1. mem[a] # Old
          BY <1>4, <2>2
    <3> QED
          BY <1>1, <1>3, <3>1 DEF WritesInLoadSize
  <2> QED
        BY <2>1, <2>2
<1> QED
      BY <1>8, <1>9, <1>10, <1>11, <1>12 DEF ElfInv

LEMMA RelocsAre ==
  ASSUME img \in Images
  PROVE  /\ Relocs \in Seq(RelocType) /\ PlacesApart(img, Relocs)
         /\ \A j \in DOMAIN Relocs : j \in Nat /\ 0 < j /\ Relocs[j] \in RelocType
<1>1. Relocs \in Seq(RelocType) /\ PlacesApart(img, Relocs)
      BY FileIs DEF Relocs
<1> HIDE DEF Relocs
<1> QED
      BY <1>1

LEMMA TablesStep ==
  ASSUME ElfInv, FindTables
  PROVE  ElfInv'
<1>1. FrameInv /\ StageInv /\ ContentInv /\ WritesInLoadSize
      BY DEF ElfInv
<1>2. /\ img' = img /\ mem' = mem /\ info' = info /\ phdr_dyn' = phdr_dyn
      /\ pc = "relocation"
      /\ \/ pc' = "FALSE" /\ i' = i
         \/ pc' = "relocate" /\ i' = 1 /\ table' \in {"RELA", "REL"}
      BY DEF FindTables, Fail
<1>3. FrameInv'
      BY <1>1, <1>2 DEF FrameInv
<1>4. StageInv'
      BY <1>1, <1>2 DEF StageInv, Placed
<1>5. ContentInv'
  <2> SUFFICES ASSUME pc' = "relocate", i' = 1 PROVE RelocatedBefore(i)'
      BY <1>2 DEF ContentInv
  <2>1. ASSUME NEW j \in DOMAIN Relocs' PROVE ~(j < i')
    <3>1. Relocs' \in Seq(RelocType)
          BY <1>1, <1>2, FileIs DEF FrameInv, Relocs
    <3>2. j \in Nat /\ 0 < j
          BY <3>1
    <3> QED
          BY <3>2
  <2>2. ASSUME NEW p \in Units(img) PROVE (At(p) = Value(Unpatched(img, p)))'
        BY <1>1, <1>2 DEF ContentInv, At, Value
  <2> QED
        BY <1>2, <2>1, <2>2 DEF RelocatedBefore
<1>6. WritesInLoadSize'
      BY <1>1, <1>2, QuietWrites
<1> QED
      BY <1>2, <1>3, <1>4, <1>5, <1>6 DEF ElfInv, ImageLoaded

\* The place of a relocation.
LEMMA PlaceIs ==
  ASSUME img \in Images, Placed, NEW j \in DOMAIN Relocs, Relocs[j].kind # "NONE"
  PROVE  LET p == Relocs[j].offset
         IN  /\ p \in Units(img) /\ ~IsHeader(img, p)
             /\ Uint32(p + info.offset) = p + Moved(img)
             /\ \A k \in DOMAIN Relocs :
                  k # j /\ Relocs[k].kind # "NONE" => Relocs[k].offset # p
<1> DEFINE p == Relocs[j].offset
<1>1. p \in Nat
      BY RelocsAre DEF RelocType
<1>2. /\ Place(img, p)
      /\ \A k \in DOMAIN Relocs :
           k # j /\ Relocs[k].kind # "NONE" => Relocs[k].offset # p
      BY RelocsAre DEF PlacesApart
<1> HIDE DEF p
<1>3. p \in Units(img)
      BY <1>1, <1>2 DEF Place, Units, InSegment
<1>4. ~IsHeader(img, p)
  <2>1. ASSUME NEW k \in DOMAIN img.phdrs PROVE p # LowAddr(img) + k
    <3>1. k \in Nat /\ Len(img.phdrs) \in Nat /\ k <= Len(img.phdrs)
          BY FileIs
    <3>2. LowAddr(img) \in Nat /\ p > LowAddr(img) + Len(img.phdrs)
          BY <1>2, LowIs DEF Place
    <3> QED
          BY <1>1, <3>1, <3>2
  <2> QED
        BY <2>1 DEF IsHeader
<1>5. Uint32(p + info.offset) = p + Moved(img)
  <2> DEFINE a == p + Moved(img)
  <2>1. info.offset = Moved(img) /\ a \in 0 .. Word - 1
        BY <1>3, UnitPlaced DEF Placed
  <2>2. Uint32(p + info.offset) = Uint32(a)
        BY <2>1
  <2> HIDE DEF a
  <2>3. a \in Nat /\ a < Word
        BY <2>1, ConstantsAre
  <2>4. Uint32(a) = a
        BY <2>3, Fits, ConstantsAre DEF Uint32
  <2> QED
        BY <2>2, <2>4 DEF a
<1> QED
      BY <1>2, <1>3, <1>4, <1>5 DEF p

\* A relocation leaves its target in its place and the rest of memory alone.
LEMMA PatchStep ==
  ASSUME img \in Images, Placed, RelocatedBefore(i), WritesInLoadSize,
         DOMAIN mem = 0 .. Word - 1, i \in DOMAIN Relocs,
         Relocs[i].kind # "NONE",
         NEW v, Patch(Relocs[i], v), Value(v) = Target(Relocs[i]),
         img' = img, table' = table, i' = i + 1
  PROVE  DOMAIN mem' = 0 .. Word - 1 /\ RelocatedBefore(i)' /\ WritesInLoadSize'
<1> DEFINE r == Relocs[i]
           x == r.offset + Moved(img)
<1>1. /\ r.offset \in Units(img) /\ Uint32(r.offset + info.offset) = x
      /\ \A k \in DOMAIN Relocs :
           k # i /\ Relocs[k].kind # "NONE" => Relocs[k].offset # r.offset
      BY PlaceIs
<1>2. /\ r.offset \in Nat /\ Moved(img) \in Int /\ x \in 0 .. Word - 1
      /\ Base <= x /\ x < Base + MaxAddr(img) - LowAddr(img)
      BY <1>1, UnitPlaced
<1> HIDE DEF x
<1>3. mem' = [mem EXCEPT ![x] = Target(r)]
      BY <1>1 DEF Patch
<1>4. DOMAIN mem' = 0 .. Word - 1
      BY <1>3
<1>5. mem'[x] = Target(r) /\ \A a \in 0 .. Word - 1 : a # x => mem'[a] = mem[a]
  <2> HIDE DEF r
  <2> QED
      BY <1>2, <1>3
<1>6. Relocs' = Relocs
      BY DEF Relocs
<1>7. ASSUME NEW p \in Units(img), p # r.offset
      PROVE  mem'[p + Moved(img)] = mem[p + Moved(img)]
  <2>1. p \in Nat /\ p + Moved(img) \in 0 .. Word - 1
        BY UnitPlaced
  <2>2. p + Moved(img) # x
        BY <1>2, <1>7, <2>1 DEF x
  <2> QED
        BY <1>5, <2>1, <2>2
<1>8. ASSUME NEW j \in DOMAIN Relocs, j < i + 1, Relocs[j].kind # "NONE"
      PROVE  mem'[Relocs[j].offset + Moved(img)] = Target(Relocs[j])
  <2>1. CASE j = i
        BY <1>5, <2>1 DEF x
  <2>2. CASE j # i
    <3>1. j < i
          BY <1>8, <2>2, RelocsAre
    <3>2. mem[Relocs[j].offset + Moved(img)] = Target(Relocs[j])
          BY <1>8, <3>1 DEF RelocatedBefore, At
    <3>3. Relocs[j].offset \in Units(img)
          BY <1>8, PlaceIs
    <3>4. Relocs[j].offset # r.offset
          BY <1>1, <1>8, <2>2
    <3> QED
          BY <1>7, <3>2, <3>3, <3>4
  <2> QED
        BY <2>1, <2>2
<1>9. ASSUME NEW p \in Units(img)
      PROVE  \/ mem'[p + Moved(img)] = Value(Unpatched(img, p))
             \/ \E j \in DOMAIN Relocs :
                  j < i + 1 /\ Relocs[j].kind # "NONE" /\ Relocs[j].offset = p
  <2>1. i < i + 1 /\ \A j \in DOMAIN Relocs : j < i => j < i + 1
        BY RelocsAre
  <2>2. CASE p = r.offset
        BY <2>1, <2>2
  <2>3. CASE p # r.offset
    <3>1. mem'[p + Moved(img)] = mem[p + Moved(img)]
          BY <1>7, <2>3
    <3> QED
          BY <2>1, <3>1 DEF RelocatedBefore, At
  <2> QED
        BY <2>2, <2>3
<1>10. RelocatedBefore(i)'
  <2>1. ASSUME NEW j \in DOMAIN Relocs PROVE Target(Relocs[j])' = Target(Relocs[j])
        BY <1>6 DEF Target, Value
  <2>2. ASSUME NEW p PROVE Value(Unpatched(img, p))' = Value(Unpatched(img, p))
        BY DEF Value
  <2> QED
        BY <1>6, <1>8, <1>9, <2>1, <2>2 DEF RelocatedBefore, At
<1>11. WritesInLoadSize'
  <2> SUFFICES ASSUME NEW a \in 0 .. Word - 1, mem'[a] # Old
               PROVE  Base <= a /\ a < Base + MaxAddr(img) - LowAddr(img)
      BY <1>4 DEF WritesInLoadSize
  <2>1. CASE a = x
        BY <1>2, <2>1
  <2>2. CASE a # x
    <3>1. mem[a] # Old
          BY <1>5, <2>2
    <3> QED
          BY <3>1 DEF WritesInLoadSize
  <2> QED
        BY <2>1, <2>2
<1> QED
      BY <1>4, <1>10, <1>11

\* An entry that changes nothing.
LEMMA NoPatchStep ==
  ASSUME img \in Images, RelocatedBefore(i), i \in DOMAIN Relocs,
         Relocs[i].kind = "NONE",
         img' = img, table' = table, mem' = mem, i' = i + 1
  PROVE  RelocatedBefore(i)'
<1>1. Relocs' = Relocs
      BY DEF Relocs
<1>2. ASSUME NEW j \in DOMAIN Relocs, Relocs[j].kind # "NONE"
      PROVE  (j < i + 1) <=> (j < i)
      BY <1>2, RelocsAre
<1>3. ASSUME NEW j \in DOMAIN Relocs PROVE Target(Relocs[j])' = Target(Relocs[j])
      BY <1>1 DEF Target, Value
<1>4. ASSUME NEW p PROVE Value(Unpatched(img, p))' = Value(Unpatched(img, p))
      BY DEF Value
<1> QED
      BY <1>1, <1>2, <1>3, <1>4 DEF RelocatedBefore, At

LEMMA RelocateStep ==
  ASSUME ElfInv, RelocateRela \/ RelocateRel
  PROVE  ElfInv'
<1>1. FrameInv /\ StageInv /\ ContentInv /\ WritesInLoadSize
      BY DEF ElfInv
<1>2. /\ img' = img /\ info' = info /\ phdr_dyn' = phdr_dyn /\ table' = table
      /\ pc = "relocate" /\ i \in 1 .. Len(Relocs)
      /\ \/ pc' = "FALSE" /\ i' = i /\ mem' = mem
         \/ pc' = pc /\ i' = i + 1
      BY <1>1 DEF RelocateRela, RelocateRel, Fail, Relocs, FrameInv
<1>3. /\ img \in Images /\ DOMAIN mem = 0 .. Word - 1 /\ Placed
      /\ RelocatedBefore(i)
      BY <1>1, <1>2 DEF FrameInv, StageInv, ContentInv
<1>4. i \in DOMAIN Relocs /\ Relocs[i] \in RelocType /\ i \in Nat
      BY <1>2, <1>3, RelocsAre
<1> DEFINE r == Relocs[i]
<1>5. CASE pc' = "FALSE" /\ i' = i /\ mem' = mem
  <2>1. WritesInLoadSize'
        BY <1>1, <1>2, <1>5, QuietWrites
  <2> QED
        BY <1>1, <1>2, <1>5, <2>1
        DEF ElfInv, FrameInv, StageInv, ContentInv, ImageLoaded
<1>6. CASE pc' = pc /\ i' = i + 1
  <2>1. CASE r.kind = "NONE"
    <3>1. mem' = mem
          BY <1>2, <1>6, <2>1 DEF RelocateRela, RelocateRel, Fail, Relocs
    <3>2. RelocatedBefore(i)'
          BY <1>2, <1>3, <1>4, <1>6, <2>1, <3>1, NoPatchStep
    <3>3. WritesInLoadSize'
          BY <1>1, <1>2, <3>1, QuietWrites
    <3>4. StageInv'
          BY <1>1, <1>2, <1>6 DEF StageInv, Placed
    <3> QED
          BY <1>1, <1>2, <1>6, <3>1, <3>2, <3>3, <3>4
          DEF ElfInv, FrameInv, ContentInv, ImageLoaded
  <2>2. CASE r.kind # "NONE"
    <3>1. \E v : Patch(r, v) /\ Value(v) = Target(r)
      <4>1. CASE table = "RELA"
        <5> DEFINE v == r.addend + info.offset + Symbol(r)
        <5>1. Patch(r, v)
              BY <1>2, <1>6, <2>2, <4>1 DEF RelocateRela, RelocateRel, Fail, Relocs
        <5>2. Value(v) = Target(r)
              BY <1>3, <4>1 DEF Placed, Target
        <5> QED
              BY <5>1, <5>2
      <4>2. CASE table # "RELA"
        <5> DEFINE v == mem[Uint32(r.offset + info.offset)]
                          + info.offset + Symbol(r)
        <5>1. Patch(r, v)
              BY <1>2, <1>6, <2>2, <4>2 DEF RelocateRela, RelocateRel, Fail, Relocs
        <5>2. /\ r.offset \in Units(img) /\ ~IsHeader(img, r.offset)
              /\ Uint32(r.offset + info.offset) = r.offset + Moved(img)
              /\ \A k \in DOMAIN Relocs :
                   k # i /\ Relocs[k].kind # "NONE" => Relocs[k].offset # r.offset
              BY <1>3, <1>4, <2>2, PlaceIs
        <5>3. At(r.offset) = Value(Unpatched(img, r.offset))
          <6>1. ~\E j \in DOMAIN Relocs :
                   j < i /\ Relocs[j].kind # "NONE" /\ Relocs[j].offset = r.offset
                BY <1>4, <5>2
          <6> QED
                BY <1>3, <5>2, <6>1 DEF RelocatedBefore
        <5>4. Linked(img, r.offset) \in Nat /\ Linked(img, r.offset) < Limit(img)
              BY <1>3, <5>2, UnitIs DEF Units
        <5>5. Unpatched(img, r.offset) = Linked(img, r.offset)
              BY <5>2, <5>4 DEF Unpatched
        <5>6. mem[Uint32(r.offset + info.offset)] = Linked(img, r.offset)
              BY <1>3, <5>2, <5>3, <5>4, <5>5, ValueFits DEF At
        <5>7. Value(v) = Target(r)
              BY <1>3, <4>2, <5>6 DEF Placed, Target
        <5> QED
              BY <5>1, <5>7
      <4> QED
            BY <4>1, <4>2
    <3>2. DOMAIN mem' = 0 .. Word - 1 /\ RelocatedBefore(i)' /\ WritesInLoadSize'
          BY <1>1, <1>2, <1>3, <1>4, <1>6, <2>2, <3>1, PatchStep
    <3>3. StageInv'
          BY <1>1, <1>2, <1>6 DEF StageInv, Placed
    <3>4. FrameInv'
          BY <1>1, <1>2, <1>4, <1>6, <3>2 DEF FrameInv
    <3> QED
          BY <1>2, <1>6, <3>2, <3>3, <3>4 DEF ElfInv, ContentInv, ImageLoaded
  <2> QED
        BY <2>1, <2>2
<1> QED
      BY <1>2, <1>5, <1>6

LEMMA LoadedStep ==
  ASSUME ElfInv, Loaded
  PROVE  ElfInv'
<1>1. FrameInv /\ StageInv /\ ContentInv /\ WritesInLoadSize
      BY DEF ElfInv
<1>2. /\ img' = img /\ info' = info /\ phdr_dyn' = phdr_dyn /\ table' = table
      /\ mem' = mem /\ i' = i /\ pc = "relocate" /\ i > Len(Relocs)
      /\ pc' = "TRUE" /\ entry' = info.entry
      BY DEF Loaded
<1>3. img \in Images /\ Placed /\ RelocatedBefore(i) /\ i \in Nat /\ phdr_dyn # 0
      BY <1>1, <1>2 DEF FrameInv, StageInv, ContentInv
<1>4. \A j \in DOMAIN Relocs : j < i
  <2>1. Relocs \in Seq(RelocType)
        BY <1>3, RelocsAre
  <2> HIDE DEF Relocs
  <2>2. ASSUME NEW j \in DOMAIN Relocs PROVE j < i
    <3>1. j \in Nat /\ Len(Relocs) \in Nat /\ j <= Len(Relocs)
          BY <2>1
    <3> QED
          BY <1>2, <1>3, <3>1
  <2> QED
        BY <2>2
<1>5. ASSUME NEW p \in Units(img) PROVE At(p) = Value(Expected(p))
  <2>1. CASE Patches(p) # {}
    <3> DEFINE r == CHOOSE r \in Patches(p) : TRUE
    <3>1. r \in Patches(p)
          BY <2>1
    <3>2. Expected(p) = (IF table = "RELA" THEN r.addend ELSE Linked(img, p))
                          + Moved(img) + Symbol(r)
          BY <1>3, <2>1 DEF Expected
    <3> HIDE DEF r
    <3>3. PICK j \in DOMAIN Relocs : r = Relocs[j] /\ r.offset = p /\ r.kind # "NONE"
          BY <3>1 DEF Patches
    <3>4. At(p) = Target(r)
          BY <1>3, <1>4, <3>3 DEF RelocatedBefore
    <3> QED
          BY <3>2, <3>3, <3>4 DEF Target
  <2>2. CASE Patches(p) = {}
    <3>1. ASSUME NEW j \in DOMAIN Relocs, Relocs[j].kind # "NONE"
          PROVE  Relocs[j].offset # p
          BY <2>2, <3>1 DEF Patches
    <3>2. At(p) = Value(Unpatched(img, p))
          BY <1>3, <3>1 DEF RelocatedBefore
    <3> QED
          BY <2>2, <3>2 DEF Expected
  <2> QED
        BY <2>1, <2>2
<1>6. ImageLoaded'
  <2>1. entry' = img.entry + Moved(img)
        BY <1>2, <1>3 DEF Placed
  <2>2. ASSUME NEW ph \in Loads(img), NEW p \in ph.paddr .. ph.paddr + ph.memsz - 1
        PROVE  (mem[p + Moved(img)] = Value(Expected(p)))'
    <3>1. p \in Nat /\ InSegment(ph, p)
      <4>1. ph.paddr \in Nat /\ ph.memsz \in Nat
            BY <1>3, SegmentIs
      <4> QED
            BY <4>1 DEF InSegment
    <3>2. p \in Units(img)
          BY <3>1 DEF Units
    <3>3. Expected(p)' = Expected(p)
          BY <1>2 DEF Expected, Patches, Relocs
    <3> QED
          BY <1>2, <1>5, <3>2, <3>3 DEF Value, At
  <2> QED
        BY <1>2, <2>1, <2>2 DEF ImageLoaded
<1>7. WritesInLoadSize'
      BY <1>1, <1>2, QuietWrites
<1> QED
      BY <1>1, <1>2, <1>6, <1>7 DEF ElfInv, FrameInv, StageInv, ContentInv

LEMMA NextElfInv == ElfInv /\ [ElfStep \/ ElfDone]_vars => ElfInv'
<1> SUFFICES ASSUME ElfInv, [ElfStep \/ ElfDone]_vars PROVE ElfInv'
    OBVIOUS
<1>1. CASE UNCHANGED vars
  <2>1. /\ pc' = pc /\ img' = img /\ info' = info /\ i' = i /\ mem' = mem
        /\ phdr_dyn' = phdr_dyn /\ table' = table /\ entry' = entry
        BY <1>1 DEF vars
  <2>2. FrameInv' /\ StageInv'
        BY <2>1 DEF ElfInv, FrameInv, StageInv, Placed
  <2>3. ContentInv'
    <3>1. ContentInv
          BY DEF ElfInv
    <3>2. RelocatedBefore(i) => RelocatedBefore(i)'
          BY <2>1 DEF RelocatedBefore, At, Target, Value, Relocs
    <3> QED
          BY <2>1, <3>1, <3>2 DEF ContentInv, At, Value
  <2>4. ImageLoaded'
    <3>1. ASSUME NEW p PROVE Expected(p)' = Expected(p)
          BY <2>1 DEF Expected, Patches, Relocs
    <3> QED
          BY <2>1, <3>1 DEF ElfInv, ImageLoaded, Value
  <2>5. WritesInLoadSize'
        BY <2>1, QuietWrites DEF ElfInv
  <2> QED
        BY <2>2, <2>3, <2>4, <2>5 DEF ElfInv
<1> QED
      BY <1>1, StartSteps, SkipStep, LoadStep, HeaderStep, TablesStep,
         RelocateStep, LoadedStep DEF ElfStep, ElfDone

LEMMA ElfInvHolds == ElfSpec => []ElfInv
BY InitElfInv, NextElfInv, PTL DEF ElfSpec

\* load_image returns TRUE only with the whole image in its place, moved,
\* zeroed and relocated, and its entry point with it, for every image that the
\* linker makes.
THEOREM LoadsTheImage == ElfSpec => []ImageLoaded
<1>1. ElfInv => ImageLoaded
      BY DEF ElfInv
<1> QED
      BY <1>1, ElfInvHolds, PTL

\* load_image writes nothing outside the load_size that get_image_info reports,
\* also when it fails half way.
THEOREM LoadStaysInside == ElfSpec => []WritesInLoadSize
<1>1. ElfInv => WritesInLoadSize
      BY DEF ElfInv
<1> QED
      BY <1>1, ElfInvHolds, PTL
=============================================================================
