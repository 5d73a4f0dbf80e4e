---------------------------- MODULE SlotFS_proofs ----------------------------
(***************************************************************************)
(* Proofs about SlotFS for every number of slots, files and faults: the    *)
(* arithmetic of the layout, and type correctness.                         *)
(***************************************************************************)
EXTENDS SlotFS, SequenceTheorems, TLAPS

-----------------------------------------------------------------------------
(* The layout.                                                             *)

(* Slots follow one another: a later slot starts where an earlier one has  *)
(* ended, so their data areas do not overlap.                              *)
LEMMA SlotsInOrder ==
    ASSUME NEW s \in Nat, NEW t \in Nat, s < t
    PROVE  SlotMax(s) <= SlotStart(t)
<1> DEFINE d == t - s - 1
<1>1. d \in Nat /\ t = s + 1 + d
  OBVIOUS
<1>2. SlotSize \in Nat
  BY LayoutAssumption
<1>3. SlotSize * t = SlotSize * s + SlotSize + SlotSize * d
  BY <1>1, <1>2
<1>4. SlotSize * d \in Nat
  BY <1>1, <1>2
<1>5. SlotSize * s \in Nat /\ SlotSize * t \in Nat
  BY <1>2
<1> QED
  BY <1>2, <1>3, <1>4, <1>5, LayoutAssumption DEF SlotMax, SlotStart, DataStart

(* Data areas lie behind all metadata blocks.                              *)
LEMMA MetaBeforeData ==
    ASSUME NEW s \in Slots, NEW t \in Nat, NEW idx \in {0, 1}
    PROVE  /\ MetaBlock(s, idx) \in Nat
           /\ SlotStart(t) \in Nat /\ SlotMax(t) \in Nat
           /\ 0 < MetaBlock(s, idx) /\ MetaBlock(s, idx) < SlotStart(t)
<1>1. SlotSize * t \in Nat
  BY LayoutAssumption
<1> QED
  BY <1>1, LayoutAssumption DEF MetaBlock, SlotStart, SlotMax, DataStart, Slots

(* The data areas end before end_address.                                  *)
LEMMA DataBeforeEnd ==
    ASSUME NEW s \in Slots
    PROVE  SlotMax(s) <= EndBlock
<1> DEFINE room == EndBlock - DataStart
<1>1. SlotCount * SlotSize <= room
  BY LayoutAssumption DEF SlotSize, DataStart
<1>2. SlotMax(s) <= SlotStart(SlotCount)
  BY SlotsInOrder, LayoutAssumption DEF Slots
<1>3. SlotStart(SlotCount) <= EndBlock
  BY <1>1, LayoutAssumption DEF SlotStart, DataStart
<1>4. SlotMax(s) \in Nat /\ SlotStart(SlotCount) \in Nat
  BY MetaBeforeData, LayoutAssumption DEF Slots
<1> QED
  BY <1>2, <1>3, <1>4, LayoutAssumption

LEMMA PageAddressNat ==
    ASSUME NEW start \in Nat, NEW cursor \in Nat
    PROVE  PageAddress(start, cursor) \in Nat
<1> DEFINE q == cursor \div PageBlocks
<1>1. q \in Nat
  BY LayoutAssumption
<1>2. q * PageBlocks \in Nat
  BY <1>1, LayoutAssumption
<1> QED
  BY <1>2 DEF PageAddress

(* The page of a cursor starts at or before it and ends behind it; if a    *)
(* slot is a whole number of pages, the page ends within the slot.         *)
LEMMA PageWithinSlot ==
    ASSUME NEW start \in Nat, NEW cursor \in Nat,
           SlotSize % PageBlocks = 0, cursor < SlotSize
    PROVE  /\ PageAddress(start, cursor) \in Nat
           /\ start <= PageAddress(start, cursor)
           /\ PageAddress(start, cursor) + PageBlocks <= start + SlotSize
           /\ PageAddress(start, cursor) + PageOffset(cursor) = start + cursor
<1> DEFINE q == cursor \div PageBlocks
           m == SlotSize \div PageBlocks
           r == cursor % PageBlocks
<1>1. PageBlocks \in Nat /\ PageBlocks > 0 /\ SlotSize \in Nat
  BY LayoutAssumption
<1>2. q \in Nat /\ r \in 0 .. PageBlocks - 1 /\ cursor = PageBlocks * q + r
  BY <1>1
<1>3. m \in Nat /\ SlotSize = PageBlocks * m
  BY <1>1
<1>4. q < m
  <2> SUFFICES ASSUME m <= q PROVE FALSE
    BY <1>2, <1>3
  <2> DEFINE e == q - m
  <2>1. e \in Nat /\ q = m + e
    BY <1>2, <1>3
  <2>2. PageBlocks * q = PageBlocks * m + PageBlocks * e
    BY <2>1, <1>1, <1>3
  <2>3. PageBlocks * e \in Nat
    BY <1>1, <2>1
  <2> QED
    BY <2>2, <2>3, <1>1, <1>2, <1>3
<1>5. PICK e \in Nat : m = q + 1 + e
  <2>1. m - q - 1 \in Nat /\ m = q + 1 + (m - q - 1)
    BY <1>2, <1>3, <1>4
  <2> QED
    BY <2>1
<1>6. PageBlocks * m = PageBlocks * q + PageBlocks + PageBlocks * e
  BY <1>5, <1>1, <1>2
<1>7. PageBlocks * e \in Nat /\ PageBlocks * q \in Nat /\ q * PageBlocks = PageBlocks * q
  BY <1>5, <1>1, <1>2
<1> QED
  BY <1>1, <1>2, <1>3, <1>6, <1>7 DEF PageAddress, PageOffset

(* The blocks of a slot are on the device, before end_address.             *)
LEMMA BlocksOnDevice ==
    ASSUME NEW s \in Slots
    PROVE  SlotBlocks(s) \subseteq 0 .. EndBlock - 1
<1>1. SlotStart(s) \in Nat /\ SlotMax(s) \in Nat /\ SlotStart(s) < SlotMax(s)
  BY MetaBeforeData, LayoutAssumption DEF Slots, SlotMax
<1>2. SlotMax(s) <= EndBlock
  BY DataBeforeEnd
<1>3. \A idx \in {0, 1} : MetaBlock(s, idx) \in Nat /\ MetaBlock(s, idx) < SlotStart(s)
  BY MetaBeforeData DEF Slots
<1> QED
  BY <1>1, <1>2, <1>3, LayoutAssumption DEF SlotBlocks

(* No block belongs to two slots.                                          *)
LEMMA BlocksDisjoint ==
    ASSUME NEW s \in Slots, NEW t \in Slots, NEW a \in SlotBlocks(s), a \in SlotBlocks(t)
    PROVE  s = t
<1>1. \A x \in Slots : x \in Nat
  BY LayoutAssumption DEF Slots
<1>2. \A x \in Slots : \A y \in Slots : a \in SlotBlocks(x) /\ a \in SlotBlocks(y) => ~(x < y)
  <2> SUFFICES ASSUME NEW x \in Slots, NEW y \in Slots,
                      a \in SlotBlocks(x), a \in SlotBlocks(y), x < y
               PROVE  FALSE
    OBVIOUS
  <2>1. /\ \A idx \in {0, 1} : MetaBlock(x, idx) \in Nat /\ MetaBlock(x, idx) < SlotStart(y)
        /\ \A idx \in {0, 1} : MetaBlock(y, idx) \in Nat /\ MetaBlock(y, idx) < SlotStart(x)
        /\ SlotStart(x) \in Nat /\ SlotStart(y) \in Nat
        /\ SlotMax(x) \in Nat /\ SlotMax(y) \in Nat
    BY <1>1, MetaBeforeData
  <2>2. SlotMax(x) <= SlotStart(y)
    BY <1>1, SlotsInOrder
  <2>3. \A i \in {0, 1} : \A j \in {0, 1} : MetaBlock(x, i) # MetaBlock(y, j)
    BY <1>1 DEF MetaBlock
  <2> QED
    BY <2>1, <2>2, <2>3 DEF SlotBlocks
<1> QED
  BY <1>1, <1>2

(* The page of a cursor in a slot, or right behind it and not at the head  *)
(* of a page, is one of the slot's pages.                                  *)
LEMMA PageInPages ==
    ASSUME NEW s \in Slots, NEW cursor \in Nat,
           cursor < SlotSize \/ (cursor = SlotSize /\ PageOffset(cursor) > 0),
           NEW a \in PageAddress(SlotStart(s), cursor)
                         .. PageAddress(SlotStart(s), cursor) + PageBlocks - 1
    PROVE  a \in PagesOf(s)
<1> DEFINE q == cursor \div PageBlocks
           r == cursor % PageBlocks
           m == (SlotSize - 1) \div PageBlocks
           t == (SlotSize - 1) % PageBlocks
<1>1. PageBlocks \in Nat /\ PageBlocks > 0 /\ SlotSize \in Nat /\ SlotSize > 0
  BY LayoutAssumption
<1>2. q \in Nat /\ r \in 0 .. PageBlocks - 1 /\ cursor = PageBlocks * q + r
  BY <1>1
<1>3. m \in Nat /\ t \in 0 .. PageBlocks - 1 /\ SlotSize - 1 = PageBlocks * m + t
  <2>1. SlotSize - 1 \in Nat
    BY <1>1
  <2> QED
    BY <1>1, <2>1
<1>4. PageBlocks * q <= SlotSize - 1
  <2>1. PageBlocks * q \in Nat
    BY <1>1, <1>2
  <2> QED
    BY <1>1, <1>2, <2>1 DEF PageOffset
<1>5. q <= m
  <2> SUFFICES ASSUME m < q PROVE FALSE
    BY <1>2, <1>3
  <2> DEFINE e == q - m - 1
  <2>1. e \in Nat /\ q = m + 1 + e
    BY <1>2, <1>3
  <2>2. PageBlocks * q = PageBlocks * m + PageBlocks + PageBlocks * e
    BY <1>1, <1>3, <2>1
  <2>3. PageBlocks * e \in Nat /\ PageBlocks * m \in Nat
    BY <1>1, <1>3, <2>1
  <2> QED
    BY <1>1, <1>3, <1>4, <2>2, <2>3
<1>6. PageBlocks * q <= PageBlocks * m
  <2> DEFINE e == m - q
  <2>1. e \in Nat /\ m = q + e
    BY <1>2, <1>3, <1>5
  <2>2. PageBlocks * m = PageBlocks * q + PageBlocks * e
    BY <1>1, <1>2, <2>1
  <2>3. PageBlocks * e \in Nat /\ PageBlocks * q \in Nat
    BY <1>1, <1>2, <2>1
  <2> QED
    BY <2>2, <2>3
<1>7. PageBlocks * q = q * PageBlocks /\ PageBlocks * m = m * PageBlocks
      /\ q * PageBlocks \in Nat /\ m * PageBlocks \in Nat
  BY <1>1, <1>2, <1>3
<1>8. SlotStart(s) \in Nat
  BY MetaBeforeData DEF Slots
<1>9. a \in SlotStart(s) .. SlotStart(s) + m * PageBlocks + PageBlocks - 1
  BY <1>1, <1>6, <1>7, <1>8 DEF PageAddress
<1> QED
  BY <1>9 DEF PagesOf

LEMMA WholePages ==
    ASSUME NEW m \in Nat, NEW q \in Nat, m = PageBlocks * q
    PROVE  m % PageBlocks = 0
<1> DEFINE d == m \div PageBlocks
           r == m % PageBlocks
<1>1. PageBlocks \in Nat /\ PageBlocks > 0
  BY LayoutAssumption
<1>2. d \in Nat /\ r \in 0 .. PageBlocks - 1 /\ m = PageBlocks * d + r
  BY <1>1
<1>3. ~(d < q)
  <2> SUFFICES ASSUME d < q PROVE FALSE
    OBVIOUS
  <2> DEFINE e == q - d - 1
  <2>1. e \in Nat /\ q = d + 1 + e
    BY <1>2
  <2>2. PageBlocks * q = PageBlocks * d + PageBlocks + PageBlocks * e
    BY <1>1, <1>2, <2>1
  <2>3. PageBlocks * e \in Nat /\ PageBlocks * d \in Nat
    BY <1>1, <1>2, <2>1
  <2> QED
    BY <1>1, <1>2, <2>2, <2>3
<1>4. ~(q < d)
  <2> SUFFICES ASSUME q < d PROVE FALSE
    OBVIOUS
  <2> DEFINE e == d - q - 1
  <2>1. e \in Nat /\ d = q + 1 + e
    BY <1>2
  <2>2. PageBlocks * d = PageBlocks * q + PageBlocks + PageBlocks * e
    BY <1>1, <2>1
  <2>3. PageBlocks * e \in Nat /\ PageBlocks * q \in Nat
    BY <1>1, <2>1
  <2> QED
    BY <1>1, <1>2, <2>2, <2>3
<1> QED
  BY <1>1, <1>2, <1>3, <1>4

(* The pages of a slot do not reach into another one if slots are whole    *)
(* numbers of pages; nor can they if there is no other.                    *)
LEMMA PagesApart ==
    ASSUME SlotSize % PageBlocks = 0 \/ SlotCount = 1,
           NEW s \in Slots, NEW t \in Slots, NEW a \in PagesOf(s), a \in SlotBlocks(t)
    PROVE  s = t
<1>1. CASE SlotCount = 1
  BY <1>1 DEF Slots
<1>2. CASE SlotSize % PageBlocks = 0
  <2> DEFINE last == SlotSize - 1
  <2>1. PageBlocks \in Nat /\ PageBlocks > 0 /\ SlotSize \in Nat /\ last \in Nat
    BY LayoutAssumption
  <2>2. /\ PageAddress(0, last) + PageBlocks <= 0 + SlotSize
        /\ PageAddress(0, last) = (last \div PageBlocks) * PageBlocks
        /\ PageAddress(0, last) \in Nat
    <3>1. PageAddress(0, last) + PageBlocks <= 0 + SlotSize /\ PageAddress(0, last) \in Nat
      BY <1>2, <2>1, PageWithinSlot
    <3>2. (last \div PageBlocks) * PageBlocks \in Nat
      BY <2>1
    <3> QED
      BY <3>1, <3>2 DEF PageAddress
  <2>3. SlotStart(s) \in Nat /\ SlotMax(s) = SlotStart(s) + SlotSize
    BY <2>1, MetaBeforeData DEF Slots, SlotMax
  <2>4. a \in SlotBlocks(s)
    BY <2>1, <2>2, <2>3 DEF PagesOf, SlotBlocks
  <2> QED
    BY <2>4, BlocksDisjoint
<1> QED
  BY <1>1, <1>2

(* A cursor moves within its page or to the start of the next.             *)
LEMMA PageOffsetMoves ==
    ASSUME NEW c \in Nat, NEW n \in Nat, PageOffset(c) + n <= PageBlocks
    PROVE  /\ PageOffset(c) \in 0 .. PageBlocks - 1
           /\ PageOffset(c + n) = (PageOffset(c) + n) % PageBlocks
<1> DEFINE q == c \div PageBlocks
           r == c % PageBlocks
<1>1. PageBlocks \in Nat /\ PageBlocks > 0
  BY LayoutAssumption
<1>2. q \in Nat /\ r \in 0 .. PageBlocks - 1 /\ c = PageBlocks * q + r
  BY <1>1
<1>3. r + n <= PageBlocks
  BY DEF PageOffset
<1>4. CASE r + n < PageBlocks
  <2>1. c + n = PageBlocks * q + (r + n) /\ r + n \in 0 .. PageBlocks - 1
    BY <1>1, <1>2, <1>4
  <2>2. (c + n) % PageBlocks = r + n /\ (r + n) % PageBlocks = r + n
    BY <1>1, <1>2, <2>1
  <2> QED
    BY <1>2, <2>2 DEF PageOffset
<1>5. CASE r + n = PageBlocks
  <2>1. c + n = PageBlocks * (q + 1)
    BY <1>1, <1>2, <1>5
  <2>2. (c + n) % PageBlocks = 0
    <3>1. c + n \in Nat /\ q + 1 \in Nat
      BY <1>2
    <3> QED
      BY <2>1, <3>1, WholePages
  <2>3. (r + n) % PageBlocks = 0
    <3>1. r + n \in Nat /\ r + n = PageBlocks * 1
      BY <1>1, <1>2, <1>5
    <3> QED
      BY <3>1, WholePages
  <2> QED
    BY <1>2, <2>2, <2>3 DEF PageOffset
<1> QED
  BY <1>1, <1>2, <1>3, <1>4, <1>5

-----------------------------------------------------------------------------
(* Type correctness.                                                       *)

(* Where a call is tells what it works on.                                 *)
CallShape ==
    /\ call.at \in {"create", "loop", "page", "sync", "meta", "advance", "fetch"}
         => call.h \in Handles
    /\ call.at \in {"loop", "page", "sync", "meta", "advance"}
         => call.n <= Len(call.rest)

TypeInv == TypeOK /\ CallShape

LEMMA Constants ==
    /\ SlotCount \in Nat \ {0} /\ PageBlocks \in Nat \ {0}
    /\ EndBlock \in Nat /\ SlotSize \in Nat \ {0} /\ RevMod \in Nat \ {0, 1, 2}
    /\ MaxFaults \in Nat /\ NoHandle \notin Handles
BY LayoutAssumption, SlotFSAssumption

(* An int8_t counts on from -128 behind 127.                               *)
LEMMA Int8Counts ==
    /\ \A n \in Int : Int8(n) \in (-128) .. 127
    /\ \A n \in (-128) .. 127 : Int8(n) = n /\ n + 1 \in Int /\ n - 1 \in Int
BY DEF Int8

LEMMA CountersType ==
    ASSUME NEW counters \in [SlotNumbers -> (-128) .. 127], NEW slot \in SlotNumbers
    PROVE  /\ [counters EXCEPT ![slot] = Int8(@ + 1)] \in [SlotNumbers -> (-128) .. 127]
           /\ [counters EXCEPT ![slot] = Int8(@ - 1)] \in [SlotNumbers -> (-128) .. 127]
<1>1. counters[slot] + 1 \in Int /\ counters[slot] - 1 \in Int
  BY Int8Counts
<1>2. Int8(counters[slot] + 1) \in (-128) .. 127 /\ Int8(counters[slot] - 1) \in (-128) .. 127
  BY <1>1, Int8Counts
<1> QED
  BY <1>2

LEMMA FileFields ==
    ASSUME TypeOK, NEW h \in Handles
    PROVE  /\ file[h].mode \in {"closed", "read", "write"}
           /\ file[h].slot \in SlotNumbers
           /\ file[h].md \in Meta
           /\ file[h].cursor \in Nat
           /\ file[h].page \in [1 .. PageBlocks -> Block]
           /\ file[h].off \in 0 .. PageBlocks
           /\ file[h].failed \in BOOLEAN
<1>1. file[h] \in FileType
  BY DEF TypeOK
<1> QED
  BY <1>1 DEF FileType

(* A file stays one when a field of it is replaced.                        *)
LEMMA FileWith ==
    ASSUME NEW f \in FileType
    PROVE  /\ \A n \in Nat : [f EXCEPT !.cursor = n] \in FileType
           /\ \A n \in 0 .. PageBlocks : [f EXCEPT !.off = n] \in FileType
           /\ \A b \in BOOLEAN : [f EXCEPT !.failed = b] \in FileType
           /\ \A md \in Meta : [f EXCEPT !.md = md] \in FileType
           /\ \A page \in [1 .. PageBlocks -> Block] : [f EXCEPT !.page = page] \in FileType
BY DEF FileType

LEMMA ClearedType ==
    ASSUME NEW f \in FileType
    PROVE  /\ Cleared(f) \in FileType
           /\ \A n \in Nat : [Cleared(f) EXCEPT !.cursor = n] \in FileType
<1>1. Cleared(f) \in FileType
  BY FileWith, Constants DEF Cleared
<1> QED
  BY <1>1, FileWith

LEMMA FileUpdate ==
    ASSUME TypeOK, NEW h \in Handles, NEW g \in FileType, file' = [file EXCEPT ![h] = g]
    PROVE  file' \in [Handles -> FileType]
BY DEF TypeOK

LEMMA CallFields ==
    ASSUME TypeOK
    PROVE  /\ call.at \in CallPoints
           /\ call.h \in Handles \cup {NoHandle}
           /\ call.slot \in SlotNumbers
           /\ call.idx \in {0, 1}
           /\ call.n \in Nat
           /\ call.rest \in Seq(Block)
BY DEF TypeOK, CallType

LEMMA ClosedFileType ==
    /\ ClosedFile \in FileType /\ ClosedFile.mode = "closed"
    /\ Idle \in CallType /\ Idle.at = "idle" /\ Idle.op = "none" /\ Idle.h = NoHandle
<1>1. ZeroMeta \in Meta
  BY Constants DEF ZeroMeta, Meta
<1>2. [i \in 1 .. PageBlocks |-> Blank] \in [1 .. PageBlocks -> Block]
  BY DEF Block
<1> QED
  BY <1>1, <1>2, Constants DEF ClosedFile, FileType, Idle, CallType, CallPoints, SlotNumbers

LEMMA OpenedFileType ==
    ASSUME NEW slot \in SlotNumbers, NEW mode \in {"read", "write"}, NEW md \in Meta
    PROVE  /\ OpenedFile(slot, mode, md) \in FileType
           /\ OpenedFile(slot, mode, md).mode = mode
           /\ OpenedFile(slot, mode, md).slot = slot
           /\ OpenedFile(slot, mode, md).md = md
           /\ OpenedFile(slot, mode, md).cursor = 0
           /\ OpenedFile(slot, mode, md).off = 0
           /\ OpenedFile(slot, mode, md).failed = FALSE
BY ClosedFileType DEF OpenedFile, FileType, ClosedFile

LEMMA FreshMetaType ==
    ASSUME NEW slot \in SlotNumbers, NEW rev \in {0, 1}
    PROVE  FreshMeta(slot, rev) \in Meta
<1>1. SlotSize * slot \in Nat
  BY Constants DEF SlotNumbers
<1> QED
  BY <1>1, Constants DEF FreshMeta, Meta, SlotStart, SlotMax, DataStart

(* A write in flight leaves a device of blocks, however much of it is      *)
(* stored.                                                                 *)
LEMMA StoredType ==
    ASSUME NEW w, w.at \in Int, NEW m \in Nat, w.blocks \in [1 .. m -> Block],
           NEW n \in 0 .. m, disk \in [Addresses -> Block]
    PROVE  Stored(w, n) \in [Addresses -> Block]
<1> SUFFICES ASSUME NEW a \in Addresses
             PROVE  (IF a \in w.at .. w.at + n - 1 THEN w.blocks[a - w.at + 1] ELSE disk[a])
                        \in Block
  BY DEF Stored
<1> QED
  BY Constants DEF Addresses

Writing == {"config", "format", "create", "meta", "page"}

LEMMA FunctionIsSequence ==
    ASSUME NEW S, NEW n \in Nat, NEW p \in [1 .. n -> S]
    PROVE  p \in Seq(S) /\ Len(p) = n
<1>1. p \in Seq(S)
  BY SMTT(20)
<1>2. Len(p) \in Nat /\ DOMAIN p = 1 .. Len(p)
  BY <1>1, LenProperties
<1>3. 1 .. Len(p) = 1 .. n
  BY <1>2
<1> QED
  BY <1>1, <1>2, <1>3

LEMMA OneBlock ==
    ASSUME NEW b \in Block
    PROVE  Len(<<b>>) = 1 /\ <<b>> \in [1 .. 1 -> Block]
OBVIOUS

LEMMA PendingType ==
    ASSUME TypeInv, call.at \in Writing
    PROVE  /\ Pending.at \in Int
           /\ Len(Pending.blocks) \in Nat
           /\ Pending.blocks \in [1 .. Len(Pending.blocks) -> Block]
           /\ call.at = "page" => Len(Pending.blocks) = PageBlocks
           /\ call.at # "page" => Len(Pending.blocks) = 1
<1> USE DEF TypeInv, TypeOK
<1>1. call.slot \in SlotNumbers /\ call.idx \in {0, 1}
  BY DEF CallType
<1>2. MetaBlock(call.slot, call.idx) \in Int
  BY <1>1, Constants DEF MetaBlock, SlotNumbers
<1>3. CASE call.at = "config"
  BY <1>3, OneBlock DEF Pending, ConfigBlock, Block
<1>4. CASE call.at = "format"
  BY <1>4, <1>1, <1>2, FreshMetaType, OneBlock DEF Pending, Block
<1>5. CASE call.at = "create"
  BY <1>5, <1>1, <1>2, FreshMetaType, OneBlock DEF Pending, Block
<1>6. CASE call.at = "meta"
  <2>1. file[call.h].md \in Meta /\ file[call.h].slot \in SlotNumbers
    BY <1>6, FileFields DEF CallShape
  <2>2. file[call.h].md \in Block /\ MetaBlock(file[call.h].slot, call.idx) \in Int
    BY <2>1, <1>1, Constants DEF Block, MetaBlock, SlotNumbers
  <2>3. Pending = [at |-> MetaBlock(file[call.h].slot, call.idx),
                   blocks |-> <<file[call.h].md>>]
    BY <1>6 DEF Pending
  <2>4. /\ Len(<<file[call.h].md>>) = 1
        /\ <<file[call.h].md>> \in [1 .. 1 -> Block]
    BY <2>2, OneBlock
  <2>5. Pending.at = MetaBlock(file[call.h].slot, call.idx)
        /\ Pending.blocks = <<file[call.h].md>>
    BY <2>3
  <2> HIDE DEF TypeInv, TypeOK
  <2> QED
    BY <1>6, <2>2, <2>4, <2>5
<1>7. CASE call.at = "page"
  <2> DEFINE f == file[call.h]
  <2>2. f.page \in [1 .. PageBlocks -> Block] /\ f.cursor \in Nat /\ f.md.start \in Nat
    BY <1>7, FileFields DEF CallShape, Meta
  <2>3. PageAddress(f.md.start, f.cursor) \in Int
    BY <2>2, Constants DEF PageAddress
  <2>4. Pending = [at |-> PageAddress(f.md.start, f.cursor), blocks |-> f.page]
    BY <1>7 DEF Pending
  <2>5. f.page \in Seq(Block) /\ Len(f.page) = PageBlocks
    <3> HIDE DEF f
    <3> QED
      BY <2>2, Constants, FunctionIsSequence
  <2> QED
    BY <1>7, <2>2, <2>3, <2>4, <2>5, Constants
<1> QED
  BY <1>3, <1>4, <1>5, <1>6, <1>7 DEF Writing

(* A device write keeps the device one of blocks, done or cut short.       *)
LEMMA WriteOkType ==
    ASSUME TypeInv, call.at \in Writing, WriteOk
    PROVE  disk' \in [Addresses -> Block] /\ faults' = faults
<1>1. disk \in [Addresses -> Block]
  BY DEF TypeInv, TypeOK
<1>2. /\ Pending.at \in Int /\ Len(Pending.blocks) \in Nat
      /\ Pending.blocks \in [1 .. Len(Pending.blocks) -> Block]
  BY PendingType
<1>3. Stored(Pending, Len(Pending.blocks)) \in [Addresses -> Block]
  BY <1>1, <1>2, StoredType
<1> QED
  BY <1>3 DEF WriteOk

LEMMA FaultType ==
    ASSUME TypeOK, NEW kind, Fault(kind)
    PROVE  faults' \in 0 .. MaxFaults
BY Constants DEF TypeOK, Fault

LEMMA WriteFailsType ==
    ASSUME TypeOK, NEW kind, WriteFails(kind)
    PROVE  disk' \in [Addresses -> Block] /\ faults' \in 0 .. MaxFaults
BY FaultType DEF WriteFails, TypeOK

LEMMA CutShortType ==
    ASSUME TypeInv, call.at \in Writing
    PROVE  CutShort \subseteq [Addresses -> Block]
<1>a. disk \in [Addresses -> Block]
  BY DEF TypeInv, TypeOK
<1>b. /\ Pending.at \in Int /\ Len(Pending.blocks) \in Nat
      /\ Pending.blocks \in [1 .. Len(Pending.blocks) -> Block]
  BY PendingType
<1>1. \A n \in 0 .. Len(Pending.blocks) - 1 : Stored(Pending, n) \in [Addresses -> Block]
  BY <1>a, <1>b, StoredType
<1>2. [disk EXCEPT ![Pending.at] = Garbled] \in [Addresses -> Block]
  BY DEF TypeInv, TypeOK, Block
<1> QED
  BY <1>1, <1>2 DEF CutShort

LEMMA ReadMetaType ==
    ASSUME TypeOK, NEW slot \in SlotNumbers, NEW readable \in SUBSET ValidIdx(slot),
           readable # {}
    PROVE  /\ MostRecentIdx(slot, readable) \in ValidIdx(slot)
           /\ ReadMeta(slot, readable) \in Meta
<1>1. MostRecentIdx(slot, readable) \in readable
  BY DEF MostRecentIdx, ValidIdx
<1> QED
  BY <1>1 DEF ReadMeta, ValidIdx

Ops == {"init", "format", "open", "write", "flush", "allocate", "close", "read"}

LEMMA StartType ==
    ASSUME NEW op \in Ops, NEW at \in CallPoints, NEW h \in Handles \cup {NoHandle}
    PROVE  /\ Start(op, at, h) \in CallType
           /\ Start(op, at, h).op = op
           /\ Start(op, at, h).at = at
           /\ Start(op, at, h).h = h
           /\ Start(op, at, h).n = 0 /\ Start(op, at, h).rest = <<>>
BY ClosedFileType DEF Start, Idle, CallType, Ops

(* What an action may do to the parts of the state that have a type.       *)
FrameFiles == UNCHANGED <<disk, mounted, lock_counters, file>>

LEMMA IdleShape ==
    ASSUME call' = Idle
    PROVE  call' \in CallType /\ CallShape'
BY ClosedFileType DEF CallShape

(* A device of any content, with the file system not mounted, has its types. *)
THEOREM TypeInit == Init => TypeInv
<1> SUFFICES ASSUME Init PROVE TypeInv
  OBVIOUS
<1>1. disk \in [Addresses -> Block]
  BY DEF Init, Block
<1>2. file \in [Handles -> FileType]
  BY ClosedFileType DEF Init
<1>3. call \in CallType /\ CallShape
  BY ClosedFileType DEF Init, CallShape
<1>4. lock_counters \in [SlotNumbers -> (-128) .. 127]
  BY DEF Init
<1>5. mounted \in BOOLEAN
  BY DEF Init
<1>6. faults \in 0 .. MaxFaults
  BY Constants DEF Init
<1> QED
  BY <1>1, <1>2, <1>3, <1>4, <1>5, <1>6 DEF TypeInv, TypeOK

LEMMA TypeMount ==
    ASSUME TypeInv, SfsInit \/ SfsFormat \/ SfsDeinit
    PROVE  TypeInv'
<1> USE DEF TypeInv, TypeOK
<1>1. Start("init", "config", NoHandle) \in CallType
      /\ Start("init", "config", NoHandle).at = "config"
      /\ Start("format", "config", NoHandle) \in CallType
      /\ Start("format", "config", NoHandle).at = "config"
  BY StartType DEF Ops, CallPoints
<1>2. CASE SfsInit
  <2>1. call' \in CallType /\ CallShape'
    BY <1>1, <1>2 DEF SfsInit, CallShape
  <2>2. faults' \in 0 .. MaxFaults
    BY <1>2, FaultType DEF SfsInit
  <2>3. lock_counters' \in [SlotNumbers -> (-128) .. 127]
    BY <1>2 DEF SfsInit
  <2> QED
    BY <1>2, <2>1, <2>2, <2>3 DEF SfsInit
<1>3. CASE SfsFormat
  <2>1. call' \in CallType /\ CallShape'
    BY <1>1, <1>3 DEF SfsFormat, CallShape
  <2> QED
    BY <1>3, <2>1 DEF SfsFormat
<1>4. CASE SfsDeinit
  BY <1>4 DEF SfsDeinit, CallShape
<1> QED
  BY <1>2, <1>3, <1>4

LEMMA TypeFormatConfig ==
    ASSUME TypeInv, FormatConfig
    PROVE  TypeInv'
<1> USE DEF FormatConfig
<1>1. disk' \in [Addresses -> Block] /\ faults' \in 0 .. MaxFaults
  BY WriteOkType, WriteFailsType DEF Writing, TypeInv, TypeOK
<1>2. call' \in CallType /\ CallShape'
  <2>1. CASE call' = [call EXCEPT !.at = "format"]
    BY <2>1 DEF TypeInv, TypeOK, CallType, CallPoints, CallShape
  <2>2. CASE call' = Idle
    BY <2>2, IdleShape
  <2> QED
    BY <2>1, <2>2 DEF Return
<1> QED
  BY <1>1, <1>2 DEF TypeInv, TypeOK

LEMMA TypeFormatMeta ==
    ASSUME TypeInv, FormatMeta
    PROVE  TypeInv'
<1> USE DEF FormatMeta
<1>1. disk' \in [Addresses -> Block] /\ faults' \in 0 .. MaxFaults
  BY WriteOkType, WriteFailsType DEF Writing, TypeInv, TypeOK
<1>2. call' \in CallType /\ CallShape'
  <2>1. CASE call' = [call EXCEPT !.idx = 1]
    BY <2>1 DEF TypeInv, TypeOK, CallType, CallShape
  <2>2. CASE call.slot + 1 < SlotCount /\ call' = [call EXCEPT !.idx = 0, !.slot = @ + 1]
    <3>1. call.slot + 1 \in SlotNumbers
      BY <2>2, CallFields, Constants DEF SlotNumbers, TypeInv
    <3> QED
      BY <2>2, <3>1 DEF TypeInv, TypeOK, CallType, CallShape
  <2>3. CASE call' = Idle
    BY <2>3, IdleShape
  <2> QED
    BY <2>1, <2>2, <2>3 DEF Return
<1> QED
  BY <1>1, <1>2 DEF TypeInv, TypeOK

LEMMA TypeOpen ==
    ASSUME TypeInv, NEW h \in Handles, NEW slot \in SlotNumbers,
           OpenRead(h, slot) \/ OpenWrite(h, slot)
    PROVE  TypeInv'
<1> USE DEF TypeInv, TypeOK
<1>1. CASE OpenRead(h, slot)
  <2>1. PICK readable \in SUBSET ValidIdx(slot) :
             /\ ReadsAs(slot, readable)
             /\ \/ /\ readable # {}
                   /\ file' = [file EXCEPT
                                  ![h] = OpenedFile(slot, "read", ReadMeta(slot, readable))]
                   /\ lock_counters' = [lock_counters EXCEPT ![slot] = Int8(@ + 1)]
                \/ UNCHANGED <<file, lock_counters>>
    BY <1>1 DEF OpenRead
  <2>2. faults' \in 0 .. MaxFaults
    BY <2>1, FaultType DEF ReadsAs
  <2>3. file' \in [Handles -> FileType]
    <3>1. CASE readable # {}
      <4>1. ReadMeta(slot, readable) \in Meta
        BY <3>1, ReadMetaType
      <4>2. OpenedFile(slot, "read", ReadMeta(slot, readable)) \in FileType
        BY <4>1, OpenedFileType
      <4> QED
        BY <2>1, <4>2
    <3> QED
      BY <2>1, <3>1
  <2>4. lock_counters' \in [SlotNumbers -> (-128) .. 127]
    BY <2>1, Int8Counts
  <2> QED
    BY <1>1, <2>2, <2>3, <2>4 DEF OpenRead, CallShape
<1>2. CASE OpenWrite(h, slot)
  <2>1. call' \in CallType /\ CallShape'
    <3>1. CASE call' = [Start("open", "create", h) EXCEPT !.slot = slot]
      <4> DEFINE c == Start("open", "create", h)
      <4>1. c \in CallType /\ c.at = "create" /\ c.h = h
        BY StartType DEF Ops, CallPoints
      <4> HIDE DEF c
      <4> QED
        BY <3>1, <4>1 DEF CallType, CallShape, c
    <3> QED
      BY <1>2, <3>1 DEF OpenWrite, CallShape
  <2> QED
    BY <1>2, <2>1 DEF OpenWrite
<1> QED
  BY <1>1, <1>2

LEMMA TypeCreateMeta ==
    ASSUME TypeInv, CreateMeta
    PROVE  TypeInv'
<1> USE DEF CreateMeta
<1>1. disk' \in [Addresses -> Block] /\ faults' \in 0 .. MaxFaults
  BY WriteOkType, WriteFailsType DEF Writing, TypeInv, TypeOK
<1>2. call.slot \in SlotNumbers /\ call.h \in Handles
  BY CallFields DEF TypeInv, CallShape
<1>3. call' \in CallType /\ CallShape'
  <2>1. CASE call' = [call EXCEPT !.idx = 1]
    BY <2>1 DEF TypeInv, TypeOK, CallType, CallShape
  <2>2. CASE call' = Idle
    BY <2>2, IdleShape
  <2> QED
    BY <2>1, <2>2 DEF Return
<1>4. file' \in [Handles -> FileType]
  <2>1. OpenedFile(call.slot, "write", FreshMeta(call.slot, 1)) \in FileType
    <3>1. FreshMeta(call.slot, 1) \in Meta
      BY <1>2, FreshMetaType
    <3> QED
      BY <1>2, <3>1, OpenedFileType
  <2> QED
    BY <1>2, <2>1 DEF TypeInv, TypeOK
<1>5. lock_counters' \in [SlotNumbers -> (-128) .. 127]
  <2>1. \/ UNCHANGED lock_counters
        \/ lock_counters' = [lock_counters EXCEPT ![call.slot] = Int8(@ + 1)]
    OBVIOUS
  <2>2. lock_counters \in [SlotNumbers -> (-128) .. 127]
    BY DEF TypeInv, TypeOK
  <2> HIDE DEF CreateMeta
  <2>3. CASE UNCHANGED lock_counters
    BY <2>2, <2>3
  <2>4. CASE lock_counters' = [lock_counters EXCEPT ![call.slot] = Int8(@ + 1)]
    BY <1>2, <2>2, <2>4, CountersType
  <2> QED
    BY <2>1, <2>3, <2>4
<1> QED
  BY <1>1, <1>3, <1>4, <1>5 DEF TypeInv, TypeOK

LEMMA TypeWrite ==
    ASSUME TypeInv, NEW h \in Handles, NEW blocks \in Requests, Write(h, blocks)
    PROVE  TypeInv'
<1> DEFINE c == Start("write", "loop", h)
<1>1. c \in CallType /\ c.at = "loop" /\ c.h = h /\ c.n = 0
  BY StartType DEF Ops, CallPoints
<1>2. blocks \in Seq(Block)
  BY Constants, SlotFSAssumption DEF Requests, Block
<1>3. call' = [c EXCEPT !.rest = blocks]
  BY DEF Write
<1> HIDE DEF c
<1>4. call' \in CallType /\ CallShape'
  BY <1>1, <1>2, <1>3 DEF CallType, CallShape
<1> QED
  BY <1>4 DEF Write, TypeInv, TypeOK

LEMMA TypeWriteLoop ==
    ASSUME TypeInv, WriteLoop
    PROVE  TypeInv'
<1> DEFINE h == call.h
           f == file[h]
           avail == PageBlocks - f.off
           n == IF Len(call.rest) < avail THEN Len(call.rest) ELSE avail
           page == [i \in 1 .. PageBlocks |-> IF i \in f.off + 1 .. f.off + n
                                              THEN call.rest[i - f.off] ELSE f.page[i]]
<1>1. h \in Handles /\ call.rest \in Seq(Block) /\ Len(call.rest) \in Nat
  BY CallFields DEF WriteLoop, TypeInv, CallShape
<1>2. f.off \in 0 .. PageBlocks /\ f.page \in [1 .. PageBlocks -> Block] /\ f \in FileType
  BY <1>1, FileFields DEF TypeInv, TypeOK
<1>3. n \in Nat /\ n <= Len(call.rest) /\ f.off + n \in 0 .. PageBlocks
  <2>1. PageBlocks - f.off \in Nat
    BY <1>2, Constants
  <2> QED
    BY <1>1, <1>2, <2>1, Constants
<1>4. page \in [1 .. PageBlocks -> Block]
  <2> SUFFICES ASSUME NEW i \in 1 .. PageBlocks
               PROVE  (IF i \in f.off + 1 .. f.off + n THEN call.rest[i - f.off] ELSE f.page[i])
                          \in Block
    OBVIOUS
  <2>1. CASE i \in f.off + 1 .. f.off + n
    <3>1. i - f.off \in 1 .. Len(call.rest)
      <4>1. f.off \in Nat /\ i \in Int
        BY <1>2, Constants
      <4> HIDE DEF f, n
      <4> QED
        BY <4>1, <2>1, <1>1, <1>3
    <3>2. call.rest[i - f.off] \in Block
      BY <3>1, <1>1
    <3> QED
      BY <3>2, <2>1
  <2> QED
    BY <2>1, <1>2
<1>5. \/ call' = Idle /\ UNCHANGED file
      \/ /\ file' = [file EXCEPT ![h].page = page, ![h].off = f.off + n]
         /\ call' = [call EXCEPT !.n = n,
                                 !.at = IF f.off + n = PageBlocks THEN "page" ELSE "advance"]
  BY DEF WriteLoop, Return
<1> HIDE DEF n, page
<1>6. file' \in [Handles -> FileType]
  <2>1. [[f EXCEPT !.page = page] EXCEPT !.off = f.off + n] \in FileType
    BY <1>2, <1>3, <1>4, FileWith
  <2>2. \/ UNCHANGED file
        \/ file' = [file EXCEPT ![h] = [[f EXCEPT !.page = page] EXCEPT !.off = f.off + n]]
    BY <1>1, <1>2, <1>5 DEF TypeInv, TypeOK
  <2> HIDE DEF f, h
  <2> QED
    BY <1>1, <2>1, <2>2, FileUpdate DEF TypeInv, TypeOK
<1>7. call' \in CallType /\ CallShape'
  BY <1>1, <1>3, <1>5, IdleShape DEF TypeInv, TypeOK, CallType, CallPoints, CallShape
<1> QED
  BY <1>6, <1>7 DEF WriteLoop, TypeInv, TypeOK

LEMMA TypeWritePage ==
    ASSUME TypeInv, WritePage
    PROVE  TypeInv'
<1> USE DEF WritePage
<1>1. disk' \in [Addresses -> Block] /\ faults' \in 0 .. MaxFaults
  BY WriteOkType, WriteFailsType DEF Writing, TypeInv, TypeOK
<1>2. call.h \in Handles
  BY DEF TypeInv, CallShape
<1>3. call' \in CallType /\ CallShape'
  BY IdleShape DEF TypeInv, TypeOK, CallType, CallPoints, CallShape, Return
<1>4. file' \in [Handles -> FileType]
  <2> DEFINE f == file[call.h]
  <2>1. f \in FileType /\ f.failed \in BOOLEAN
    BY <1>2, FileFields DEF TypeInv, TypeOK
  <2>2. CASE file' = [file EXCEPT ![call.h] = Cleared(f)]
    BY <1>2, <2>1, <2>2, ClearedType, FileUpdate DEF TypeInv
  <2>3. CASE file' = [file EXCEPT ![call.h].failed = @ \/ call.op = "write"]
    <3>1. (f.failed \/ call.op = "write") \in BOOLEAN
      OBVIOUS
    <3>2. [f EXCEPT !.failed = @ \/ call.op = "write"] \in FileType
      BY <2>1, <3>1 DEF FileType
    <3>3. file' = [file EXCEPT ![call.h] = [f EXCEPT !.failed = @ \/ call.op = "write"]]
      BY <1>2, <2>3 DEF TypeInv, TypeOK
    <3> QED
      BY <1>2, <3>2, <3>3, FileUpdate DEF TypeInv
  <2> QED
    BY <2>2, <2>3 DEF TypeInv, TypeOK
<1> QED
  BY <1>1, <1>3, <1>4 DEF TypeInv, TypeOK

LEMMA TypeAdvance ==
    ASSUME TypeInv, Advance
    PROVE  TypeInv'
<1> DEFINE f == file[call.h]
           rest == SubSeq(call.rest, call.n + 1, Len(call.rest))
<1>1. call.h \in Handles /\ call.n \in Nat /\ call.n <= Len(call.rest)
      /\ call.rest \in Seq(Block)
  BY CallFields DEF Advance, TypeInv, CallShape
<1>2. rest \in Seq(Block) /\ Len(rest) \in Nat
  BY <1>1
<1>3. call' \in CallType /\ CallShape'
  <2>1. call' = [call EXCEPT !.at = "loop", !.n = 0, !.rest = rest]
    BY DEF Advance
  <2> HIDE DEF rest
  <2>2. call' \in CallType
    BY <1>2, <2>1 DEF TypeInv, TypeOK, CallType, CallPoints
  <2>3. call'.h = call.h /\ call'.n = 0 /\ call'.rest = rest
    BY <2>1 DEF TypeInv, TypeOK, CallType
  <2> QED
    BY <1>1, <1>2, <2>2, <2>3 DEF CallShape
<1>4. file' \in [Handles -> FileType]
  <2>1. f \in FileType /\ f.cursor \in Nat
    BY <1>1, FileFields DEF TypeInv, TypeOK
  <2>2. [f EXCEPT !.cursor = f.cursor + call.n] \in FileType
    <3> HIDE DEF f
    <3>1. f.cursor + call.n \in Nat
      BY <1>1, <2>1
    <3> QED
      BY <2>1, <3>1, FileWith
  <2>3. file' = [file EXCEPT ![call.h] = [f EXCEPT !.cursor = f.cursor + call.n]]
    BY <1>1 DEF Advance, TypeInv, TypeOK
  <2> QED
    BY <1>1, <2>2, <2>3, FileUpdate DEF TypeInv
<1> QED
  BY <1>3, <1>4 DEF Advance, TypeInv, TypeOK

LEMMA TypeFlush ==
    ASSUME TypeInv, NEW h \in Handles, NEW size \in Nat,
           Flush(h) \/ Allocate(h, size) \/ Close(h)
    PROVE  TypeInv'
<1> USE DEF TypeInv, TypeOK
<1>1. \A op \in {"flush", "allocate", "close"} : \A at \in {"page", "sync"} :
          call' = Start(op, at, h) => call' \in CallType /\ CallShape'
  <2> TAKE op \in {"flush", "allocate", "close"}, at \in {"page", "sync"}
  <2> HAVE call' = Start(op, at, h)
  <2>1. /\ Start(op, at, h) \in CallType /\ Start(op, at, h).at = at
        /\ Start(op, at, h).h = h /\ Start(op, at, h).n = 0
        /\ Start(op, at, h).rest = <<>>
    BY StartType DEF Ops, CallPoints
  <2> QED
    BY <2>1 DEF CallShape
<1>2. CASE Flush(h)
  BY <1>1, <1>2 DEF Flush, FlushPoint
<1>3. CASE Allocate(h, size)
  <2>1. file' \in [Handles -> FileType]
    <3>1. [Cleared(file[h]) EXCEPT !.cursor = size] \in FileType
      BY ClearedType
    <3> QED
      BY <1>3, <3>1, FileUpdate DEF Allocate
  <2> QED
    BY <1>1, <1>3, <2>1 DEF Allocate
<1>4. CASE Close(h)
  <2>1. CASE file[h].mode = "write"
    BY <1>1, <1>4, <2>1 DEF Close, FlushPoint
  <2>2. CASE file[h].mode = "read"
    <3>1. file[h].slot \in SlotNumbers
      BY FileFields DEF TypeInv
    <3>2. lock_counters' \in [SlotNumbers -> (-128) .. 127]
      <4>1. lock_counters' = [lock_counters EXCEPT ![file[h].slot] = Int8(@ - 1)]
        BY <1>4, <2>2 DEF Close
      <4>2. lock_counters \in [SlotNumbers -> (-128) .. 127]
        BY DEF TypeInv, TypeOK
      <4> QED
        BY <3>1, <4>1, <4>2, CountersType
    <3>3. file' \in [Handles -> FileType]
      BY <1>4, <2>2, ClosedFileType DEF Close, TypeInv, TypeOK
    <3> QED
      BY <1>4, <2>2, <3>2, <3>3, ClosedFileType DEF Close, Ready, CallShape, TypeInv, TypeOK
  <2> QED
    BY <1>4, <2>1, <2>2 DEF Close
<1> QED
  BY <1>2, <1>3, <1>4

LEMMA TypeSync ==
    ASSUME TypeInv, Sync
    PROVE  TypeInv'
<1> DEFINE h == call.h
           f == file[h]
<1>1. h \in Handles
  BY DEF Sync, TypeInv, CallShape
<1>2. f.md \in Meta /\ f.cursor \in Nat /\ f \in FileType
  BY <1>1, FileFields DEF TypeInv, TypeOK
<1>3. (f.md.rev + 1) % RevMod \in 0 .. RevMod - 1
  BY <1>2, Constants DEF Meta
<1>4. file' = [file EXCEPT ![h].md.size = f.cursor, ![h].md.rev = (f.md.rev + 1) % RevMod]
  BY DEF Sync
<1>5. file' \in [Handles -> FileType]
  BY <1>1, <1>2, <1>3, <1>4 DEF TypeInv, TypeOK, FileType, Meta
<1>6. PICK readable \in SUBSET ValidIdx(f.slot) :
          /\ ReadsAs(f.slot, readable)
          /\ \/ call' = [call EXCEPT !.at = "meta", !.idx = OtherIdx(f.slot, readable)]
             \/ call' = Idle
             \/ call' = [call EXCEPT !.at = "advance"]
  BY DEF Sync, Return
<1>7. faults' \in 0 .. MaxFaults
  BY <1>6, FaultType DEF ReadsAs, TypeInv, TypeOK
<1>8. OtherIdx(f.slot, readable) \in {0, 1}
  BY DEF OtherIdx, MostRecentIdx
<1>9. call' \in CallType /\ CallShape'
  <2> HIDE DEF h, f
  <2> QED
    BY <1>6, <1>8, IdleShape DEF Sync, TypeInv, TypeOK, CallType, CallPoints, CallShape
<1> QED
  BY <1>5, <1>7, <1>9 DEF Sync, TypeInv, TypeOK

LEMMA TypeSyncMeta ==
    ASSUME TypeInv, SyncMeta
    PROVE  TypeInv'
<1> USE DEF SyncMeta
<1>1. disk' \in [Addresses -> Block] /\ faults' \in 0 .. MaxFaults
  BY WriteOkType, WriteFailsType DEF Writing, TypeInv, TypeOK
<1>2. call.h \in Handles /\ file[call.h].slot \in SlotNumbers
  BY FileFields DEF TypeInv, CallShape
<1>3. call' \in CallType /\ CallShape'
  BY IdleShape DEF TypeInv, TypeOK, CallType, CallPoints, CallShape, Return
<1>4. file' \in [Handles -> FileType]
  BY ClosedFileType DEF TypeInv, TypeOK
<1>5. lock_counters' \in [SlotNumbers -> (-128) .. 127]
  BY <1>2, CountersType DEF TypeInv, TypeOK
<1> QED
  BY <1>1, <1>3, <1>4, <1>5 DEF TypeInv, TypeOK

LEMMA TypeRead ==
    ASSUME TypeInv, NEW h \in Handles, NEW n \in Nat, Seek(h, n) \/ Read(h, n)
    PROVE  TypeInv'
<1>1. CASE Seek(h, n)
  <2>1. file' \in [Handles -> FileType]
    <3>1. file[h] \in FileType
      BY DEF TypeInv, TypeOK
    <3>2. [Cleared(file[h]) EXCEPT !.cursor = n] \in FileType
      BY <3>1, ClearedType
    <3> QED
      BY <1>1, <3>2, FileUpdate DEF Seek, TypeInv
  <2> QED
    BY <1>1, <2>1 DEF Seek, TypeInv, TypeOK, CallShape
<1>2. CASE Read(h, n)
  <2> DEFINE c == Start("read", "fetch", h)
  <2>1. c \in CallType /\ c.at = "fetch" /\ c.h = h
    BY StartType DEF Ops, CallPoints
  <2>2. call' = [c EXCEPT !.n = n]
    BY <1>2 DEF Read
  <2> HIDE DEF c
  <2>3. call' \in CallType /\ CallShape'
    BY <2>1, <2>2 DEF CallType, CallShape
  <2> QED
    BY <1>2, <2>3 DEF Read, TypeInv, TypeOK
<1> QED
  BY <1>1, <1>2

LEMMA LeastOfThree ==
    ASSUME NEW a \in Nat, NEW b \in Nat, NEW c \in Nat, NEW m,
           m = CHOOSE k \in {a, b, c} : k <= a /\ k <= b /\ k <= c
    PROVE  m \in Nat /\ m <= a /\ m <= b /\ m <= c
<1>1. \E k \in {a, b, c} : k <= a /\ k <= b /\ k <= c
  OBVIOUS
<1> QED
  BY <1>1

LEMMA TypeReadLoop ==
    ASSUME TypeInv, ReadLoop
    PROVE  TypeInv'
<1> DEFINE h == call.h
           f == file[h]
           load == f.off = 0 \/ f.off = PageBlocks
           at == PageAddress(f.md.start, f.cursor)
           off == IF load THEN PageOffset(f.cursor) ELSE f.off
           n == CHOOSE k \in {call.n, f.md.size - f.cursor, PageBlocks - off} :
                    k <= call.n /\ k <= f.md.size - f.cursor /\ k <= PageBlocks - off
           page == IF load THEN [i \in 1 .. PageBlocks |-> disk[at + i - 1]] ELSE f.page
<1>1. h \in Handles
  BY DEF ReadLoop, TypeInv, CallShape
<1>2. /\ f \in FileType /\ f.cursor \in Nat /\ f.md \in Meta
      /\ f.off \in 0 .. PageBlocks /\ f.page \in [1 .. PageBlocks -> Block]
      /\ call.n \in Nat /\ call.rest \in Seq(Block) /\ call \in CallType
  BY <1>1, FileFields, CallFields DEF TypeInv, TypeOK
<1>3. f.md.size \in Nat /\ f.md.start \in Nat
  BY <1>2 DEF Meta
<1>4. \/ call' = Idle /\ UNCHANGED <<file, faults>>
      \/ call' = Idle /\ UNCHANGED file /\ (Fault("read") \/ UNCHANGED faults)
      \/ /\ call.n > 0 /\ ~AtEnd(f)
         /\ load => at + PageBlocks - 1 \in Addresses
         /\ file' = [file EXCEPT ![h].page = page, ![h].off = off + n, ![h].cursor = @ + n]
         /\ call' = [call EXCEPT !.n = @ - n,
                                 !.rest = @ \o SubSeq(page, off + 1, off + n)]
         /\ UNCHANGED faults
  BY DEF ReadLoop, Return
<1>5. faults' \in 0 .. MaxFaults
  BY <1>4, FaultType DEF TypeInv, TypeOK
<1>6. CASE /\ call.n > 0 /\ ~AtEnd(f)
           /\ load => at + PageBlocks - 1 \in Addresses
           /\ file' = [file EXCEPT ![h].page = page, ![h].off = off + n, ![h].cursor = @ + n]
           /\ call' = [call EXCEPT !.n = @ - n,
                                   !.rest = @ \o SubSeq(page, off + 1, off + n)]
  <2>1. off \in 0 .. PageBlocks - 1
    BY <1>2, Constants DEF PageOffset
  <2>2. /\ n \in Nat /\ n <= call.n /\ n <= PageBlocks - off
    <3> DEFINE x == f.md.size - f.cursor
               y == PageBlocks - off
    <3>1. n = CHOOSE k \in {call.n, x, y} : k <= call.n /\ k <= x /\ k <= y
      OBVIOUS
    <3>2. x \in Nat
      <4>1. ~AtEnd(f)
        BY <1>6
      <4> HIDE DEF f
      <4> QED
        BY <1>2, <1>3, <4>1 DEF AtEnd
    <3>3. y \in Nat
      <4> HIDE DEF off
      <4> QED
        BY <2>1, Constants
    <3> HIDE DEF n, x, y
    <3>4. n \in Nat /\ n <= call.n /\ n <= y
      BY <1>2, <3>1, <3>2, <3>3, LeastOfThree
    <3> QED
      BY <3>4 DEF y
  <2>3. page \in [1 .. PageBlocks -> Block]
    <3>1. CASE load
      <4>1. at \in Nat
        BY <1>2, <1>3, PageAddressNat
      <4>3. at + PageBlocks - 1 \in Addresses
        BY <1>6, <3>1
      <4> HIDE DEF at
      <4>2. \A i \in 1 .. PageBlocks : disk[at + i - 1] \in Block
        BY <4>1, <4>3, Constants DEF TypeInv, TypeOK, Addresses
      <4> QED
        BY <3>1, <4>2
    <3> QED
      BY <1>2, <3>1
  <2> HIDE DEF off, n, page
  <2>4. file' \in [Handles -> FileType]
    <3> DEFINE g == [[[f EXCEPT !.page = page] EXCEPT !.off = off + n]
                          EXCEPT !.cursor = f.cursor + n]
    <3>1. file' = [file EXCEPT ![h] = g]
      BY <1>1, <1>2, <1>6 DEF TypeInv, TypeOK, FileType
    <3>2. g \in FileType
      <4> HIDE DEF f
      <4>1. off + n \in 0 .. PageBlocks /\ f.cursor + n \in Nat
        BY <1>2, <2>1, <2>2, Constants
      <4> QED
        BY <1>2, <2>3, <4>1, FileWith
    <3> QED
      BY <1>1, <3>1, <3>2, FileUpdate DEF TypeInv
  <2>5. call' \in CallType
    <3>1. page \in Seq(Block) /\ Len(page) = PageBlocks
      BY <2>3, Constants
    <3>2. SubSeq(page, off + 1, off + n) \in Seq(Block)
      BY <3>1, <2>1, <2>2, Constants
    <3>3. call.rest \o SubSeq(page, off + 1, off + n) \in Seq(Block)
      BY <1>2, <3>2
    <3>4. call.n - n \in Nat
      BY <1>2, <2>2
    <3> QED
      BY <1>2, <1>6, <3>3, <3>4 DEF CallType
  <2>6. CallShape'
    BY <1>1, <1>2, <1>6 DEF ReadLoop, CallShape, CallType
  <2> QED
    BY <1>5, <2>4, <2>5, <2>6 DEF ReadLoop, TypeInv, TypeOK
<1>7. CASE call' = Idle /\ UNCHANGED file
  <2>1. call' \in CallType /\ CallShape'
    BY <1>7, IdleShape
  <2> QED
    BY <1>5, <1>7, <2>1 DEF ReadLoop, TypeInv, TypeOK
<1> QED
  BY <1>4, <1>6, <1>7

LEMMA TypePowerLoss ==
    ASSUME TypeInv, PowerLoss
    PROVE  TypeInv'
<1>1. disk' \in [Addresses -> Block]
  BY CutShortType DEF PowerLoss, TypeInv, TypeOK, Writing
<1>2. file' \in [Handles -> FileType]
  BY ClosedFileType DEF PowerLoss
<1>3. call' \in CallType /\ CallShape'
  BY IdleShape DEF PowerLoss
<1>4. lock_counters' \in [SlotNumbers -> (-128) .. 127] /\ faults' \in 0 .. MaxFaults
  BY FaultType DEF PowerLoss, TypeInv
<1> QED
  BY <1>1, <1>2, <1>3, <1>4 DEF PowerLoss, TypeInv, TypeOK

(* The types hold in every reachable state.                                *)
THEOREM TypeStep == TypeInv /\ [Next]_vars => TypeInv'
<1> SUFFICES ASSUME TypeInv, [Next]_vars PROVE TypeInv'
  OBVIOUS
<1>1. CASE Step
  BY <1>1, TypeFormatConfig, TypeFormatMeta, TypeCreateMeta, TypeWriteLoop, TypeWritePage,
     TypeAdvance, TypeSync, TypeSyncMeta, TypeReadLoop DEF Step
<1>2. CASE Call
  <2>1. ClientSlots \subseteq SlotNumbers
    BY Constants DEF ClientSlots, Slots, SlotNumbers
  <2>2. \A n \in 0 .. SlotSize + 1 : n \in Nat
    BY Constants
  <2> QED
    BY <1>2, <2>1, <2>2, TypeMount, TypeOpen, TypeWrite, TypeFlush, TypeRead, Constants DEF Call
<1>3. CASE PowerLoss
  BY <1>3, TypePowerLoss
<1>4. CASE UNCHANGED vars
  BY <1>4 DEF vars, TypeInv, TypeOK, CallShape
<1> QED
  BY <1>1, <1>2, <1>3, <1>4 DEF Next

(* Whatever fails and whenever power is lost, the device, the files, the   *)
(* counters and the step a call is at keep their types.                    *)
THEOREM TypeCorrect == Spec => []TypeOK
<1>1. TypeInv => TypeOK
  BY DEF TypeInv
<1> QED
  BY TypeInit, TypeStep, <1>1, PTL DEF Spec

=============================================================================
