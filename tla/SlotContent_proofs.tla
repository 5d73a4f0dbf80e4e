------------------------- MODULE SlotContent_proofs -------------------------
(***************************************************************************)
(* What is in the slots: the counters of open files, what readers see and  *)
(* are given of a file beside its writer, what is found of a file after    *)
(* any fault, what is there after a power loss, and that SlotFS implements *)
(* SlotStore.  The application is careful and has no more File objects     *)
(* than an int8_t counts; for all but the counters, slots are whole        *)
(* numbers of pages, or there is one slot only: the last page of a slot    *)
(* may be written over what is behind it (SlotsAreIsolated).               *)
(***************************************************************************)
EXTENDS SlotIsolation_proofs, FiniteSetTheorems

(* No counter of open files can wrap.                                      *)
FewFiles == Cardinality(Handles) <= 127

SeparateSlots == Careful /\ FewFiles /\ (SlotSize % PageBlocks = 0 \/ SlotCount = 1)

-----------------------------------------------------------------------------
(* The inductive invariant: who has a slot open.                           *)

LockInv ==
    /\ Careful /\ FewFiles
    /\ LocksCountOpenFiles
    /\ ~mounted => NoneOpen
    /\ call.at = "create" => /\ mounted /\ ~IsOpen(call.h)
                             /\ lock_counters[call.slot] = 0
    /\ call.op = "close" => call.h \in Handles /\ IsOpen(call.h)

-----------------------------------------------------------------------------
(* The inductive invariant: what is in the slots.                          *)

Histories ==
    /\ written \in [SlotNumbers -> Seq(Block)]
    /\ acked \in [SlotNumbers -> Seq(Block) \cup {NoFile}]
    /\ seen \in [Handles -> Seq(Block)]

(* Where the j-th block of a slot's file is.                               *)
DataBlock(slot, j) == SlotStart(slot) + j - 1

(* The first n blocks written to a slot are on the device.                 *)
OnDevice(slot, n) ==
    /\ n <= Len(written[slot])
    /\ \A j \in 1 .. n : disk[DataBlock(slot, j)] = written[slot][j]

(* Metadata is about its slot and about data that is on the device.        *)
Describes(md, slot) ==
    /\ md.start = SlotStart(slot) /\ md.size <= SlotSize
    /\ acked[slot] # NoFile => OnDevice(slot, md.size)

SlotMeta(slot) ==
    \A idx \in {0, 1} :
        disk[MetaBlock(slot, idx)] \in Meta => Describes(disk[MetaBlock(slot, idx)], slot)

MetaInv == \A slot \in Slots : SlotMeta(slot)

PageStart(cursor) == PageAddress(0, cursor)

(* What is written comes before the cursor: whole pages on the device, the *)
(* rest at the head of the page.                                           *)
PastStored(f) ==
    /\ Len(written[f.slot]) = f.cursor
    /\ OnDevice(f.slot, PageStart(f.cursor))
    /\ \A k \in 1 .. PageOffset(f.cursor) :
          f.page[k] = written[f.slot][PageStart(f.cursor) + k]

AtRest(f) == acked[f.slot] # NoFile /\ PastStored(f)

(* A chunk is behind it in the page, then on the device.                   *)
ChunkStored(f) ==
    \A k \in 1 .. call.n :
        IF call.at = "page" \/ (call.at = "advance" /\ f.off > 0)
        THEN f.page[PageOffset(f.cursor) + k] = call.rest[k]
        ELSE disk[DataBlock(f.slot, f.cursor + k)] = call.rest[k]

(* The file of the call in flight.                                         *)
InFlight(f) ==
    /\ call.at \in {"sync", "meta"} => OnDevice(f.slot, f.cursor)
    /\ call.at = "advance" /\ f.off = 0 => OnDevice(f.slot, f.cursor)
    /\ call.at = "meta" => f.md.size = f.cursor
    /\ call.op = "write" /\ call.at # "loop" => ChunkStored(f)

WriterInv ==
    \A h \in Handles : file[h].mode = "write" =>
        AtRest(file[h]) /\ (call.h = h => InFlight(file[h]))

ReaderOf(f, content) ==
    /\ f.slot \in Slots /\ Describes(f.md, f.slot)
    /\ Content(f.md) = content

ReaderInv == \A h \in Handles : file[h].mode = "read" => ReaderOf(file[h], seen[h])

RenewInv ==
    /\ call.at \in {"config", "format"} =>
          /\ NoneOpen /\ call.slot \in Slots
          /\ \A slot \in Slots : acked[slot] = NoFile
    /\ call.at = "create" =>
          /\ acked[call.slot] = NoFile
          /\ call.idx = 1 => disk[MetaBlock(call.slot, 0)] = FreshMeta(call.slot, 1)

ContentInv == Histories /\ MetaInv /\ WriterInv /\ ReaderInv /\ RenewInv

-----------------------------------------------------------------------------
(* The inductive invariants for single properties.                         *)

(* A page read ahead is the page of the cursor.                            *)
PagesRead ==
    \A h \in Handles : file[h].mode = "read" =>
        /\ file[h].cursor <= file[h].md.size
        /\ file[h].off \in 1 .. PageBlocks - 1 =>
              /\ file[h].off = PageOffset(file[h].cursor)
              /\ \A k \in 1 .. PageBlocks :
                    PageStart(file[h].cursor) + k <= file[h].md.size
                        => file[h].page[k] = seen[h][PageStart(file[h].cursor) + k]

(* The blocks of the content that end at position c.                       *)
EndsAt(blocks, content, c) ==
    /\ Len(blocks) <= c
    /\ \A k \in 1 .. Len(blocks) : blocks[k] = content[c - Len(blocks) + k]

(* A read has delivered the blocks that end at the cursor.                 *)
Delivered(h) == EndsAt(call.rest, seen[h], file[h].cursor)

ReadInv == PagesRead /\ (call.op = "read" => call.at = "fetch" /\ Delivered(call.h))

Found ==
    /\ \A slot \in Slots : acked[slot] # NoFile =>
          /\ ValidIdx(slot) # {}
          /\ \A idx \in ValidIdx(slot) : disk[MetaBlock(slot, idx)].rev # 0
    /\ call.at = "meta" => 1 - call.idx \in ValidIdx(file[call.h].slot)

Unwrapped == \A h \in Handles : file[h].mode = "write" => file[h].md.rev # 0

Newest(slot) == MostRecentIdx(slot, ValidIdx(slot))

OtherIsWritten ==
    call.at = "meta" => call.idx = OtherIdx(file[call.h].slot, ValidIdx(file[call.h].slot))

(* What is promised of a slot is covered by its most recent metadata.      *)
Promised(slot) ==
    /\ IsPrefix(acked[slot], written[slot])
    /\ Len(acked[slot]) <= disk[MetaBlock(slot, Newest(slot))].size

(* The revision of an open file and those on the device follow each other. *)
Consecutive(h) ==
    LET f == file[h]
        new == disk[MetaBlock(f.slot, Newest(f.slot))]
        old == disk[MetaBlock(f.slot, 1 - Newest(f.slot))]
    IN
    /\ ValidIdx(f.slot) = {0, 1}
    /\ f.md.rev = IF call.h = h /\ call.at = "meta" THEN new.rev + 1 ELSE new.rev
    /\ old.rev = new.rev - 1 \/ (old.rev = 1 /\ new.rev = 1)

Durable ==
    /\ \A slot \in Slots : acked[slot] # NoFile => Promised(slot)
    /\ \A h \in Handles : file[h].mode = "write" => Consecutive(h)

-----------------------------------------------------------------------------
(* Files in use.                                                           *)

Opened(slot) == {h \in Handles : IsOpen(h) /\ file[h].slot = slot}

Locked ==
    \A slot \in SlotNumbers :
        /\ lock_counters[slot] = Cardinality(Opened(slot))
        /\ \A g, h \in Handles :
              file[g].mode = "write" /\ file[h].mode = "write" /\ file[g].slot = file[h].slot
                  => g = h

LEMMA LocksAre == LocksCountOpenFiles <=> Locked
BY DEF LocksCountOpenFiles, Locked, Opened

LEMMA LocksAreNext == LocksCountOpenFiles' <=> Locked'
BY LocksAre, PTL

LEMMA OpenedFinite ==
    ASSUME NEW slot
    PROVE  IsFiniteSet(Opened(slot)) /\ Cardinality(Opened(slot)) \in Nat
<1>1. IsFiniteSet(Handles)
  BY SlotFSAssumption
<1>2. Opened(slot) \subseteq Handles
  BY DEF Opened
<1> QED
  BY <1>1, <1>2, FS_Subset, FS_CardinalityType

(* Nobody has more files open than an int8_t counts.                       *)
LEMMA OpenedFew ==
    ASSUME FewFiles, NEW slot
    PROVE  Cardinality(Opened(slot)) \in 0 .. 127
<1>1. IsFiniteSet(Handles) /\ Opened(slot) \subseteq Handles
  BY SlotFSAssumption DEF Opened
<1>2. Cardinality(Opened(slot)) <= Cardinality(Handles) /\ Cardinality(Handles) \in Nat
  BY <1>1, FS_Subset, FS_CardinalityType
<1> QED
  BY <1>2, OpenedFinite DEF FewFiles

LEMMA OpenedFewNext ==
    ASSUME FewFiles, NEW slot
    PROVE  Cardinality(Opened(slot)') \in 0 .. 127
<1>1. IsFiniteSet(Handles) /\ Opened(slot)' \subseteq Handles
  BY SlotFSAssumption DEF Opened
<1>2. Cardinality(Opened(slot)') <= Cardinality(Handles) /\ Cardinality(Handles) \in Nat
      /\ Cardinality(Opened(slot)') \in Nat
  BY <1>1, FS_Subset, FS_CardinalityType
<1> QED
  BY <1>2 DEF FewFiles

(* A slot that is not locked has no open file.                             *)
LEMMA UnlockedIsClosed ==
    ASSUME LockInv, NEW slot \in SlotNumbers, lock_counters[slot] = 0, NEW h \in Handles
    PROVE  ~(IsOpen(h) /\ file[h].slot = slot)
<1>1. Cardinality(Opened(slot)) = 0
  BY LocksAre DEF LockInv, Locked
<1>2. Opened(slot) = {}
  BY <1>1, OpenedFinite, FS_EmptySet
<1> QED
  BY <1>2 DEF Opened

(* Files keep being open or closed.                                        *)
SameModes == \A h \in Handles : file'[h].mode = file[h].mode /\ file'[h].slot = file[h].slot

LEMMA LocksKept ==
    ASSUME LocksCountOpenFiles, SameModes, UNCHANGED lock_counters
    PROVE  LocksCountOpenFiles'
<1>1. \A slot : Opened(slot)' = Opened(slot)
  BY DEF SameModes, Opened, IsOpen
<1>2. Locked'
  BY <1>1, LocksAre DEF Locked, SameModes
<1> QED
  BY <1>2, LocksAreNext

LEMMA LockSame ==
    ASSUME LockInv, SameModes, UNCHANGED lock_counters,
           mounted' = mounted \/ mounted' = TRUE \/ NoneOpen,
           call'.at # "create",
           call'.op = "close" => call'.h \in Handles /\ IsOpen(call'.h)
    PROVE  LockInv'
<1>1. LocksCountOpenFiles'
  BY LocksKept DEF LockInv
<1>2. NoneOpen => NoneOpen'
  BY DEF NoneOpen, SameModes
<1>3. call'.op = "close" => call'.h \in Handles /\ file'[call'.h].mode # "closed"
  BY DEF SameModes, IsOpen
<1>4. call'.op = "close" => call'.h \in Handles /\ IsOpen(call.h)'
  BY <1>3 DEF IsOpen
<1> QED
  BY <1>1, <1>2, <1>4 DEF LockInv

LEMMA LockOpened ==
    ASSUME FewFiles, TypeInv, LocksCountOpenFiles, NEW h \in Handles, ~IsOpen(h),
           NEW slot \in SlotNumbers, NEW mode \in {"read", "write"},
           file'[h].mode = mode, file'[h].slot = slot,
           \A g \in Handles \ {h} : file'[g] = file[g],
           lock_counters' = [lock_counters EXCEPT ![slot] = Int8(@ + 1)],
           mode = "write" => lock_counters[slot] = 0
    PROVE  LocksCountOpenFiles'
<1>1. Opened(slot)' = Opened(slot) \cup {h} /\ h \notin Opened(slot)
  BY DEF Opened, IsOpen
<1>2. \A s : s # slot => Opened(s)' = Opened(s)
  BY DEF Opened, IsOpen
<1>3. Cardinality(Opened(slot)') = Cardinality(Opened(slot)) + 1
  BY <1>1, OpenedFinite, FS_AddElement
<1>4. Locked
  BY LocksAre
<1>5. \A s \in SlotNumbers : lock_counters'[s] = Cardinality(Opened(s)')
  <2>1. Cardinality(Opened(slot)') \in (-128) .. 127
    BY OpenedFewNext
  <2>2. Int8(lock_counters[slot] + 1) = Cardinality(Opened(slot)')
    BY <1>3, <1>4, <2>1, Int8Counts DEF Locked
  <2>3. lock_counters'[slot] = Cardinality(Opened(slot)')
        /\ \A s \in SlotNumbers \ {slot} : lock_counters'[s] = lock_counters[s]
    BY <2>2 DEF TypeInv, TypeOK
  <2> QED
    BY <1>2, <1>4, <2>3 DEF Locked
<1>6. mode = "write" => \A g \in Handles : ~(IsOpen(g) /\ file[g].slot = slot)
  <2>1. SUFFICES ASSUME mode = "write" PROVE \A g \in Handles : ~(IsOpen(g) /\ file[g].slot = slot)
    OBVIOUS
  <2>2. Cardinality(Opened(slot)) = 0
    BY <1>4, <2>1 DEF Locked
  <2>3. Opened(slot) = {}
    BY <2>2, OpenedFinite, FS_EmptySet
  <2> QED
    BY <2>3 DEF Opened
<1>7. \A f, g \in Handles :
          file'[f].mode = "write" /\ file'[g].mode = "write" /\ file'[f].slot = file'[g].slot
              => f = g
  BY <1>4, <1>6, Constants DEF Locked, IsOpen, SlotNumbers
<1>8. Locked'
  BY <1>5, <1>7 DEF Locked
<1> QED
  BY <1>8, LocksAreNext

LEMMA LockClosed ==
    ASSUME FewFiles, TypeInv, LocksCountOpenFiles, NEW h \in Handles, IsOpen(h),
           NEW slot \in SlotNumbers, file[h].slot = slot, file'[h].mode = "closed",
           \A g \in Handles \ {h} : file'[g] = file[g],
           lock_counters' = [lock_counters EXCEPT ![slot] = Int8(@ - 1)]
    PROVE  LocksCountOpenFiles'
<1>1. Opened(slot)' = Opened(slot) \ {h} /\ h \in Opened(slot)
  BY DEF Opened, IsOpen
<1>2. \A s : s # slot => Opened(s)' = Opened(s)
  BY DEF Opened, IsOpen
<1>3. Cardinality(Opened(slot)') = Cardinality(Opened(slot)) - 1
  BY <1>1, OpenedFinite, FS_RemoveElement
<1>4. Locked
  BY LocksAre
<1>5. \A s \in SlotNumbers : lock_counters'[s] = Cardinality(Opened(s)')
  <2>1. Cardinality(Opened(slot)') \in (-128) .. 127
    BY OpenedFewNext
  <2>2. Int8(lock_counters[slot] - 1) = Cardinality(Opened(slot)')
    BY <1>3, <1>4, <2>1, Int8Counts DEF Locked
  <2>3. lock_counters'[slot] = Cardinality(Opened(slot)')
        /\ \A s \in SlotNumbers \ {slot} : lock_counters'[s] = lock_counters[s]
    BY <2>2 DEF TypeInv, TypeOK
  <2> QED
    BY <1>2, <1>4, <2>3 DEF Locked
<1>6. \A f, g \in Handles :
          file'[f].mode = "write" /\ file'[g].mode = "write" /\ file'[f].slot = file'[g].slot
              => f = g
  BY <1>4, Constants DEF Locked, SlotNumbers
<1>7. Locked'
  BY <1>5, <1>6 DEF Locked
<1> QED
  BY <1>7, LocksAreNext

(* No file is open, no slot is locked.                                     *)
LEMMA AllClosed ==
    ASSUME lock_counters' = [slot \in SlotNumbers |-> 0], NoneOpen'
    PROVE  LocksCountOpenFiles'
<1>1. \A slot : Opened(slot)' = {}
  BY DEF Opened, IsOpen, NoneOpen
<1>2. Cardinality({}) = 0
  BY FS_EmptySet
<1>3. Locked'
  BY <1>1, <1>2 DEF Locked, NoneOpen
<1> QED
  BY <1>3, LocksAreNext

LEMMA LockInit ==
    ASSUME Careful, FewFiles
    PROVE  Init => LockInv
<1> SUFFICES ASSUME Init PROVE LockInv
  OBVIOUS
<1>1. NoneOpen
  BY ClosedFileType DEF Init, NoneOpen
<1>2. \A slot : Opened(slot) = {}
  BY <1>1 DEF Opened, IsOpen, NoneOpen
<1>3. LocksCountOpenFiles
  BY <1>1, <1>2, FS_EmptySet, LocksAre DEF Locked, Init, NoneOpen
<1> QED
  BY <1>1, <1>3, ClosedFileType DEF LockInv, Init

(* Calls and steps that open and close no file.                            *)
LEMMA LockFormat ==
    ASSUME TypeInv, LockInv, SfsFormat \/ SfsDeinit \/ FormatConfig \/ FormatMeta
    PROVE  LockInv'
<1>1. SameModes /\ UNCHANGED lock_counters
  BY DEF SfsFormat, SfsDeinit, FormatConfig, FormatMeta, SameModes
<1>2. mounted' = mounted \/ mounted' = TRUE \/ NoneOpen
  BY DEF SfsFormat, SfsDeinit, FormatConfig, FormatMeta, ClientMayUnmount, LockInv
<1>3. Start("format", "config", NoHandle).at = "config"
      /\ Start("format", "config", NoHandle).op = "format"
  BY StartType DEF Ops, CallPoints
<1>4. \/ call'.at # "create" /\ call'.op # "close"
      \/ call'.at # "create" /\ call'.op = call.op /\ call'.h = call.h
  BY <1>3, ClosedFileType DEF SfsFormat, SfsDeinit, Ready, FormatConfig, FormatMeta, Return,
                              TypeInv, TypeOK, CallType
<1>5. call'.op = "close" => call'.h \in Handles /\ IsOpen(call'.h)
  BY <1>4 DEF LockInv
<1> QED
  BY <1>1, <1>2, <1>4, <1>5, LockSame

LEMMA LockCalls ==
    ASSUME TypeInv, LockInv, NEW h \in Handles,
           \/ \E blocks \in Requests : Write(h, blocks)
           \/ Flush(h)
           \/ \E size \in Nat : Allocate(h, size)
           \/ \E offset \in Nat : Seek(h, offset)
           \/ \E n \in Nat : Read(h, n)
    PROVE  LockInv'
<1>1. SameModes
  <2>1. CASE UNCHANGED file
    BY <2>1 DEF SameModes
  <2>2. CASE \E cursor \in Nat : file' = [file EXCEPT ![h] = [Cleared(@) EXCEPT !.cursor = cursor]]
    BY <2>2 DEF SameModes, Cleared, TypeInv, TypeOK, FileType
  <2> QED
    BY <2>1, <2>2 DEF Write, Flush, Allocate, Seek, Read
<1>u. UNCHANGED <<lock_counters, mounted>>
  BY DEF Write, Flush, Allocate, Seek, Read
<1>2. \A op \in Ops, at \in CallPoints : Start(op, at, h) \in CallType
          /\ Start(op, at, h).op = op /\ Start(op, at, h).at = at
  BY StartType
<1>3. call'.at # "create" /\ call'.op # "close"
  <2>1. CASE \E blocks \in Requests : Write(h, blocks)
    <3>1. PICK c \in CallType : c = Start("write", "loop", h) /\ c.op = "write" /\ c.at = "loop"
      BY <1>2 DEF Ops, CallPoints
    <3>2. PICK blocks : call' = [c EXCEPT !.rest = blocks]
      BY <2>1, <3>1 DEF Write
    <3> QED
      BY <3>1, <3>2 DEF CallType
  <2>2. CASE Flush(h)
    <3>1. FlushPoint(h) \in {"page", "sync"}
      BY DEF FlushPoint
    <3> QED
      BY <1>2, <2>2, <3>1 DEF Flush, Ops, CallPoints
  <2>3. CASE \E size \in Nat : Allocate(h, size)
    BY <1>2, <2>3 DEF Allocate, Ops, CallPoints
  <2>4. CASE \E offset \in Nat : Seek(h, offset)
    BY <2>4, ClosedFileType DEF Seek, Ready
  <2>5. CASE \E n \in Nat : Read(h, n)
    <3>1. PICK c \in CallType : c = Start("read", "fetch", h) /\ c.op = "read" /\ c.at = "fetch"
      BY <1>2 DEF Ops, CallPoints
    <3>2. PICK n : call' = [c EXCEPT !.n = n]
      BY <2>5, <3>1 DEF Read
    <3> QED
      BY <3>1, <3>2 DEF CallType
  <2> QED
    BY <2>1, <2>2, <2>3, <2>4, <2>5
<1> QED
  BY <1>1, <1>u, <1>3, LockSame

LEMMA ReadLoopKeeps ==
    ASSUME TypeInv, ReadLoop, NEW h \in Handles, h = call.h
    PROVE  /\ UNCHANGED <<disk, mounted, lock_counters, written, acked, seen>>
           /\ call.at = "fetch"
           /\ \A g \in Handles \ {h} : file'[g] = file[g]
           /\ file'[h].mode = file[h].mode /\ file'[h].slot = file[h].slot
           /\ file'[h].md = file[h].md
           /\ \/ call' = Idle
              \/ call'.op = call.op /\ call'.h = call.h /\ call'.at = "fetch"
<1>1. /\ UNCHANGED <<disk, mounted, lock_counters, written, acked, seen>>
      /\ call.at = "fetch"
  BY ReadLoopFrame
<1> DEFINE f == file[h]
           load == f.off = 0 \/ f.off = PageBlocks
           at == PageAddress(f.md.start, f.cursor)
           off == IF load THEN PageOffset(f.cursor) ELSE f.off
           n == CHOOSE k \in {call.n, f.md.size - f.cursor, PageBlocks - off} :
                    k <= call.n /\ k <= f.md.size - f.cursor /\ k <= PageBlocks - off
           page == IF load THEN [i \in 1 .. PageBlocks |-> disk[at + i - 1]] ELSE f.page
<1>2. \/ call' = Idle /\ UNCHANGED file
      \/ /\ file' = [file EXCEPT ![h].page = page, ![h].off = off + n, ![h].cursor = @ + n]
         /\ call' = [call EXCEPT !.n = @ - n,
                                 !.rest = @ \o SubSeq(page, off + 1, off + n)]
  BY DEF ReadLoop, Return
<1> HIDE DEF off, n, page
<1>3. CASE call' = Idle /\ UNCHANGED file
  BY <1>1, <1>3
<1>4. CASE /\ file' = [file EXCEPT ![h].page = page, ![h].off = off + n, ![h].cursor = @ + n]
           /\ call' = [call EXCEPT !.n = @ - n,
                                   !.rest = @ \o SubSeq(page, off + 1, off + n)]
  <2>1. /\ file'[h].mode = file[h].mode /\ file'[h].slot = file[h].slot
        /\ file'[h].md = file[h].md
        /\ \A g \in Handles \ {h} : file'[g] = file[g]
    BY <1>4 DEF TypeInv, TypeOK, FileType
  <2>2. call'.op = call.op /\ call'.h = call.h /\ call'.at = "fetch"
    BY <1>1, <1>4 DEF TypeInv, TypeOK, CallType
  <2> QED
    BY <1>1, <2>1, <2>2
<1> QED
  BY <1>2, <1>3, <1>4

(* What sync_meta_block, before its write, changes of a file.              *)
LEMMA SyncIs ==
    ASSUME TypeInv, Sync, NEW h \in Handles, h = call.h
    PROVE  /\ UNCHANGED <<disk, mounted, lock_counters, written, acked, seen>>
           /\ call.at = "sync"
           /\ \A g \in Handles \ {h} : file'[g] = file[g]
           /\ file'[h].mode = file[h].mode /\ file'[h].slot = file[h].slot
           /\ file'[h].cursor = file[h].cursor /\ file'[h].off = file[h].off
           /\ file'[h].page = file[h].page
           /\ file'[h].md.start = file[h].md.start /\ file'[h].md.max = file[h].md.max
           /\ file'[h].md.size = file[h].cursor
           /\ file'[h].md.rev = (file[h].md.rev + 1) % RevMod
<1>1. file[h].md \in Meta /\ file[h] \in FileType
  BY FileFields DEF TypeInv, TypeOK
<1>2. file' = [file EXCEPT ![h].md.size = file[h].cursor, ![h].md.rev = (@ + 1) % RevMod]
  BY Zenon DEF Sync
<1> QED
  BY <1>1, <1>2, SyncFrame DEF TypeInv, TypeOK, FileType, Meta

(* Where the metadata goes then.                                           *)
LEMMA SyncTo ==
    ASSUME TypeInv, Sync, NEW h \in Handles, h = call.h
    PROVE  \E readable \in SUBSET ValidIdx(file[h].slot) :
             /\ ReadsAs(file[h].slot, readable)
             /\ \/ /\ readable # {}
                   /\ call'.at = "meta" /\ call'.idx = OtherIdx(file[h].slot, readable)
                   /\ call'.h = h /\ call'.op = call.op /\ call'.n = call.n
                   /\ call'.rest = call.rest
                \/ readable = {} /\ call.op # "write" /\ call' = Idle
                \/ /\ readable = {} /\ call.op = "write"
                   /\ call'.at = "advance" /\ call'.h = h /\ call'.op = call.op
                   /\ call'.n = call.n /\ call'.rest = call.rest
<1>1. PICK readable \in SUBSET ValidIdx(file[h].slot) :
          /\ ReadsAs(file[h].slot, readable)
          /\ \/ /\ readable # {}
                /\ call' = [call EXCEPT !.at = "meta",
                                !.idx = OtherIdx(file[h].slot, readable)]
             \/ readable = {} /\ call.op # "write" /\ call' = Idle
             \/ readable = {} /\ call.op = "write" /\ call' = [call EXCEPT !.at = "advance"]
  BY Zenon DEF Sync, Return
<1>2. call \in CallType
  BY DEF TypeInv, TypeOK
<1> QED
  BY <1>1, <1>2 DEF CallType

LEMMA LockSteps ==
    ASSUME TypeInv, LockInv,
           WriteLoop \/ WritePage \/ Advance \/ Sync \/ ReadLoop
    PROVE  LockInv'
<1>a. call.at \in {"loop", "page", "advance", "sync", "fetch"}
      /\ UNCHANGED <<lock_counters, mounted>>
  <2>1. WriteLoop => call.at = "loop" /\ UNCHANGED <<lock_counters, mounted>>
    BY DEF WriteLoop
  <2>2. WritePage => call.at = "page" /\ UNCHANGED <<lock_counters, mounted>>
    BY DEF WritePage
  <2>3. Advance => call.at = "advance" /\ UNCHANGED <<lock_counters, mounted>>
    BY DEF Advance
  <2>4. Sync => call.at = "sync" /\ UNCHANGED <<lock_counters, mounted>>
    BY SyncFrame
  <2>5. ReadLoop => call.at = "fetch" /\ UNCHANGED <<lock_counters, mounted>>
    BY ReadLoopFrame
  <2> QED
    BY <2>1, <2>2, <2>3, <2>4, <2>5
<1>1. PICK h \in Handles : h = call.h
  BY <1>a DEF TypeInv, CallShape
<1>2. file[h] \in FileType /\ file[h].md \in Meta /\ DOMAIN file = Handles
  BY FileFields DEF TypeInv, TypeOK
<1>3. SameModes
  <2>1. CASE WriteLoop
    BY <1>1, <1>2, <2>1 DEF WriteLoop, SameModes, FileType
  <2>2. CASE WritePage
    <3>1. \/ UNCHANGED file
          \/ file' = [file EXCEPT ![h] = Cleared(@)]
          \/ file' = [file EXCEPT ![h].failed = @ \/ call.op = "write"]
      BY <1>1, <2>2, Zenon DEF WritePage
    <3>2. CASE UNCHANGED file
      BY <3>2 DEF SameModes
    <3>3. CASE file' = [file EXCEPT ![h] = Cleared(@)]
      BY <1>1, <1>2, <3>3 DEF SameModes, FileType, Cleared
    <3>4. CASE file' = [file EXCEPT ![h].failed = @ \/ call.op = "write"]
      BY <1>1, <1>2, <3>4 DEF SameModes, FileType
    <3> QED
      BY <3>1, <3>2, <3>3, <3>4
  <2>3. CASE Advance
    BY <1>1, <1>2, <2>3 DEF Advance, SameModes, FileType
  <2>4. CASE Sync
    BY <1>1, <2>4, SyncIs DEF SameModes
  <2>5. CASE ReadLoop
    BY <1>1, <2>5, ReadLoopKeeps DEF SameModes
  <2> QED
    BY <2>1, <2>2, <2>3, <2>4, <2>5
<1>4. \/ call' = Idle
      \/ call'.op = call.op /\ call'.h = call.h /\ call'.at # "create"
  <2>1. call \in CallType
    BY DEF TypeInv, TypeOK
  <2>2. CASE WriteLoop
    BY <2>1, <2>2 DEF WriteLoop, Return, CallType
  <2>3. CASE WritePage
    BY <2>1, <2>3 DEF WritePage, Return, CallType
  <2>4. CASE Advance
    BY <2>1, <2>4 DEF Advance, Return, CallType
  <2>5. CASE Sync
    BY <1>1, <2>5, SyncTo
  <2>6. CASE ReadLoop
    BY <1>1, <2>6, ReadLoopKeeps
  <2> QED
    BY <2>2, <2>3, <2>4, <2>5, <2>6
<1>6. call'.at # "create" /\ (call'.op = "close" => call'.h \in Handles /\ IsOpen(call'.h))
  BY <1>4, ClosedFileType DEF LockInv
<1> QED
  BY <1>3, <1>a, <1>6, LockSame

(* Calls and steps that open and close files.                              *)
LEMMA LockInitCall ==
    ASSUME TypeInv, LockInv, SfsInit
    PROVE  LockInv'
<1>1. NoneOpen' /\ lock_counters' = [slot \in SlotNumbers |-> 0]
  BY DEF SfsInit, LockInv, NoneOpen
<1>2. Start("init", "config", NoHandle).at = "config"
      /\ Start("init", "config", NoHandle).op = "init"
  BY StartType DEF Ops, CallPoints
<1>3. call'.at # "create" /\ call'.op # "close"
  BY <1>2, ClosedFileType DEF SfsInit
<1> QED
  BY <1>1, <1>3, AllClosed DEF LockInv

LEMMA LockPowerLoss ==
    ASSUME LockInv, PowerLoss
    PROVE  LockInv'
<1>1. NoneOpen' /\ lock_counters' = [slot \in SlotNumbers |-> 0] /\ call' = Idle
  BY ClosedFileType DEF PowerLoss, NoneOpen
<1> QED
  BY <1>1, AllClosed, ClosedFileType DEF LockInv

LEMMA LockOpenRead ==
    ASSUME TypeInv, LockInv, NEW h \in Handles, NEW slot \in SlotNumbers, OpenRead(h, slot)
    PROVE  LockInv'
<1>1. mounted' = TRUE /\ call' = Idle /\ ~IsOpen(h)
  BY DEF OpenRead, Ready, IsOpen
<1>2. CASE UNCHANGED <<file, lock_counters>>
  <2>1. SameModes
    BY <1>2 DEF SameModes
  <2> QED
    BY <1>1, <1>2, <2>1, LockSame, ClosedFileType
<1>3. CASE \E readable \in SUBSET ValidIdx(slot) : readable # {} /\
               file' = [file EXCEPT ![h] = OpenedFile(slot, "read", ReadMeta(slot, readable))]
               /\ lock_counters' = [lock_counters EXCEPT ![slot] = Int8(@ + 1)]
  <2>1. PICK readable \in SUBSET ValidIdx(slot) : readable # {} /\
            file' = [file EXCEPT ![h] = OpenedFile(slot, "read", ReadMeta(slot, readable))]
    BY <1>3
  <2>2. OpenedFile(slot, "read", ReadMeta(slot, readable)).mode = "read"
        /\ OpenedFile(slot, "read", ReadMeta(slot, readable)).slot = slot
    BY DEF OpenedFile, ClosedFile
  <2>3. file'[h].mode = "read" /\ file'[h].slot = slot
        /\ \A g \in Handles \ {h} : file'[g] = file[g]
    BY <2>1, <2>2 DEF TypeInv, TypeOK
  <2>4. LocksCountOpenFiles'
    BY <1>1, <1>3, <2>3, LockOpened DEF LockInv
  <2> QED
    BY <1>1, <2>4, ClosedFileType DEF LockInv
<1> QED
  BY <1>2, <1>3 DEF OpenRead

LEMMA LockOpenWrite ==
    ASSUME TypeInv, LockInv, NEW h \in Handles, NEW slot \in SlotNumbers, OpenWrite(h, slot)
    PROVE  LockInv'
<1> DEFINE c == Start("open", "create", h)
<1>1. c \in CallType /\ c.op = "open" /\ c.at = "create" /\ c.h = h
  BY StartType DEF Ops, CallPoints
<1>2. mounted' = TRUE /\ UNCHANGED <<file, lock_counters>> /\ ~IsOpen(h)
  BY DEF OpenWrite, Ready, IsOpen
<1>3. LocksCountOpenFiles'
  BY <1>2, LocksKept DEF SameModes, LockInv
<1>4. \/ call' = Idle
      \/ call' = [c EXCEPT !.slot = slot] /\ lock_counters[slot] = 0
  BY DEF OpenWrite, Ready, Unlocked
<1> HIDE DEF c
<1>5. CASE call' = Idle
  BY <1>2, <1>3, <1>5, ClosedFileType DEF LockInv
<1>6. CASE call' = [c EXCEPT !.slot = slot] /\ lock_counters[slot] = 0
  <2>1. call'.at = "create" /\ call'.op = "open" /\ call'.h = h /\ call'.slot = slot
    BY <1>1, <1>6 DEF CallType
  <2>2. ~IsOpen(call.h)' /\ lock_counters'[call'.slot] = 0
    BY <1>2, <1>6, <2>1 DEF IsOpen
  <2> QED
    BY <1>2, <1>3, <2>1, <2>2 DEF LockInv
<1> QED
  BY <1>4, <1>5, <1>6

LEMMA LockCreateMeta ==
    ASSUME TypeInv, LockInv, CreateMeta
    PROVE  LockInv'
<1>1. PICK h \in Handles : h = call.h
  BY DEF CreateMeta, TypeInv, CallShape
<1>2. /\ mounted' = TRUE /\ ~IsOpen(h) /\ lock_counters[call.slot] = 0
      /\ call.at = "create" /\ call.op # "close" /\ call.slot \in SlotNumbers
  BY <1>1, CallFields DEF CreateMeta, LockInv, TypeInv
<1>3. CASE UNCHANGED <<file, lock_counters>>
  <2>1. LocksCountOpenFiles'
    BY <1>3, LocksKept DEF SameModes, LockInv
  <2>2. \/ call' = Idle
        \/ call'.at = "create" /\ call'.op # "close" /\ call'.h = h /\ call'.slot = call.slot
    BY <1>1, <1>2, <1>3 DEF CreateMeta, Return, TypeInv, TypeOK, CallType
  <2>3. CASE call' = Idle
    BY <1>2, <2>1, <2>3, ClosedFileType DEF LockInv
  <2>4. CASE call'.at = "create" /\ call'.op # "close" /\ call'.h = h /\ call'.slot = call.slot
    <3>1. ~IsOpen(call.h)'
      BY <1>2, <1>3, <2>4 DEF IsOpen
    <3> QED
      BY <1>2, <1>3, <2>1, <2>4, <3>1 DEF LockInv
  <2> QED
    BY <2>2, <2>3, <2>4
<1>4. CASE /\ file' = [file EXCEPT ![call.h] =
                          OpenedFile(call.slot, "write", FreshMeta(call.slot, 1))]
           /\ lock_counters' = [lock_counters EXCEPT ![call.slot] = Int8(@ + 1)]
           /\ call' = Idle
  <2>1. OpenedFile(call.slot, "write", FreshMeta(call.slot, 1)).mode = "write"
        /\ OpenedFile(call.slot, "write", FreshMeta(call.slot, 1)).slot = call.slot
    BY DEF OpenedFile, ClosedFile
  <2>2. file'[h].mode = "write" /\ file'[h].slot = call.slot
        /\ \A g \in Handles \ {h} : file'[g] = file[g]
    BY <1>1, <1>4, <2>1 DEF TypeInv, TypeOK
  <2>3. LocksCountOpenFiles'
    BY <1>2, <1>4, <2>2, LockOpened DEF LockInv
  <2> QED
    BY <1>2, <1>4, <2>3, ClosedFileType DEF LockInv
<1> QED
  BY <1>3, <1>4 DEF CreateMeta, Return

(* A file is closed.                                                       *)
LEMMA LockAway ==
    ASSUME TypeInv, LockInv, NEW h \in Handles, IsOpen(h),
           file' = [file EXCEPT ![h] = ClosedFile],
           lock_counters' = [lock_counters EXCEPT ![file[h].slot] = Int8(@ - 1)],
           call' = Idle, UNCHANGED mounted
    PROVE  LockInv'
<1>1. file'[h].mode = "closed" /\ \A g \in Handles \ {h} : file'[g] = file[g]
  BY ClosedFileType DEF TypeInv, TypeOK
<1>2. file[h].slot \in SlotNumbers
  BY FileFields DEF TypeInv
<1>3. LocksCountOpenFiles'
  BY <1>1, <1>2, LockClosed DEF LockInv
<1>4. mounted
  BY DEF LockInv, NoneOpen, IsOpen
<1> QED
  BY <1>3, <1>4, ClosedFileType DEF LockInv

LEMMA LockClose ==
    ASSUME TypeInv, LockInv, NEW h \in Handles, Close(h)
    PROVE  LockInv'
<1>1. CASE file[h].mode = "write"
  <2>1. PICK at \in {"page", "sync"} : at = FlushPoint(h)
    BY DEF FlushPoint
  <2>2. /\ Start("close", at, h).op = "close" /\ Start("close", at, h).at = at
        /\ Start("close", at, h).h = h
    BY StartType DEF Ops, CallPoints
  <2>3. call'.at # "create" /\ call'.h = h /\ UNCHANGED <<file, lock_counters, mounted>>
    BY <1>1, <2>1, <2>2 DEF Close
  <2> QED
    BY <1>1, <2>3, LockSame DEF SameModes, IsOpen
<1>2. CASE file[h].mode = "read"
  BY <1>2, LockAway DEF Close, IsOpen, Ready
<1> QED
  BY <1>1, <1>2 DEF Close

LEMMA LockSyncMeta ==
    ASSUME TypeInv, LockInv, SyncMeta
    PROVE  LockInv'
<1>1. PICK h \in Handles : h = call.h
  BY DEF SyncMeta, TypeInv, CallShape
<1>2. CASE call.op # "close"
  <2>1. UNCHANGED <<file, lock_counters, mounted>>
    BY <1>2 DEF SyncMeta
  <2>2. call'.at # "create" /\ call'.op # "close"
    BY <1>2, ClosedFileType DEF SyncMeta, Return, TypeInv, TypeOK, CallType
  <2> QED
    BY <2>1, <2>2, LockSame DEF SameModes
<1>3. CASE call.op = "close"
  <2>1. IsOpen(h)
    BY <1>1, <1>3 DEF LockInv
  <2> QED
    BY <1>1, <1>3, <2>1, LockAway DEF SyncMeta, Return
<1> QED
  BY <1>2, <1>3

(* open, close, a failed open and a power loss keep the counters of the    *)
(* slots and the modes of the files together.                              *)
THEOREM LockStep == TypeInv /\ LockInv /\ [Next]_vars => LockInv'
<1> SUFFICES ASSUME TypeInv, LockInv, [Next]_vars PROVE LockInv'
  OBVIOUS
<1>1. CASE Step
  BY <1>1, LockFormat, LockCreateMeta, LockSteps, LockSyncMeta DEF Step
<1>2. CASE Call
  <2>1. ClientSlots \subseteq SlotNumbers
    BY Constants DEF ClientSlots, Slots, SlotNumbers
  <2>2. /\ \A n \in 0 .. SlotSize + 1 : n \in Nat
        /\ \A n \in 0 .. SlotSize : n \in Nat
        /\ \A n \in 1 .. SlotSize : n \in Nat
    BY Constants
  <2>3. CASE SfsInit \/ SfsFormat \/ SfsDeinit
    BY <2>3, LockInitCall, LockFormat
  <2>4. CASE \E h \in Handles : \E slot \in ClientSlots : OpenRead(h, slot) \/ OpenWrite(h, slot)
    BY <2>1, <2>4, LockOpenRead, LockOpenWrite
  <2>5. CASE \E h \in Handles : Close(h)
    BY <2>5, LockClose
  <2>6. CASE \E h \in Handles :
                 \/ \E blocks \in Requests : Write(h, blocks)
                 \/ Flush(h)
                 \/ \E size \in Nat : Allocate(h, size)
                 \/ \E offset \in Nat : Seek(h, offset)
                 \/ \E n \in Nat : Read(h, n)
    BY <2>6, LockCalls
  <2> QED
    BY <1>2, <2>2, <2>3, <2>4, <2>5, <2>6 DEF Call
<1>3. CASE PowerLoss
  BY <1>3, LockPowerLoss
<1>4. CASE UNCHANGED vars
  <2>1. SameModes /\ UNCHANGED <<lock_counters, mounted, call, file>>
    BY <1>4 DEF vars, SameModes
  <2>2. LocksCountOpenFiles'
    BY <2>1, LocksKept DEF LockInv
  <2> QED
    BY <2>1, <2>2 DEF LockInv, NoneOpen, IsOpen
<1> QED
  BY <1>1, <1>2, <1>3, <1>4 DEF Next

(* slotfs.h:137: however slots and pages divide the device, the counter of *)
(* a slot is the number of its open files, and no two files open for       *)
(* writing have the same slot.                                             *)
THEOREM LocksAreCounted ==
    ASSUME Careful, FewFiles
    PROVE  Spec => []LocksCountOpenFiles
<1>1. Init => TypeInv /\ LockInv
  BY TypeInit, LockInit
<1>2. TypeInv /\ LockInv /\ [Next]_vars => (TypeInv /\ LockInv)'
  BY TypeStep, LockStep
<1>3. LockInv => LocksCountOpenFiles
  BY DEF LockInv
<1> QED
  BY <1>1, <1>2, <1>3, PTL DEF Spec

-----------------------------------------------------------------------------
(* Where blocks are.                                                       *)

LEMMA MetaBlocksApart ==
    ASSUME NEW s \in Slots, NEW i \in {0, 1}
    PROVE  /\ MetaBlock(s, i) \in Addresses /\ MetaBlock(s, i) \in Int
           /\ MetaBlock(s, i) # ConfigBlock
           /\ MetaBlock(s, i) \in SlotBlocks(s)
           /\ \A t \in Slots, k \in {0, 1} : MetaBlock(s, i) = MetaBlock(t, k) => s = t /\ i = k
<1>1. MetaBlock(s, i) \in SlotBlocks(s)
  BY DEF SlotBlocks
<1>2. MetaBlock(s, i) \in Addresses
  BY <1>1, BlocksOnDevice, Constants DEF Addresses
<1> QED
  BY <1>1, <1>2, Constants DEF MetaBlock, Slots, ConfigBlock

LEMMA DataBlocksApart ==
    ASSUME NEW s \in Slots, NEW j \in 1 .. SlotSize
    PROVE  /\ DataBlock(s, j) \in Addresses /\ DataBlock(s, j) \in Int
           /\ DataBlock(s, j) # ConfigBlock
           /\ DataBlock(s, j) \in SlotBlocks(s)
           /\ \A t \in Slots, k \in {0, 1} : DataBlock(s, j) # MetaBlock(t, k)
<1>1. SlotStart(s) \in Nat /\ SlotStart(s) > 0
  BY MetaBeforeData, Constants DEF Slots
<1>2. DataBlock(s, j) \in SlotBlocks(s)
  BY <1>1, Constants DEF SlotBlocks, DataBlock, SlotMax
<1>3. DataBlock(s, j) \in Addresses
  BY <1>2, BlocksOnDevice, Constants DEF Addresses
<1>4. \A t \in Slots, k \in {0, 1} : DataBlock(s, j) # MetaBlock(t, k)
  <2>1. SUFFICES ASSUME NEW t \in Slots, NEW k \in {0, 1}
                 PROVE  DataBlock(s, j) > MetaBlock(t, k)
    BY <1>1, MetaBeforeData, Constants DEF DataBlock, Slots
  <2>2. s \in Nat /\ MetaBlock(t, k) < SlotStart(s) /\ MetaBlock(t, k) \in Nat
    BY MetaBeforeData, Constants DEF Slots
  <2> QED
    BY <1>1, <2>2, Constants DEF DataBlock
<1> QED
  BY <1>1, <1>2, <1>3, <1>4, Constants DEF DataBlock, ConfigBlock

(* A cursor is in the page that starts at or before it.                    *)
LEMMA PageOfCursor ==
    ASSUME NEW c \in Nat
    PROVE  /\ PageStart(c) \in Nat /\ PageStart(c) <= c
           /\ PageOffset(c) \in 0 .. PageBlocks - 1
           /\ PageStart(c) + PageOffset(c) = c
           /\ \A start \in Nat : PageAddress(start, c) = start + PageStart(c)
<1> DEFINE q == c \div PageBlocks
           r == c % PageBlocks
<1>1. PageBlocks \in Nat /\ PageBlocks > 0
  BY Constants
<1>2. q \in Nat /\ r \in 0 .. PageBlocks - 1 /\ c = PageBlocks * q + r
  BY <1>1
<1>3. q * PageBlocks \in Nat /\ q * PageBlocks = PageBlocks * q
  BY <1>1, <1>2
<1> QED
  BY <1>1, <1>2, <1>3 DEF PageStart, PageAddress, PageOffset

(* The cursor moves within its page, or to the start of the next one.      *)
LEMMA PageStartMoves ==
    ASSUME NEW c \in Nat, NEW n \in Nat, PageOffset(c) + n <= PageBlocks, n > 0
    PROVE  /\ PageOffset(c) + n < PageBlocks =>
                  PageStart(c + n) = PageStart(c) /\ PageOffset(c + n) = PageOffset(c) + n
           /\ PageOffset(c) + n = PageBlocks =>
                  PageStart(c + n) = c + n /\ PageOffset(c + n) = 0
<1>1. /\ PageStart(c) \in Nat /\ PageOffset(c) \in Nat /\ PageStart(c) + PageOffset(c) = c
      /\ PageStart(c + n) \in Nat /\ PageStart(c + n) + PageOffset(c + n) = c + n
  <2>1. PICK m \in Nat : m = c + n
    OBVIOUS
  <2>2. PageStart(m) \in Nat /\ PageStart(m) + PageOffset(m) = m
    BY PageOfCursor
  <2>3. /\ PageStart(c) \in Nat /\ PageOffset(c) \in Nat
        /\ PageStart(c) + PageOffset(c) = c
    BY PageOfCursor
  <2> QED
    BY <2>1, <2>2, <2>3
<1>2. PageOffset(c + n) = (PageOffset(c) + n) % PageBlocks
  BY PageOffsetMoves
<1>3. PageOffset(c) + n < PageBlocks => (PageOffset(c) + n) % PageBlocks = PageOffset(c) + n
  BY <1>1, Constants
<1>4. PageBlocks % PageBlocks = 0
  BY Constants
<1> QED
  <2>1. /\ PageOffset(c) + n < PageBlocks => PageOffset(c + n) = PageOffset(c) + n
        /\ PageOffset(c) + n = PageBlocks => PageOffset(c + n) = 0
    BY <1>2, <1>3, <1>4
  <2> QED
    BY <1>1, <2>1

-----------------------------------------------------------------------------
(* What a device write does, done or cut short.                            *)

DeviceWrite == WriteOk \/ disk' \in CutShort \/ (\E kind : WriteFails(kind))

(* A write of one block stores it, garbles it or leaves it.                *)
LEMMA OneBlockWrite ==
    ASSUME TypeInv, call.at \in Writing \ {"page"}, DeviceWrite, NEW a \in Addresses
    PROVE  \/ disk'[a] = disk[a]
           \/ a = Pending.at /\ disk'[a] \in {Pending.blocks[1], Garbled}
<1>1. Pending.at \in Int /\ Len(Pending.blocks) = 1
  BY PendingType DEF Writing
<1>a. a \in Int
  BY Constants DEF Addresses
<1>2. CASE WriteOk
  <2>1. disk'[a] = IF a \in Pending.at .. Pending.at + 1 - 1
                   THEN Pending.blocks[a - Pending.at + 1] ELSE disk[a]
    BY <1>1, <1>2 DEF WriteOk, Stored
  <2> QED
    BY <1>1, <1>a, <2>1
<1>3. CASE \E kind : WriteFails(kind)
  BY <1>3 DEF WriteFails
<1>4. CASE \E n \in 0 .. Len(Pending.blocks) - 1 : disk' = Stored(Pending, n)
  <2>1. disk' = Stored(Pending, 0)
    BY <1>1, <1>4
  <2>2. disk'[a] = IF a \in Pending.at .. Pending.at + 0 - 1
                   THEN Pending.blocks[a - Pending.at + 1] ELSE disk[a]
    BY <2>1 DEF Stored
  <2> QED
    BY <1>1, <1>a, <2>2
<1>5. CASE disk' = [disk EXCEPT ![Pending.at] = Garbled]
  BY <1>5 DEF TypeInv, TypeOK
<1> QED
  BY <1>2, <1>3, <1>4, <1>5 DEF DeviceWrite, CutShort

LEMMA OneBlockStored ==
    ASSUME TypeInv, call.at \in Writing \ {"page"}, WriteOk, Pending.at \in Addresses
    PROVE  disk'[Pending.at] = Pending.blocks[1]
<1>1. Pending.at \in Int /\ Len(Pending.blocks) = 1
  BY PendingType DEF Writing
<1>2. disk'[Pending.at] = IF Pending.at \in Pending.at .. Pending.at + 1 - 1
                          THEN Pending.blocks[Pending.at - Pending.at + 1] ELSE disk[Pending.at]
  BY <1>1 DEF WriteOk, Stored
<1> QED
  BY <1>1, <1>2

(* A write of a page stores all blocks of it, or the first ones, or none.  *)
LEMMA PageWrite ==
    ASSUME SeparateSlots, TypeInv, PlaceInv, call.at = "page", NEW h \in Handles, h = call.h,
           DeviceWrite, NEW slot \in Slots, NEW j \in 1 .. SlotSize
    PROVE  LET f == file[h]
               k == j - PageStart(f.cursor)
               b == disk'[DataBlock(slot, j)]
           IN
           /\ \/ b = disk[DataBlock(slot, j)]
              \/ slot = f.slot /\ k \in 1 .. PageBlocks /\ b = f.page[k]
           /\ WriteOk /\ slot = f.slot /\ k \in 1 .. PageBlocks => b = f.page[k]
<1> DEFINE f == file[h]
           w == Pending.at
           a == DataBlock(slot, j)
           k == j - PageStart(f.cursor)
<1>1. f.mode = "write" /\ InItsSlot(f) /\ f.slot \in Slots
  BY DEF PlaceInv, CallInv, FilesInv, InItsSlot
<1>2. /\ f.cursor \in Nat
      /\ f.cursor < SlotSize \/ (f.cursor = SlotSize /\ PageOffset(f.cursor) > 0)
  BY FileFields, PageBeforeEnd DEF TypeInv, SeparateSlots
<1>3. SlotStart(f.slot) \in Nat /\ SlotStart(slot) \in Nat
  BY <1>1, MetaBeforeData, Constants DEF Slots
<1>4. w = SlotStart(f.slot) + PageStart(f.cursor) /\ PageStart(f.cursor) \in Nat
  BY <1>1, <1>2, <1>3, PageOfCursor DEF Pending, InItsSlot
<1>5. Pending.blocks = f.page /\ Len(Pending.blocks) = PageBlocks
  <2>1. Pending.blocks = f.page
    BY DEF Pending
  <2> QED
    BY <2>1, PendingType DEF Writing
<1>6. w \in Int /\ a \in Int /\ a \in Addresses /\ PageBlocks \in Nat
  BY <1>3, <1>4, DataBlocksApart, Constants
<1>7. \A x \in w .. w + PageBlocks - 1 : x \in PagesOf(f.slot)
  <2>1. w = PageAddress(SlotStart(f.slot), f.cursor)
    BY <1>2, <1>3, <1>4, PageOfCursor
  <2> HIDE DEF f, w
  <2> QED
    BY <1>1, <1>2, <2>1, PageInPages
<1>8. a \in w .. w + PageBlocks - 1 => slot = f.slot
  <2>1. a \in SlotBlocks(slot)
    BY DataBlocksApart
  <2> QED
    BY <1>1, <1>7, <2>1, PagesApart DEF SeparateSlots
<1>9. slot = f.slot => a - w + 1 = k
  BY <1>2, <1>3, <1>4 DEF DataBlock
<1>10. ASSUME NEW n \in 0 .. PageBlocks, disk' = Stored(Pending, n)
       PROVE  /\ \/ disk'[a] = disk[a]
                 \/ a \in w .. w + n - 1 /\ disk'[a] = f.page[a - w + 1]
              /\ a \in w .. w + n - 1 => disk'[a] = f.page[a - w + 1]
  <2>1. disk'[a] = IF a \in w .. w + n - 1 THEN f.page[a - w + 1] ELSE disk[a]
    BY <1>5, <1>6, <1>10 DEF Stored
  <2> QED
    BY <2>1
<1>11. CASE WriteOk
  <2>1. disk' = Stored(Pending, PageBlocks)
    BY <1>5, <1>11 DEF WriteOk
  <2>2. /\ \/ disk'[a] = disk[a]
           \/ a \in w .. w + PageBlocks - 1 /\ disk'[a] = f.page[a - w + 1]
        /\ a \in w .. w + PageBlocks - 1 => disk'[a] = f.page[a - w + 1]
    BY <1>6, <1>10, <2>1
  <2> HIDE DEF a, w, k, f
  <2>3. slot = f.slot => (a \in w .. w + PageBlocks - 1 <=> k \in 1 .. PageBlocks)
    BY <1>6, <1>9
  <2>4. /\ \/ disk'[a] = disk[a]
           \/ slot = f.slot /\ k \in 1 .. PageBlocks /\ disk'[a] = f.page[k]
        /\ slot = f.slot /\ k \in 1 .. PageBlocks => disk'[a] = f.page[k]
    BY <1>8, <1>9, <2>2, <2>3
  <2> QED
    BY <2>4 DEF a, k, f
<1>12. CASE ~WriteOk
  <2>1. disk' = disk \/ \E n \in 0 .. PageBlocks - 1 : disk' = Stored(Pending, n)
    BY <1>5, <1>12 DEF DeviceWrite, WriteFails, CutShort
  <2>2. CASE disk' = disk
    BY <1>12, <2>2
  <2>3. CASE \E n \in 0 .. PageBlocks - 1 : disk' = Stored(Pending, n)
    <3>1. PICK n \in 0 .. PageBlocks - 1 : disk' = Stored(Pending, n)
      BY <2>3
    <3>2. \/ disk'[a] = disk[a]
          \/ a \in w .. w + n - 1 /\ disk'[a] = f.page[a - w + 1]
      BY <1>6, <1>10, <3>1
    <3> HIDE DEF a, w, k, f
    <3>3. a \in w .. w + n - 1 => a \in w .. w + PageBlocks - 1 /\ a - w + 1 \in 1 .. PageBlocks
      BY <1>6, <3>1
    <3>4. \/ disk'[a] = disk[a]
          \/ slot = f.slot /\ k \in 1 .. PageBlocks /\ disk'[a] = f.page[k]
      BY <1>8, <1>9, <3>2, <3>3
    <3> QED
      BY <1>12, <3>4 DEF a, k, f
  <2> QED
    BY <2>1, <2>2, <2>3
<1> QED
  BY <1>11, <1>12

(* A page write touches no metadata.                                       *)
LEMMA PageMeta ==
    ASSUME TypeInv, PlaceInv, call.at = "page", DeviceWrite,
           NEW slot \in Slots, NEW idx \in {0, 1}
    PROVE  disk'[MetaBlock(slot, idx)] = disk[MetaBlock(slot, idx)]
<1>1. PICK h \in Handles : h = call.h
  BY DEF TypeInv, CallShape
<1> DEFINE f == file[h]
           a == MetaBlock(slot, idx)
<1>2. f.mode = "write" /\ InItsSlot(f) /\ f.slot \in Slots /\ f.cursor \in Nat
  BY <1>1, FileFields DEF PlaceInv, CallInv, FilesInv, InItsSlot, TypeInv
<1>3. SlotStart(f.slot) \in Nat /\ f.slot \in Nat
  BY <1>2, MetaBeforeData, Constants DEF Slots
<1>4. Pending.at = SlotStart(f.slot) + PageStart(f.cursor) /\ PageStart(f.cursor) \in Nat
  BY <1>1, <1>2, <1>3, PageOfCursor DEF Pending, InItsSlot
<1>5. a \in Addresses /\ a < SlotStart(f.slot) /\ a \in Int
  BY <1>3, MetaBlocksApart, MetaBeforeData
<1>6. Len(Pending.blocks) \in Nat
  BY PendingType DEF Writing
<1>7. a \notin Target
  <2> HIDE DEF f, a
  <2> QED
    BY <1>3, <1>4, <1>5, <1>6 DEF Target
<1> QED
  BY <1>5, <1>7, WriteInTarget DEF DeviceWrite, Writing

-----------------------------------------------------------------------------
(* What a step keeps of the content of a slot.                             *)

(* The data blocks of the slot are as before.                              *)
SameData(slot) ==
    \A j \in 1 .. SlotSize : disk'[DataBlock(slot, j)] = disk[DataBlock(slot, j)]

(* What was known to be on the device still is.                            *)
Keeps(slot) ==
    /\ acked'[slot] # NoFile => acked[slot] # NoFile
    /\ \A n \in 0 .. SlotSize : OnDevice(slot, n) => OnDevice(slot, n)'

(* What a reader of the slot relies on.                                    *)
KeepsReaders(slot) ==
    /\ Keeps(slot)
    /\ SameData(slot) \/ (acked[slot] # NoFile /\ written'[slot] = written[slot])

LEMMA SameKeeps ==
    ASSUME NEW slot, SameData(slot), written'[slot] = written[slot],
           acked'[slot] # NoFile => acked[slot] # NoFile
    PROVE  Keeps(slot) /\ KeepsReaders(slot)
<1>1. \A n \in 0 .. SlotSize : \A j \in 1 .. n : j \in 1 .. SlotSize
  BY Constants
<1>2. \A n \in 0 .. SlotSize : OnDevice(slot, n) => OnDevice(slot, n)'
  BY <1>1 DEF SameData, OnDevice
<1> QED
  BY <1>2 DEF Keeps, KeepsReaders

(* A file grows behind what is written of it.                              *)
LEMMA GrownKeeps ==
    ASSUME Histories, NEW slot \in SlotNumbers, SameData(slot), acked'[slot] = acked[slot],
           NEW more \in Seq(Block), written'[slot] = written[slot] \o more
    PROVE  Keeps(slot) /\ KeepsReaders(slot)
<1>1. written[slot] \in Seq(Block)
  BY DEF Histories
<1>2. /\ Len(written'[slot]) = Len(written[slot]) + Len(more)
      /\ \A j \in 1 .. Len(written[slot]) : written'[slot][j] = written[slot][j]
  BY <1>1
<1>3. \A n \in 0 .. SlotSize : \A j \in 1 .. n : j \in 1 .. SlotSize
  BY Constants
<1>4. ASSUME NEW n \in 0 .. SlotSize, OnDevice(slot, n)
      PROVE  OnDevice(slot, n)'
  <2>1. n <= Len(written'[slot]) /\ \A j \in 1 .. n : j \in 1 .. Len(written[slot])
    BY <1>1, <1>2, <1>4 DEF OnDevice
  <2> QED
    BY <1>2, <1>3, <1>4, <2>1 DEF SameData, OnDevice
<1> QED
  BY <1>4 DEF Keeps, KeepsReaders

LEMMA DescribesKept ==
    ASSUME NEW md \in Meta, NEW slot, Describes(md, slot), Keeps(slot)
    PROVE  Describes(md, slot)'
<1>1. md.size \in 0 .. SlotSize
  BY Constants DEF Meta, Describes
<1>2. acked'[slot] # NoFile => OnDevice(slot, md.size)'
  BY <1>1 DEF Describes, Keeps
<1> QED
  BY <1>2 DEF Describes

LEMMA SlotMetaKept ==
    ASSUME NEW slot, SlotMeta(slot), Keeps(slot),
           \A idx \in {0, 1} :
              \/ disk'[MetaBlock(slot, idx)] = disk[MetaBlock(slot, idx)]
              \/ disk'[MetaBlock(slot, idx)] \notin Meta
              \/ \E md : disk'[MetaBlock(slot, idx)] = md /\ Describes(md, slot)'
    PROVE  SlotMeta(slot)'
<1> SUFFICES ASSUME NEW idx \in {0, 1}, disk'[MetaBlock(slot, idx)] \in Meta
             PROVE  Describes(disk[MetaBlock(slot, idx)], slot)'
  BY DEF SlotMeta
<1>1. PICK md : md = disk'[MetaBlock(slot, idx)]
  OBVIOUS
<1>2. Describes(md, slot)'
  <2>1. CASE disk'[MetaBlock(slot, idx)] = disk[MetaBlock(slot, idx)]
    BY <1>1, <2>1, DescribesKept DEF SlotMeta
  <2>2. CASE \E m : disk'[MetaBlock(slot, idx)] = m /\ Describes(m, slot)'
    BY <1>1, <2>2
  <2> QED
    BY <2>1, <2>2
<1> QED
  BY <1>1, <1>2 DEF Describes

LEMMA FreshDescribes ==
    ASSUME NEW slot \in SlotNumbers, NEW rev \in {0, 1}, acked'[slot] = NoFile
    PROVE  Describes(FreshMeta(slot, rev), slot)'
BY Constants DEF Describes, FreshMeta

(* The content of a file, as blocks of its slot.                           *)
LEMMA ContentIs ==
    ASSUME NEW md \in Meta, NEW slot \in Slots, md.start = SlotStart(slot), md.size <= SlotSize
    PROVE  /\ Content(md) = [j \in 1 .. md.size |-> disk[DataBlock(slot, j)]]
           /\ (Content(md))' = [j \in 1 .. md.size |-> disk'[DataBlock(slot, j)]]
<1>1. md.size \in Nat
  BY DEF Meta
<1>2. \A j \in 1 .. md.size : j \in 1 .. SlotSize
  BY <1>1, Constants
<1>3. \A j \in 1 .. md.size : DataBlock(slot, j) \in Addresses
  BY <1>2, DataBlocksApart
<1>4. \A j \in 1 .. md.size : md.start + j - 1 \in Addresses
  BY <1>3 DEF DataBlock
<1> QED
  BY <1>4 DEF Content, DataBlock

LEMMA ContentSeq ==
    ASSUME NEW md \in Meta, disk \in [Addresses -> Block]
    PROVE  Content(md) \in Seq(Block) /\ Len(Content(md)) = md.size
<1>1. md.size \in Nat
  BY DEF Meta
<1>2. Content(md) \in [1 .. md.size -> Block]
  BY DEF Content, Block
<1> QED
  BY <1>1, <1>2

LEMMA ReaderKept ==
    ASSUME NEW f \in FileType, NEW content, ReaderOf(f, content), KeepsReaders(f.slot)
    PROVE  ReaderOf(f, content)'
<1> DEFINE slot == f.slot
           md == f.md
<1>1. slot \in Slots /\ md \in Meta /\ Describes(md, slot) /\ Content(md) = content
  BY DEF ReaderOf, FileType
<1>2. md.start = SlotStart(slot) /\ md.size <= SlotSize /\ md.size \in Nat
  BY <1>1 DEF Describes, Meta
<1>3. Describes(md, slot)'
  BY <1>1, DescribesKept DEF KeepsReaders
<1>4. \A j \in 1 .. md.size : disk'[DataBlock(slot, j)] = disk[DataBlock(slot, j)]
  <2>1. CASE SameData(slot)
    BY <1>2, <2>1, Constants DEF SameData
  <2>2. CASE acked[slot] # NoFile /\ written'[slot] = written[slot]
    <3>1. OnDevice(slot, md.size)
      BY <1>1, <2>2 DEF Describes
    <3>2. md.size \in 0 .. SlotSize
      BY <1>2, Constants
    <3>3. OnDevice(slot, md.size)'
      BY <3>1, <3>2 DEF KeepsReaders, Keeps
    <3> QED
      BY <2>2, <3>1, <3>3 DEF OnDevice
  <2> QED
    BY <2>1, <2>2 DEF KeepsReaders
<1>5. Content(md)' = Content(md)
  <2>1. /\ Content(md) = [j \in 1 .. md.size |-> disk[DataBlock(slot, j)]]
        /\ (Content(md))' = [j \in 1 .. md.size |-> disk'[DataBlock(slot, j)]]
    BY <1>1, <1>2, ContentIs
  <2> QED
    BY <1>4, <2>1
<1>6. Content(md)' = content
  BY <1>1, <1>5
<1> QED
  BY <1>1, <1>3, <1>6 DEF ReaderOf

LEMMA RestKept ==
    ASSUME NEW f \in FileType, f.cursor <= SlotSize, AtRest(f), Keeps(f.slot),
           written'[f.slot] = written[f.slot], acked'[f.slot] # NoFile,
           NEW g, g.slot = f.slot, g.cursor = f.cursor,
           \A k \in 1 .. PageOffset(f.cursor) : g.page[k] = f.page[k]
    PROVE  AtRest(g)'
<1>1. f.cursor \in Nat
  BY DEF FileType
<1>2. PageStart(f.cursor) \in 0 .. SlotSize
  BY <1>1, PageOfCursor, Constants
<1>3. OnDevice(f.slot, PageStart(f.cursor))'
  BY <1>2 DEF AtRest, PastStored, Keeps
<1> QED
  BY <1>3 DEF AtRest, PastStored, OnDevice

(* A step about one file: the others stay as they are.                     *)
LEMMA OtherWriters ==
    ASSUME TypeInv, PlaceInv, WriterInv, NEW h \in Handles,
           \A g \in Handles \ {h} : file'[g] = file[g],
           call'.h \in {h, NoHandle},
           \A g \in Handles \ {h} : file[g].mode = "write" =>
              /\ Keeps(file[g].slot) /\ written'[file[g].slot] = written[file[g].slot]
              /\ acked'[file[g].slot] # NoFile,
           file'[h].mode = "write" =>
              AtRest(file[h])' /\ (call'.h = h => InFlight(file[h])')
    PROVE  WriterInv'
<1> SUFFICES ASSUME NEW g \in Handles, file'[g].mode = "write"
             PROVE  AtRest(file[g])' /\ (call'.h = g => InFlight(file[g])')
  BY DEF WriterInv
<1>1. CASE g = h
  BY <1>1
<1>2. CASE g # h
  <2>1. file'[g] = file[g] /\ file[g].mode = "write" /\ call'.h # g
    BY <1>2, Constants
  <2>2. InItsSlot(file[g])
    BY <2>1 DEF PlaceInv, FilesInv
  <2>3. PICK f \in FileType : f = file[g]
    BY DEF TypeInv, TypeOK
  <2>4. AtRest(f)
    BY <2>1, <2>3 DEF WriterInv
  <2>5. AtRest(f)'
    BY <1>2, <2>1, <2>2, <2>3, <2>4, RestKept DEF InItsSlot
  <2>6. AtRest(file[g])'
    BY <2>1, <2>3, <2>5 DEF AtRest, PastStored, OnDevice
  <2> QED
    BY <2>1, <2>6
<1> QED
  BY <1>1, <1>2

LEMMA OtherReaders ==
    ASSUME TypeInv, ReaderInv, NEW h \in Handles,
           \A g \in Handles \ {h} : file'[g] = file[g] /\ seen'[g] = seen[g],
           \A g \in Handles \ {h} : file[g].mode = "read" => KeepsReaders(file[g].slot),
           file'[h].mode = "read" => ReaderOf(file[h], seen[h])'
    PROVE  ReaderInv'
<1> SUFFICES ASSUME NEW g \in Handles, file'[g].mode = "read"
             PROVE  ReaderOf(file[g], seen[g])'
  BY DEF ReaderInv
<1>1. CASE g = h
  BY <1>1
<1>2. CASE g # h
  <2>1. PICK f \in FileType : f = file[g]
    BY DEF TypeInv, TypeOK
  <2>2. PICK content : content = seen[g]
    OBVIOUS
  <2>3. ReaderOf(f, content) /\ KeepsReaders(f.slot)
    BY <1>2, <2>1, <2>2 DEF ReaderInv
  <2>4. ReaderOf(f, content)'
    BY <2>3, ReaderKept
  <2> QED
    BY <1>2, <2>1, <2>2, <2>4 DEF ReaderOf, Describes, OnDevice, Content
<1> QED
  BY <1>1, <1>2

(* Nobody else writes to a slot that a file is open for writing on.        *)
LEMMA OneWriter ==
    ASSUME LockInv, NEW g \in Handles, NEW h \in Handles, g # h,
           file[g].mode = "write", file[h].mode = "write", NEW slot \in SlotNumbers,
           file[h].slot = slot
    PROVE  file[g].slot # slot
BY LocksAre DEF LockInv, Locked

-----------------------------------------------------------------------------
(* Calls and steps that change nothing in the slots.                       *)

LEMMA SameDataQuiet ==
    ASSUME UNCHANGED <<disk, written, acked>>, NEW slot
    PROVE  Keeps(slot) /\ KeepsReaders(slot)
BY SameKeeps DEF SameData

LEMMA MetaQuiet ==
    ASSUME MetaInv, UNCHANGED <<disk, written, acked>>
    PROVE  MetaInv'
BY DEF MetaInv, SlotMeta, Describes, OnDevice

LEMMA ContentQuiet ==
    ASSUME TypeInv, PlaceInv, ContentInv, UNCHANGED <<disk, written, acked>>,
           NEW h \in Handles,
           \A g \in Handles \ {h} : file'[g] = file[g] /\ seen'[g] = seen[g],
           call'.h \in {h, NoHandle}, call'.at \notin {"config", "format", "create"},
           seen' \in [Handles -> Seq(Block)],
           file'[h].mode = "write" =>
              AtRest(file[h])' /\ (call'.h = h => InFlight(file[h])'),
           file'[h].mode = "read" => ReaderOf(file[h], seen[h])'
    PROVE  ContentInv'
<1>1. Histories'
  BY DEF Histories, ContentInv
<1>2. MetaInv'
  BY MetaQuiet DEF ContentInv
<1>3. WriterInv'
  <2>1. \A g \in Handles \ {h} : file[g].mode = "write" =>
              /\ Keeps(file[g].slot) /\ written'[file[g].slot] = written[file[g].slot]
              /\ acked'[file[g].slot] # NoFile
    <3>1. SUFFICES ASSUME NEW g \in Handles \ {h}, file[g].mode = "write", NEW slot,
                          slot = file[g].slot
                   PROVE  /\ Keeps(slot) /\ written'[slot] = written[slot]
                          /\ acked'[slot] # NoFile
      OBVIOUS
    <3>2. acked[slot] # NoFile
      BY <3>1 DEF ContentInv, WriterInv, AtRest
    <3> QED
      BY <3>1, <3>2, SameDataQuiet
  <2> QED
    BY <2>1, OtherWriters DEF ContentInv
<1>4. ReaderInv'
  <2>1. \A g \in Handles \ {h} : file[g].mode = "read" => KeepsReaders(file[g].slot)
    BY SameDataQuiet
  <2> QED
    BY <2>1, OtherReaders DEF ContentInv
<1>5. RenewInv'
  BY DEF RenewInv
<1> QED
  BY <1>1, <1>2, <1>3, <1>4, <1>5 DEF ContentInv

(* A call fails or ends without a change.                                  *)
LEMMA ContentIdle ==
    ASSUME ContentInv, UNCHANGED <<disk, written, acked, file, seen>>, call' = Idle
    PROVE  ContentInv'
<1>1. call'.at = "idle" /\ call'.h \notin Handles
  BY ClosedFileType, Constants
<1>2. Histories' /\ MetaInv' /\ RenewInv'
  BY <1>1, MetaQuiet DEF ContentInv, Histories, RenewInv
<1>3. WriterInv'
  BY <1>1 DEF ContentInv, WriterInv, AtRest, PastStored, OnDevice
<1>4. ReaderInv'
  BY DEF ContentInv, ReaderInv, ReaderOf, Describes, OnDevice, Content
<1> QED
  BY <1>2, <1>3, <1>4 DEF ContentInv

LEMMA RestSame ==
    ASSUME NEW f, AtRest(f), UNCHANGED <<disk, written, acked>>,
           NEW g, g.slot = f.slot, g.cursor = f.cursor,
           \A k \in 1 .. PageOffset(f.cursor) : g.page[k] = f.page[k]
    PROVE  AtRest(g)'
BY DEF AtRest, PastStored, OnDevice

LEMMA ReaderSame ==
    ASSUME NEW f, NEW content, ReaderOf(f, content), UNCHANGED <<disk, written, acked>>,
           NEW g, g.slot = f.slot, g.md = f.md
    PROVE  ReaderOf(g, content)'
BY DEF ReaderOf, Describes, OnDevice, Content

LEMMA ContentWrite ==
    ASSUME SeparateSlots, TypeInv, PlaceInv, ContentInv,
           NEW h \in Handles, NEW blocks \in Requests, Write(h, blocks)
    PROVE  ContentInv'
<1>1. PICK c \in CallType : c = Start("write", "loop", h) /\ c.op = "write" /\ c.at = "loop"
                            /\ c.h = h
  BY StartType DEF Ops, CallPoints
<1>2. /\ call' = [c EXCEPT !.rest = blocks] /\ file[h].mode = "write"
      /\ UNCHANGED <<disk, file, written, acked, seen>>
  BY <1>1 DEF Write, ClientMayWrite, SeparateSlots, history
<1>3. call'.op = "write" /\ call'.at = "loop" /\ call'.h = h
  BY <1>1, <1>2 DEF CallType
<1>4. AtRest(file[h])'
  <2>1. AtRest(file[h])
    BY <1>2 DEF ContentInv, WriterInv
  <2> QED
    BY <1>2, <2>1 DEF AtRest, PastStored, OnDevice
<1>5. InFlight(file[h])'
  BY <1>3 DEF InFlight
<1>6. seen' \in [Handles -> Seq(Block)]
  BY <1>2 DEF ContentInv, Histories
<1> QED
  BY <1>2, <1>3, <1>4, <1>5, <1>6, ContentQuiet

LEMMA ContentWriteLoop ==
    ASSUME TypeInv, PlaceInv, ContentInv, WriteLoop
    PROVE  ContentInv'
<1>1. PICK h \in Handles : h = call.h
  BY DEF WriteLoop, TypeInv, CallShape
<1> DEFINE f == file[h]
           avail == PageBlocks - f.off
           n == IF Len(call.rest) < avail THEN Len(call.rest) ELSE avail
<1>2. /\ call.at = "loop" /\ call.op = "write" /\ f.mode = "write" /\ ~f.failed
      /\ call.rest \in Seq(Block) /\ f \in FileType
  BY <1>1, CallFields DEF WriteLoop, PlaceInv, CallInv, TypeInv, TypeOK
<1>3. InItsSlot(f) /\ f.off = PageOffset(f.cursor) /\ f.cursor \in Nat
  BY <1>1, <1>2 DEF PlaceInv, FilesInv, InChunk, Settled, FileType
<1>4. UNCHANGED <<disk, mounted, lock_counters, faults, history>>
  BY Zenon DEF WriteLoop
<1>5. UNCHANGED <<disk, written, acked, seen>>
  BY <1>4 DEF history
<1>6. CASE call' = Idle /\ UNCHANGED file
  BY <1>5, <1>6, ContentIdle
<1>7. CASE /\ call.rest # <<>> /\ Fits(f, Len(call.rest))
           /\ file' = [file EXCEPT
                  ![h].page = [i \in 1 .. PageBlocks |-> IF i \in f.off + 1 .. f.off + n
                                                     THEN call.rest[i - f.off] ELSE @[i]],
                  ![h].off = f.off + n]
           /\ call' = [call EXCEPT !.n = n,
                          !.at = IF f.off + n = PageBlocks THEN "page" ELSE "advance"]
  <2>1. f.off \in 0 .. PageBlocks - 1 /\ f.off \in Nat
    BY <1>3, PageOfCursor, Constants
  <2>2. n \in Nat /\ n > 0 /\ f.off + n <= PageBlocks
    <3>1. Len(call.rest) \in Nat /\ Len(call.rest) > 0
      BY <1>2, <1>7
    <3> HIDE DEF f
    <3> QED
      BY <2>1, <3>1, Constants
  <2> HIDE DEF n
  <2>3. /\ call'.h = h /\ call'.op = "write" /\ call'.n = n /\ call'.rest = call.rest
        /\ call'.at = IF f.off + n = PageBlocks THEN "page" ELSE "advance"
    BY <1>1, <1>2, <1>7 DEF TypeInv, TypeOK, CallType
  <2>4. /\ file'[h].mode = "write" /\ file'[h].slot = f.slot
        /\ file'[h].cursor = f.cursor /\ file'[h].off = f.off + n
        /\ file'[h].page = [i \in 1 .. PageBlocks |-> IF i \in f.off + 1 .. f.off + n
                                               THEN call.rest[i - f.off] ELSE f.page[i]]
        /\ \A g \in Handles \ {h} : file'[g] = file[g]
    BY <1>2, <1>7 DEF TypeInv, TypeOK, FileType
  <2> HIDE DEF f
  <2>5. PICK g : g = file'[h]
    OBVIOUS
  <2>6. \A k \in 1 .. PageOffset(f.cursor) : g.page[k] = f.page[k]
    BY <1>3, <2>1, <2>4, <2>5, Constants
  <2>7. AtRest(g)'
    <3>1. AtRest(f)
      BY <1>2 DEF ContentInv, WriterInv, f
    <3> QED
      BY <1>5, <2>4, <2>5, <2>6, <3>1, RestSame
  <2>8. \A k \in 1 .. n : g.page[PageOffset(f.cursor) + k] = call.rest[k]
    <3>1. SUFFICES ASSUME NEW k \in 1 .. n PROVE g.page[f.off + k] = call.rest[k]
      BY <1>3
    <3>2. PICK i \in 1 .. PageBlocks : i = f.off + k /\ i \in f.off + 1 .. f.off + n
      BY <2>1, <2>2, Constants
    <3>3. i - f.off = k
      BY <2>1, <2>2, <3>2
    <3>4. g.page[i] = call.rest[i - f.off]
      BY <2>4, <2>5, <3>2
    <3> QED
      BY <3>2, <3>3, <3>4
  <2>9. InFlight(g)'
    <3>1. call'.at \in {"page", "advance"} /\ g.off > 0 /\ g.cursor = f.cursor
      BY <2>1, <2>2, <2>3, <2>4, <2>5
    <3>2. ChunkStored(g)'
      BY <2>3, <2>8, <3>1 DEF ChunkStored
    <3> QED
      BY <3>1, <3>2 DEF InFlight
  <2>10. AtRest(file[h])' /\ InFlight(file[h])'
    BY <2>5, <2>7, <2>9 DEF AtRest, PastStored, OnDevice, InFlight, ChunkStored
  <2>11. seen' \in [Handles -> Seq(Block)]
    BY <1>5 DEF ContentInv, Histories
  <2>12. call'.at \notin {"config", "format", "create"}
    BY <2>3
  <2> QED
    BY <1>5, <2>3, <2>4, <2>10, <2>11, <2>12, ContentQuiet
<1> QED
  BY <1>1, <1>6, <1>7 DEF WriteLoop, Return

(* The start of a flush, by itself or on close.                            *)
LEMMA ContentFlushPoint ==
    ASSUME TypeInv, PlaceInv, ContentInv, NEW h \in Handles, call = Idle,
           file[h].mode = "write", UNCHANGED <<disk, file, written, acked, seen>>,
           call'.at = FlushPoint(h), call'.h = h, call'.op # "write"
    PROVE  ContentInv'
<1>1. PICK f \in FileType : f = file[h]
  BY DEF TypeInv, TypeOK
<1>2. AtRest(f) /\ Settled(f)
  BY <1>1, ClosedFileType, Constants DEF ContentInv, WriterInv, PlaceInv, FilesInv, InChunk
<1>3. AtRest(f)'
  BY <1>2, RestSame
<1>4. call'.at = "sync" => OnDevice(f.slot, f.cursor)'
  <2>1. SUFFICES ASSUME f.off = 0 PROVE OnDevice(f.slot, f.cursor)'
    BY <1>1 DEF FlushPoint, FileType
  <2>2. PageOffset(f.cursor) = 0
    BY <1>2, <2>1, Constants DEF Settled
  <2>3. PageStart(f.cursor) = f.cursor
    <3>1. PICK c \in Nat : c = f.cursor
      BY DEF FileType
    <3>2. PageStart(c) \in Nat /\ PageStart(c) + PageOffset(c) = c
      BY PageOfCursor
    <3> QED
      BY <2>2, <3>1, <3>2
  <2> QED
    BY <1>3, <2>3 DEF AtRest, PastStored
<1>5. call'.at \in {"page", "sync"}
  BY DEF FlushPoint
<1>6. InFlight(f)'
  BY <1>4, <1>5 DEF InFlight
<1>7. AtRest(file[h])' /\ InFlight(file[h])'
  BY <1>1, <1>3, <1>6 DEF AtRest, PastStored, OnDevice, InFlight, ChunkStored
<1>8. seen' \in [Handles -> Seq(Block)]
  BY DEF ContentInv, Histories
<1> QED
  BY <1>5, <1>7, <1>8, ContentQuiet

LEMMA ContentFlush ==
    ASSUME TypeInv, PlaceInv, ContentInv, NEW h \in Handles, Flush(h)
    PROVE  ContentInv'
<1>1. PICK at \in {"page", "sync"} : at = FlushPoint(h)
  BY DEF FlushPoint
<1>2. /\ Start("flush", at, h).op = "flush" /\ Start("flush", at, h).at = at
      /\ Start("flush", at, h).h = h
  BY StartType DEF Ops, CallPoints
<1>3. call'.op = "flush" /\ call'.at = FlushPoint(h) /\ call'.h = h
  BY <1>1, <1>2 DEF Flush
<1>4. call = Idle /\ file[h].mode = "write" /\ UNCHANGED <<disk, file, written, acked, seen>>
  BY DEF Flush, Ready, history
<1> QED
  BY <1>3, <1>4, ContentFlushPoint

LEMMA ContentClose ==
    ASSUME TypeInv, PlaceInv, ContentInv, NEW h \in Handles, Close(h)
    PROVE  ContentInv'
<1>1. CASE file[h].mode = "write"
  <2>1. PICK at \in {"page", "sync"} : at = FlushPoint(h)
    BY DEF FlushPoint
  <2>2. /\ Start("close", at, h).op = "close" /\ Start("close", at, h).at = at
        /\ Start("close", at, h).h = h
    BY StartType DEF Ops, CallPoints
  <2>3. call'.op = "close" /\ call'.at = FlushPoint(h) /\ call'.h = h
    BY <1>1, <2>1, <2>2 DEF Close
  <2>4. call = Idle /\ UNCHANGED <<disk, file, written, acked, seen>>
    BY <1>1 DEF Close, Ready
  <2> QED
    BY <1>1, <2>3, <2>4, ContentFlushPoint
<1>2. CASE file[h].mode = "read"
  <2>1. /\ call' = Idle /\ UNCHANGED <<disk, written, acked>>
        /\ file' = [file EXCEPT ![h] = ClosedFile] /\ seen' = [seen EXCEPT ![h] = <<>>]
    BY <1>2 DEF Close, Ready
  <2>2. file'[h].mode = "closed"
    BY <2>1, ClosedFileType DEF TypeInv, TypeOK
  <2>3. \A g \in Handles \ {h} : file'[g] = file[g] /\ seen'[g] = seen[g]
    BY <2>1 DEF TypeInv, TypeOK, ContentInv, Histories
  <2>4. seen' \in [Handles -> Seq(Block)]
    BY <2>1 DEF ContentInv, Histories
  <2>5. call'.at = "idle" /\ call'.h = NoHandle
    BY <2>1, ClosedFileType
  <2> QED
    BY <2>1, <2>2, <2>3, <2>4, <2>5, ContentQuiet
<1> QED
  BY <1>1, <1>2 DEF Close

LEMMA ContentSync ==
    ASSUME TypeInv, PlaceInv, ContentInv, Sync
    PROVE  ContentInv'
<1>1. PICK h \in Handles : h = call.h
  BY SyncFrame DEF TypeInv, CallShape
<1>2. PICK f \in FileType : f = file[h]
  BY DEF TypeInv, TypeOK
<1>3. PICK g : g = file'[h]
  OBVIOUS
<1>4. /\ UNCHANGED <<disk, written, acked, seen>> /\ call.at = "sync"
      /\ \A x \in Handles \ {h} : file'[x] = file[x]
      /\ g.mode = f.mode /\ g.slot = f.slot /\ g.cursor = f.cursor /\ g.off = f.off
      /\ g.page = f.page /\ g.md.size = f.cursor
  BY <1>1, <1>2, <1>3, SyncIs
<1>5. f.mode = "write" /\ AtRest(f) /\ InFlight(f)
  BY <1>1, <1>2, <1>4 DEF PlaceInv, CallInv, ContentInv, WriterInv
<1>6. call.op = "write" => Chunk(f)
  BY <1>1, <1>2, <1>4, <1>5 DEF PlaceInv, FilesInv, InChunk
<1>7. AtRest(g)'
  BY <1>4, <1>5, RestSame
<1>8. \/ call' = Idle
      \/ /\ call'.at \in {"meta", "advance"} /\ call'.h = h /\ call'.op = call.op
         /\ call'.n = call.n /\ call'.rest = call.rest
         /\ call'.at = "advance" => call'.op = "write"
  BY <1>1, SyncTo
<1>9. ASSUME call'.h = h
      PROVE  InFlight(g)'
  <2>1. /\ call'.at \in {"meta", "advance"} /\ call'.op = call.op
        /\ call'.n = call.n /\ call'.rest = call.rest
        /\ call'.at = "advance" => call'.op = "write"
    BY <1>8, <1>9, ClosedFileType, Constants
  <2>2. OnDevice(g.slot, g.cursor)'
    <3>1. OnDevice(f.slot, f.cursor)
      BY <1>4, <1>5 DEF InFlight
    <3> QED
      BY <1>4, <3>1 DEF OnDevice
  <2>3. call.op = "write" => ChunkStored(g)'
    <3>1. SUFFICES ASSUME call.op = "write" PROVE ChunkStored(g)'
      OBVIOUS
    <3>2. ChunkStored(f) /\ f.off = 0
      BY <1>4, <1>5, <1>6, <3>1 DEF InFlight, Chunk
    <3>3. \A k \in 1 .. call.n : disk[DataBlock(f.slot, f.cursor + k)] = call.rest[k]
      BY <1>4, <3>2 DEF ChunkStored
    <3> QED
      BY <1>4, <2>1, <3>2, <3>3 DEF ChunkStored
  <2> QED
    BY <1>4, <2>1, <2>2, <2>3 DEF InFlight
<1>10. AtRest(file[h])' /\ (call'.h = h => InFlight(file[h])')
  BY <1>3, <1>7, <1>9 DEF AtRest, PastStored, OnDevice, InFlight, ChunkStored
<1>11. seen' \in [Handles -> Seq(Block)]
  BY <1>4 DEF ContentInv, Histories
<1>12. call'.h \in {h, NoHandle} /\ call'.at \notin {"config", "format", "create"}
  BY <1>8, ClosedFileType
<1> QED
  BY <1>2, <1>3, <1>4, <1>5, <1>10, <1>11, <1>12, ContentQuiet

(* Calls about a file open for reading.                                    *)
LEMMA ContentReader ==
    ASSUME TypeInv, PlaceInv, ContentInv, NEW h \in Handles, file[h].mode = "read",
           UNCHANGED <<disk, written, acked, seen>>,
           \A g \in Handles \ {h} : file'[g] = file[g],
           file'[h].mode = "read", file'[h].slot = file[h].slot, file'[h].md = file[h].md,
           call'.h \in {h, NoHandle}, call'.at \notin {"config", "format", "create"}
    PROVE  ContentInv'
<1>1. PICK f, g, content : f = file[h] /\ g = file'[h] /\ content = seen[h]
  OBVIOUS
<1>2. ReaderOf(f, content)
  BY <1>1 DEF ContentInv, ReaderInv
<1>3. ReaderOf(g, content)'
  BY <1>1, <1>2, ReaderSame
<1>4. ReaderOf(file[h], seen[h])'
  BY <1>1, <1>3 DEF ReaderOf, Describes, OnDevice, Content
<1>5. seen' \in [Handles -> Seq(Block)]
  BY DEF ContentInv, Histories
<1> QED
  BY <1>4, <1>5, ContentQuiet

LEMMA ContentRead ==
    ASSUME TypeInv, PlaceInv, ContentInv, NEW h \in Handles, NEW n \in Nat,
           Seek(h, n) \/ Read(h, n)
    PROVE  ContentInv'
<1>1. CASE Seek(h, n)
  <2>1. /\ file[h].mode = "read" /\ call' = Idle /\ UNCHANGED <<disk, written, acked, seen>>
        /\ file' = [file EXCEPT ![h] = [Cleared(@) EXCEPT !.cursor = n]]
    BY <1>1 DEF Seek, Ready, history
  <2>2. /\ file'[h].mode = "read" /\ file'[h].slot = file[h].slot /\ file'[h].md = file[h].md
        /\ \A g \in Handles \ {h} : file'[g] = file[g]
    BY <2>1 DEF Cleared, TypeInv, TypeOK, FileType
  <2> QED
    BY <2>1, <2>2, ContentReader, ClosedFileType
<1>2. CASE Read(h, n)
  <2>1. PICK c \in CallType : c = Start("read", "fetch", h) /\ c.op = "read" /\ c.at = "fetch"
                              /\ c.h = h
    BY StartType DEF Ops, CallPoints
  <2>2. /\ call' = [c EXCEPT !.n = n] /\ file[h].mode = "read"
        /\ UNCHANGED <<disk, file, written, acked, seen>>
    BY <1>2, <2>1 DEF Read, history
  <2>3. call'.h = h /\ call'.at = "fetch"
    BY <2>1, <2>2 DEF CallType
  <2> QED
    BY <2>2, <2>3, ContentReader
<1> QED
  BY <1>1, <1>2

LEMMA ContentReadLoop ==
    ASSUME TypeInv, PlaceInv, ContentInv, ReadLoop
    PROVE  ContentInv'
<1>1. PICK h \in Handles : h = call.h
  BY ReadLoopFrame DEF TypeInv, CallShape
<1>2. file[h].mode = "read"
  BY <1>1, ReadLoopFrame DEF PlaceInv, CallInv
<1>3. /\ UNCHANGED <<disk, written, acked, seen>>
      /\ \A g \in Handles \ {h} : file'[g] = file[g]
      /\ file'[h].mode = file[h].mode /\ file'[h].slot = file[h].slot
      /\ file'[h].md = file[h].md
      /\ call' = Idle \/ (call'.h = h /\ call'.at = "fetch")
  BY <1>1, ReadLoopKeeps
<1> QED
  BY <1>2, <1>3, ContentReader, ClosedFileType

(* Metadata that is found describes its slot.                              *)
LEMMA FoundDescribes ==
    ASSUME TypeInv, MetaInv, NEW slot \in Slots, NEW readable \in SUBSET ValidIdx(slot),
           readable # {}
    PROVE  Describes(ReadMeta(slot, readable), slot)
<1>1. slot \in SlotNumbers
  BY Constants DEF Slots, SlotNumbers
<1>2. PICK idx \in {0, 1} : idx = MostRecentIdx(slot, readable) /\ idx \in ValidIdx(slot)
  BY <1>1, ReadMetaType DEF TypeInv, ValidIdx
<1> QED
  BY <1>2 DEF MetaInv, SlotMeta, ReadMeta, ValidIdx

LEMMA ContentOpenRead ==
    ASSUME SeparateSlots, TypeInv, PlaceInv, ContentInv,
           NEW h \in Handles, NEW slot \in ClientSlots, OpenRead(h, slot)
    PROVE  ContentInv'
<1>1. slot \in Slots /\ slot \in SlotNumbers
  BY Constants DEF ClientSlots, SeparateSlots, Slots, SlotNumbers
<1>2. call' = Idle /\ UNCHANGED <<disk, written, acked>>
  BY DEF OpenRead, Ready
<1>3. CASE UNCHANGED <<file, seen>>
  BY <1>2, <1>3, ContentIdle
<1>4. CASE \E readable \in SUBSET ValidIdx(slot) : readable # {} /\
               file' = [file EXCEPT ![h] = OpenedFile(slot, "read", ReadMeta(slot, readable))]
               /\ seen' = [seen EXCEPT ![h] = Content(ReadMeta(slot, readable))]
  <2>1. PICK readable \in SUBSET ValidIdx(slot) : readable # {} /\
            file' = [file EXCEPT ![h] = OpenedFile(slot, "read", ReadMeta(slot, readable))]
            /\ seen' = [seen EXCEPT ![h] = Content(ReadMeta(slot, readable))]
    BY <1>4
  <2>2. PICK md \in Meta : md = ReadMeta(slot, readable)
    BY <1>1, <2>1, ReadMetaType DEF TypeInv
  <2>a. PICK f : f = OpenedFile(slot, "read", md)
    OBVIOUS
  <2>3. f = OpenedFile(slot, "read", md) /\ f.mode = "read" /\ f.slot = slot /\ f.md = md
    BY <2>a DEF OpenedFile, ClosedFile
  <2>4. file'[h] = f /\ \A g \in Handles \ {h} : file'[g] = file[g]
    BY <2>1, <2>2, <2>3 DEF TypeInv, TypeOK
  <2>5. seen'[h] = Content(md) /\ \A g \in Handles \ {h} : seen'[g] = seen[g]
    BY <2>1, <2>2 DEF ContentInv, Histories
  <2>6. Content(md) \in Seq(Block)
    BY ContentSeq DEF TypeInv, TypeOK
  <2>7. seen' \in [Handles -> Seq(Block)]
    BY <2>1, <2>2, <2>6 DEF ContentInv, Histories
  <2>8. Describes(md, slot)
    BY <1>1, <2>1, <2>2, FoundDescribes DEF ContentInv
  <2>9. PICK content : content = seen'[h]
    OBVIOUS
  <2>10. ReaderOf(f, content)
    BY <1>1, <2>3, <2>5, <2>8, <2>9 DEF ReaderOf
  <2>11. ReaderOf(f, content)'
    BY <1>2, <2>10, ReaderSame
  <2>12. ReaderOf(file[h], seen[h])'
    BY <2>4, <2>9, <2>11 DEF ReaderOf, Describes, OnDevice, Content
  <2> QED
    BY <1>2, <2>3, <2>4, <2>5, <2>7, <2>12, ContentQuiet, ClosedFileType
<1> QED
  BY <1>3, <1>4 DEF OpenRead

-----------------------------------------------------------------------------
(* Slots that start over.                                                  *)

LEMMA ContentMount ==
    ASSUME TypeInv, PlaceInv, LockInv, ContentInv, SfsInit \/ SfsFormat \/ SfsDeinit
    PROVE  ContentInv'
<1>1. UNCHANGED <<disk, file, written, seen>>
  BY DEF SfsInit, SfsFormat, SfsDeinit, history
<1>2. CASE UNCHANGED acked /\ call' = Idle
  BY <1>1, <1>2, ContentIdle
<1>3. CASE \E op \in {"init", "format"} : /\ call' = Start(op, "config", NoHandle) /\ NoneOpen
                                          /\ acked' = [s \in SlotNumbers |-> NoFile]
  <2>1. call'.at = "config" /\ call'.slot = 0 /\ call'.h = NoHandle
    <3>1. PICK op \in {"init", "format"} : call' = Start(op, "config", NoHandle)
      BY <1>3
    <3> QED
      BY <3>1 DEF Start, Idle
  <2>2. \A slot \in Slots : slot \in SlotNumbers /\ acked'[slot] = NoFile
    BY <1>3, Constants DEF Slots, SlotNumbers
  <2>3. Histories'
    BY <1>1, <1>3 DEF ContentInv, Histories
  <2>4. MetaInv'
    <3>1. SUFFICES ASSUME NEW slot \in Slots PROVE SlotMeta(slot)'
      BY DEF MetaInv
    <3>2. Keeps(slot)
      BY <1>1, <2>2, SameKeeps DEF SameData
    <3> QED
      BY <1>1, <3>2, SlotMetaKept DEF ContentInv, MetaInv
  <2>5. NoneOpen'
    BY <1>1, <1>3 DEF NoneOpen
  <2>6. WriterInv' /\ ReaderInv'
    BY <2>5 DEF NoneOpen, WriterInv, ReaderInv
  <2>7. 0 \in Slots
    BY Constants DEF Slots
  <2>8. RenewInv'
    BY <2>1, <2>2, <2>5, <2>7 DEF RenewInv
  <2> QED
    BY <2>3, <2>4, <2>6, <2>8 DEF ContentInv
<1> QED
  BY <1>2, <1>3 DEF SfsInit, SfsFormat, SfsDeinit, Ready, ClientMayUnmount, LockInv, history

LEMMA ContentOpenWrite ==
    ASSUME SeparateSlots, TypeInv, PlaceInv, LockInv, ContentInv,
           NEW h \in Handles, NEW slot \in ClientSlots, OpenWrite(h, slot)
    PROVE  ContentInv'
<1>1. slot \in Slots /\ slot \in SlotNumbers
  BY Constants DEF ClientSlots, SeparateSlots, Slots, SlotNumbers
<1>2. UNCHANGED <<disk, file, written, seen>> /\ call = Idle /\ file[h].mode = "closed"
  BY DEF OpenWrite, Ready
<1>3. CASE UNCHANGED acked /\ call' = Idle
  BY <1>2, <1>3, ContentIdle
<1>4. CASE /\ Unlocked(slot) /\ call' = [Start("open", "create", h) EXCEPT !.slot = slot]
           /\ acked' = [acked EXCEPT ![slot] = NoFile]
  <2>1. call'.at = "create" /\ call'.slot = slot /\ call'.h = h /\ call'.idx = 0
    BY <1>4 DEF Start, Idle
  <2>2. \A g \in Handles : ~(IsOpen(g) /\ file[g].slot = slot)
    BY <1>1, <1>4, UnlockedIsClosed DEF Unlocked
  <2>3. acked'[slot] = NoFile /\ \A t \in SlotNumbers : t # slot => acked'[t] = acked[t]
    BY <1>1, <1>4 DEF ContentInv, Histories
  <2>4. \A t \in SlotNumbers : Keeps(t) /\ KeepsReaders(t)
    BY <1>2, <2>3, SameKeeps DEF SameData
  <2>5. Histories'
    BY <1>2, <1>4 DEF ContentInv, Histories
  <2>6. MetaInv'
    <3>1. SUFFICES ASSUME NEW t \in Slots PROVE SlotMeta(t)'
      BY DEF MetaInv
    <3>2. Keeps(t)
      BY <2>4, Constants DEF Slots, SlotNumbers
    <3> QED
      BY <1>2, <3>2, SlotMetaKept DEF ContentInv, MetaInv
  <2>7. WriterInv'
    <3>1. \A g \in Handles \ {h} : file[g].mode = "write" =>
              /\ Keeps(file[g].slot) /\ written'[file[g].slot] = written[file[g].slot]
              /\ acked'[file[g].slot] # NoFile
      <4>1. SUFFICES ASSUME NEW g \in Handles, file[g].mode = "write", NEW t, t = file[g].slot
                     PROVE  Keeps(t) /\ written'[t] = written[t] /\ acked'[t] # NoFile
        OBVIOUS
      <4>2. t # slot /\ t \in SlotNumbers
        BY <2>2, <4>1, FileFields DEF IsOpen, TypeInv
      <4>3. acked[t] # NoFile
        BY <4>1 DEF ContentInv, WriterInv, AtRest
      <4> QED
        BY <1>2, <2>3, <2>4, <4>2, <4>3
    <3>2. file'[h].mode # "write" /\ \A g \in Handles \ {h} : file'[g] = file[g]
      BY <1>2
    <3> QED
      BY <2>1, <3>1, <3>2, OtherWriters DEF ContentInv
  <2>8. ReaderInv'
    <3>1. \A g \in Handles \ {h} : file[g].mode = "read" => KeepsReaders(file[g].slot)
      BY <2>4, FileFields DEF TypeInv
    <3>2. file'[h].mode # "read"
          /\ \A g \in Handles \ {h} : file'[g] = file[g] /\ seen'[g] = seen[g]
      BY <1>2
    <3> QED
      BY <3>1, <3>2, OtherReaders DEF ContentInv
  <2>9. RenewInv'
    BY <2>1, <2>3 DEF RenewInv
  <2> QED
    BY <2>5, <2>6, <2>7, <2>8, <2>9 DEF ContentInv
<1> QED
  BY <1>2, <1>3, <1>4 DEF OpenWrite

-----------------------------------------------------------------------------
(* Writes of one block.                                                    *)

LEMMA MetaWriteIs ==
    ASSUME TypeInv, PlaceInv, RenewInv, call.at \in Writing \ {"page"}, DeviceWrite
    PROVE  /\ \A slot \in Slots : SameData(slot)
           /\ \A slot \in Slots, idx \in {0, 1} :
                LET b == disk'[MetaBlock(slot, idx)] IN
                \/ b = disk[MetaBlock(slot, idx)]
                \/ b = Garbled
                \/ /\ call.at = "format" /\ slot = call.slot /\ idx = call.idx
                   /\ b = FreshMeta(slot, 0)
                \/ /\ call.at = "create" /\ slot = call.slot /\ idx = call.idx
                   /\ b = FreshMeta(slot, 1)
                \/ /\ call.at = "meta" /\ slot = file[call.h].slot /\ idx = call.idx
                   /\ b = file[call.h].md
<1>1. call.idx \in {0, 1}
  BY CallFields DEF TypeInv
<1>2. \/ call.at = "config" /\ Pending.at = ConfigBlock
      \/ /\ call.at = "format" /\ call.slot \in Slots
         /\ Pending.at = MetaBlock(call.slot, call.idx)
         /\ Pending.blocks[1] = FreshMeta(call.slot, 0)
      \/ /\ call.at = "create" /\ call.slot \in Slots
         /\ Pending.at = MetaBlock(call.slot, call.idx)
         /\ Pending.blocks[1] = FreshMeta(call.slot, 1)
      \/ /\ call.at = "meta" /\ file[call.h].slot \in Slots
         /\ Pending.at = MetaBlock(file[call.h].slot, call.idx)
         /\ Pending.blocks[1] = file[call.h].md
  <2>1. CASE call.at = "config"
    BY <2>1 DEF Pending
  <2>2. CASE call.at = "format"
    BY <2>2 DEF Pending, RenewInv
  <2>3. CASE call.at = "create"
    BY <2>3 DEF Pending, PlaceInv, CallInv
  <2>4. CASE call.at = "meta"
    <3>1. file[call.h].slot \in Slots
      BY <2>4 DEF PlaceInv, CallInv, FilesInv, InItsSlot, TypeInv, CallShape
    <3> QED
      BY <2>4, <3>1 DEF Pending
  <2> QED
    BY <2>1, <2>2, <2>3, <2>4 DEF Writing
<1>3. \A slot \in Slots : SameData(slot)
  <2>1. SUFFICES ASSUME NEW slot \in Slots, NEW j \in 1 .. SlotSize
                 PROVE  disk'[DataBlock(slot, j)] = disk[DataBlock(slot, j)]
    BY DEF SameData
  <2>2. DataBlock(slot, j) # Pending.at
    BY <1>1, <1>2, DataBlocksApart
  <2> QED
    BY <2>2, DataBlocksApart, OneBlockWrite
<1>4. ASSUME NEW slot \in Slots, NEW idx \in {0, 1}
      PROVE  LET b == disk'[MetaBlock(slot, idx)] IN
             \/ b = disk[MetaBlock(slot, idx)]
             \/ b = Garbled
             \/ /\ call.at = "format" /\ slot = call.slot /\ idx = call.idx
                /\ b = FreshMeta(slot, 0)
             \/ /\ call.at = "create" /\ slot = call.slot /\ idx = call.idx
                /\ b = FreshMeta(slot, 1)
             \/ /\ call.at = "meta" /\ slot = file[call.h].slot /\ idx = call.idx
                /\ b = file[call.h].md
  <2>1. PICK a \in Addresses : a = MetaBlock(slot, idx)
    BY MetaBlocksApart
  <2>2. \/ disk'[a] = disk[a]
        \/ a = Pending.at /\ disk'[a] \in {Pending.blocks[1], Garbled}
    BY OneBlockWrite
  <2>3. CASE disk'[a] = disk[a]
    BY <2>1, <2>3
  <2>4. CASE a = Pending.at /\ disk'[a] = Garbled
    BY <2>1, <2>4
  <2>5. CASE a = Pending.at /\ disk'[a] = Pending.blocks[1]
    <3>1. ConfigBlock # a
      BY <2>1, MetaBlocksApart
    <3>2. \A t \in Slots : a = MetaBlock(t, call.idx) => t = slot /\ call.idx = idx
      BY <1>1, <2>1, MetaBlocksApart
    <3> QED
      BY <1>2, <2>1, <2>5, <3>1, <3>2
  <2> QED
    BY <2>2, <2>3, <2>4, <2>5
<1> QED
  BY <1>3, <1>4

LEMMA NotMeta == Garbled \notin Meta /\ Blank \notin Meta
BY SlotFSAssumption

(* The device stays as described when metadata is written.                 *)
LEMMA MetaWriteKeeps ==
    ASSUME TypeInv, PlaceInv, ContentInv, call.at \in Writing \ {"page"}, DeviceWrite,
           UNCHANGED <<written, acked>>
    PROVE  /\ \A slot \in Slots : Keeps(slot) /\ KeepsReaders(slot)
           /\ MetaInv'
<1>1. \A slot \in Slots : SameData(slot)
  BY MetaWriteIs DEF ContentInv
<1>2. \A slot \in Slots : Keeps(slot) /\ KeepsReaders(slot)
  BY <1>1, SameKeeps
<1>3. MetaInv'
  <2>1. SUFFICES ASSUME NEW slot \in Slots PROVE SlotMeta(slot)'
    BY DEF MetaInv
  <2>2. slot \in SlotNumbers
    BY Constants DEF Slots, SlotNumbers
  <2>3. ASSUME NEW idx \in {0, 1}
        PROVE  \/ disk'[MetaBlock(slot, idx)] = disk[MetaBlock(slot, idx)]
               \/ disk'[MetaBlock(slot, idx)] \notin Meta
               \/ \E md : disk'[MetaBlock(slot, idx)] = md /\ Describes(md, slot)'
    <3>1. PICK b : b = disk'[MetaBlock(slot, idx)]
      OBVIOUS
    <3>2. \/ b = disk[MetaBlock(slot, idx)]
          \/ b = Garbled
          \/ call.at = "format" /\ slot = call.slot /\ b = FreshMeta(slot, 0)
          \/ call.at = "create" /\ slot = call.slot /\ b = FreshMeta(slot, 1)
          \/ call.at = "meta" /\ slot = file[call.h].slot /\ b = file[call.h].md
      BY <3>1, MetaWriteIs DEF ContentInv
    <3>3. CASE b = Garbled
      BY <3>1, <3>3, NotMeta
    <3>4. CASE call.at \in {"format", "create"} /\ slot = call.slot
               /\ b \in {FreshMeta(slot, 0), FreshMeta(slot, 1)}
      <4>1. acked'[slot] = NoFile
        BY <3>4, <2>1 DEF ContentInv, RenewInv
      <4> QED
        BY <2>2, <3>1, <3>4, <4>1, FreshDescribes
    <3>5. CASE call.at = "meta" /\ slot = file[call.h].slot /\ b = file[call.h].md
      <4>1. PICK h \in Handles : h = call.h
        BY <3>5 DEF TypeInv, CallShape
      <4>2. /\ file[h].mode = "write" /\ InItsSlot(file[h]) /\ b \in Meta
            /\ InFlight(file[h])
        BY <3>5, <4>1, FileFields DEF PlaceInv, CallInv, FilesInv, ContentInv, WriterInv, TypeInv
      <4>3. b.start = SlotStart(slot) /\ b.size <= SlotSize /\ OnDevice(slot, b.size)
        BY <3>5, <4>1, <4>2 DEF InItsSlot, InFlight
      <4>4. Describes(b, slot)
        BY <4>3 DEF Describes
      <4>5. Describes(b, slot)'
        BY <1>2, <4>2, <4>4, DescribesKept
      <4> QED
        BY <3>1, <4>5
    <3> QED
      BY <3>1, <3>2, <3>3, <3>4, <3>5
  <2> QED
    BY <1>2, <2>3, SlotMetaKept DEF ContentInv, MetaInv
<1> QED
  BY <1>2, <1>3

LEMMA ContentFormat ==
    ASSUME TypeInv, PlaceInv, ContentInv, FormatConfig \/ FormatMeta
    PROVE  ContentInv'
<1>1. /\ call.at \in {"config", "format"} /\ UNCHANGED <<file, written, acked, seen>>
      /\ DeviceWrite
  BY DEF FormatConfig, FormatMeta, history, DeviceWrite
<1>2. /\ NoneOpen /\ call.slot \in Slots /\ \A slot \in Slots : acked[slot] = NoFile
  BY <1>1 DEF ContentInv, RenewInv
<1>3. NoneOpen'
  BY <1>1, <1>2 DEF NoneOpen
<1>4. MetaInv'
  BY <1>1, MetaWriteKeeps DEF Writing
<1>5. \/ call' = Idle
      \/ call'.at = "format" /\ call'.slot \in Slots
  <2>1. call \in CallType
    BY DEF TypeInv, TypeOK
  <2>2. CASE FormatConfig
    BY <1>2, <2>1, <2>2 DEF FormatConfig, Return, CallType
  <2>3. CASE FormatMeta
    <3>1. \/ call' = Idle
          \/ call' = [call EXCEPT !.idx = 1] /\ call.at = "format"
          \/ /\ call.slot + 1 < SlotCount /\ call.at = "format"
             /\ call' = [call EXCEPT !.idx = 0, !.slot = @ + 1]
      BY <2>3 DEF FormatMeta, Return
    <3>2. call.slot + 1 < SlotCount => call.slot + 1 \in Slots
      BY <1>2, Constants DEF Slots
    <3> QED
      BY <1>2, <2>1, <3>1, <3>2 DEF CallType
  <2> QED
    BY <2>2, <2>3
<1>6. RenewInv'
  BY <1>1, <1>2, <1>3, <1>5, ClosedFileType DEF RenewInv
<1>7. Histories'
  BY <1>1 DEF ContentInv, Histories
<1>8. WriterInv' /\ ReaderInv'
  BY <1>3 DEF NoneOpen, WriterInv, ReaderInv
<1> QED
  BY <1>4, <1>6, <1>7, <1>8 DEF ContentInv

(* One file is worked on, the device changes: what is left to show.        *)
LEMMA ContentWrites ==
    ASSUME TypeInv, PlaceInv, LockInv, ContentInv, NEW h \in Handles,
           Histories', MetaInv', UNCHANGED seen,
           \A g \in Handles \ {h} : file'[g] = file[g],
           call'.h \in {h, NoHandle}, call'.at \notin {"config", "format", "create"},
           \A g \in Handles \ {h} : file[g].mode = "read" => KeepsReaders(file[g].slot),
           \A g \in Handles \ {h} : file[g].mode = "write" =>
              /\ Keeps(file[g].slot) /\ written'[file[g].slot] = written[file[g].slot]
              /\ acked'[file[g].slot] # NoFile,
           file'[h].mode # "read",
           file'[h].mode = "write" =>
              AtRest(file[h])' /\ (call'.h = h => InFlight(file[h])')
    PROVE  ContentInv'
<1>1. WriterInv'
  BY OtherWriters DEF ContentInv
<1>2. ReaderInv'
  BY OtherReaders DEF ContentInv
<1>3. RenewInv'
  BY DEF RenewInv
<1> QED
  BY <1>1, <1>2, <1>3 DEF ContentInv

LEMMA ContentCreateMeta ==
    ASSUME TypeInv, PlaceInv, LockInv, ContentInv, CreateMeta
    PROVE  ContentInv'
<1>1. PICK h \in Handles : h = call.h
  BY DEF CreateMeta, TypeInv, CallShape
<1>2. PICK slot \in Slots : slot = call.slot
  BY DEF CreateMeta, PlaceInv, CallInv
<1>3. /\ call.at = "create" /\ DeviceWrite /\ UNCHANGED seen
      /\ file[h].mode = "closed" /\ lock_counters[slot] = 0 /\ slot \in SlotNumbers
      /\ acked[slot] = NoFile
      /\ call.idx = 1 => disk[MetaBlock(slot, 0)] = FreshMeta(slot, 1)
  BY <1>1, <1>2, CallFields
     DEF CreateMeta, DeviceWrite, LockInv, IsOpen, ContentInv, RenewInv, TypeInv
<1>4. \A g \in Handles : ~(IsOpen(g) /\ file[g].slot = slot)
  BY <1>3, UnlockedIsClosed
<1>5. CASE call' = Idle /\ UNCHANGED <<file, written, acked>>
  <2>1. MetaInv' /\ \A t \in Slots : Keeps(t) /\ KeepsReaders(t)
    BY <1>3, <1>5, MetaWriteKeeps DEF Writing
  <2>2. Histories'
    BY <1>3, <1>5 DEF ContentInv, Histories
  <2>3. \A g \in Handles : file[g].mode = "read" => KeepsReaders(file[g].slot)
    BY <2>1 DEF ContentInv, ReaderInv, ReaderOf
  <2>4. \A g \in Handles : file[g].mode = "write" =>
            Keeps(file[g].slot) /\ acked[file[g].slot] # NoFile
    BY <2>1 DEF ContentInv, WriterInv, AtRest, PlaceInv, FilesInv, InItsSlot
  <2> QED
    BY <1>3, <1>5, <2>1, <2>2, <2>3, <2>4, ContentWrites, ClosedFileType
<1>6. CASE WriteOk /\ call.idx = 0 /\ call' = [call EXCEPT !.idx = 1]
           /\ UNCHANGED <<file, written, acked>>
  <2>1. call'.at = "create" /\ call'.slot = slot /\ call'.h = h /\ call'.idx = 1
    BY <1>1, <1>2, <1>3, <1>6 DEF TypeInv, TypeOK, CallType
  <2>2. MetaInv' /\ \A t \in Slots : Keeps(t) /\ KeepsReaders(t)
    BY <1>3, <1>6, MetaWriteKeeps DEF Writing
  <2>3. Histories'
    BY <1>3, <1>6 DEF ContentInv, Histories
  <2>4. \A g \in Handles : file[g].mode = "read" => KeepsReaders(file[g].slot)
    BY <2>2 DEF ContentInv, ReaderInv, ReaderOf
  <2>5. \A g \in Handles : file[g].mode = "write" =>
            Keeps(file[g].slot) /\ acked[file[g].slot] # NoFile
    BY <2>2 DEF ContentInv, WriterInv, AtRest, PlaceInv, FilesInv, InItsSlot
  <2>6. WriterInv'
    BY <1>3, <1>6, <2>1, <2>5, OtherWriters DEF ContentInv
  <2>7. ReaderInv'
    BY <1>3, <1>6, <2>4, OtherReaders DEF ContentInv
  <2>8. disk'[MetaBlock(slot, 0)] = FreshMeta(slot, 1)
    <3>1. Pending.at = MetaBlock(slot, 0) /\ Pending.blocks[1] = FreshMeta(slot, 1)
      BY <1>2, <1>3, <1>6 DEF Pending
    <3>2. Pending.at \in Addresses
      BY <3>1, MetaBlocksApart
    <3> QED
      BY <1>3, <1>6, <3>1, <3>2, OneBlockStored DEF Writing
  <2>9. RenewInv'
    BY <1>3, <1>6, <2>1, <2>8 DEF RenewInv
  <2> QED
    BY <2>2, <2>3, <2>6, <2>7, <2>9 DEF ContentInv
<1>7. CASE /\ WriteOk /\ call.idx = 1 /\ call' = Idle
           /\ file' = [file EXCEPT ![call.h] =
                           OpenedFile(call.slot, "write", FreshMeta(call.slot, 1))]
           /\ written' = [written EXCEPT ![call.slot] = <<>>]
           /\ acked' = [acked EXCEPT ![call.slot] = <<>>]
  <2>a. PICK md : md = FreshMeta(slot, 1)
    OBVIOUS
  <2>1. md = FreshMeta(slot, 1) /\ md.start = SlotStart(slot) /\ md.size = 0
    BY <2>a DEF FreshMeta
  <2>2. disk'[MetaBlock(slot, 0)] = md /\ disk'[MetaBlock(slot, 1)] = md
    <3>1. Pending.at = MetaBlock(slot, 1) /\ Pending.blocks[1] = FreshMeta(slot, 1)
      BY <1>2, <1>3, <1>7 DEF Pending
    <3>2. Pending.at \in Addresses
      BY <3>1, MetaBlocksApart
    <3>3. disk'[MetaBlock(slot, 1)] = md
      BY <1>3, <1>7, <2>1, <3>1, <3>2, OneBlockStored DEF Writing
    <3>4. MetaBlock(slot, 0) # Pending.at /\ MetaBlock(slot, 0) \in Addresses
      BY <3>1, MetaBlocksApart
    <3>5. disk'[MetaBlock(slot, 0)] = disk[MetaBlock(slot, 0)]
      BY <1>3, <3>4, OneBlockWrite DEF Writing
    <3> QED
      BY <1>3, <1>7, <2>1, <3>3, <3>5
  <2>3. /\ written'[slot] = <<>> /\ acked'[slot] = <<>>
        /\ \A t \in SlotNumbers : t # slot => written'[t] = written[t] /\ acked'[t] = acked[t]
    BY <1>2, <1>3, <1>7 DEF ContentInv, Histories
  <2>4. acked'[slot] # NoFile
    <3>1. <<>> \in Seq(Data \cup {Blank, Garbled, Config} \cup Meta)
      OBVIOUS
    <3> QED
      BY <2>3, <3>1, SlotFSAssumption
  <2>5. \A t \in Slots : t # slot => Keeps(t) /\ KeepsReaders(t)
    <3>1. \A t \in Slots : SameData(t) /\ t \in SlotNumbers
      BY <1>3, MetaWriteIs, Constants DEF ContentInv, Writing, Slots, SlotNumbers
    <3> QED
      BY <2>3, <3>1, SameKeeps
  <2>6. Describes(md, slot)'
    <3>1. Len(<<>>) = 0
      OBVIOUS
    <3> QED
      BY <2>1, <2>3, <3>1, Constants DEF Describes, OnDevice
  <2>7. MetaInv'
    <3>1. SUFFICES ASSUME NEW t \in Slots PROVE SlotMeta(t)'
      BY DEF MetaInv
    <3>2. CASE t = slot
      <4>1. \A idx \in {0, 1} : disk'[MetaBlock(t, idx)] = md
        BY <2>2, <3>2
      <4> QED
        BY <2>6, <3>2, <4>1 DEF SlotMeta, Describes
    <3>3. CASE t # slot
      <4>1. ASSUME NEW idx \in {0, 1}
            PROVE  \/ disk'[MetaBlock(t, idx)] = disk[MetaBlock(t, idx)]
                   \/ disk'[MetaBlock(t, idx)] \notin Meta
        BY <1>2, <1>3, <3>3, MetaWriteIs, NotMeta DEF ContentInv, Writing
      <4> QED
        BY <2>5, <3>3, <4>1, SlotMetaKept DEF ContentInv, MetaInv
    <3> QED
      BY <3>2, <3>3
  <2>8. Histories'
    <3>1. <<>> \in Seq(Block)
      OBVIOUS
    <3>2. written' \in [SlotNumbers -> Seq(Block)]
      BY <1>7, <3>1 DEF ContentInv, Histories
    <3>3. acked' \in [SlotNumbers -> Seq(Block) \cup {NoFile}]
      BY <1>7, <3>1 DEF ContentInv, Histories
    <3> QED
      BY <1>3, <3>2, <3>3 DEF ContentInv, Histories
  <2>9. PICK f : f = OpenedFile(slot, "write", md)
    OBVIOUS
  <2>10. f.mode = "write" /\ f.slot = slot /\ f.cursor = 0
    BY <2>9 DEF OpenedFile, ClosedFile
  <2>11. file'[h] = f /\ \A g \in Handles \ {h} : file'[g] = file[g]
    BY <1>1, <1>2, <1>7, <2>1, <2>9 DEF TypeInv, TypeOK
  <2>12. AtRest(f)'
    <3>1. PageStart(0) = 0 /\ PageOffset(0) = 0
      BY Constants DEF PageStart, PageAddress, PageOffset
    <3>2. Len(<<>>) = 0
      OBVIOUS
    <3> QED
      BY <2>3, <2>4, <2>10, <3>1, <3>2 DEF AtRest, PastStored, OnDevice
  <2>13. AtRest(file[h])'
    BY <2>11, <2>12 DEF AtRest, PastStored, OnDevice
  <2>14. \A g \in Handles \ {h} : file[g].mode = "read" => KeepsReaders(file[g].slot)
    BY <1>4, <2>5 DEF ContentInv, ReaderInv, ReaderOf, IsOpen
  <2>15. \A g \in Handles \ {h} : file[g].mode = "write" =>
              /\ Keeps(file[g].slot) /\ written'[file[g].slot] = written[file[g].slot]
              /\ acked'[file[g].slot] # NoFile
    <3>1. SUFFICES ASSUME NEW g \in Handles, file[g].mode = "write", NEW t, t = file[g].slot
                   PROVE  Keeps(t) /\ written'[t] = written[t] /\ acked'[t] # NoFile
      OBVIOUS
    <3>2. t # slot /\ t \in SlotNumbers /\ t \in Slots
      BY <1>4, <3>1, FileFields DEF IsOpen, TypeInv, PlaceInv, FilesInv, InItsSlot
    <3>3. acked[t] # NoFile
      BY <3>1 DEF ContentInv, WriterInv, AtRest
    <3> QED
      BY <2>3, <2>5, <3>2, <3>3
  <2>16. call'.at = "idle" /\ call'.h = NoHandle
    BY <1>7, ClosedFileType
  <2> QED
    BY <1>3, <2>7, <2>8, <2>10, <2>11, <2>13, <2>14, <2>15, <2>16, ContentWrites, Constants
<1> QED
  BY <1>5, <1>6, <1>7 DEF CreateMeta, Return

LEMMA ContentSyncMeta ==
    ASSUME TypeInv, PlaceInv, LockInv, ContentInv, SyncMeta
    PROVE  ContentInv'
<1>1. PICK h \in Handles : h = call.h
  BY DEF SyncMeta, TypeInv, CallShape
<1>2. PICK f \in FileType : f = file[h]
  BY DEF TypeInv, TypeOK
<1>3. PICK slot \in Slots : slot = f.slot
  BY <1>1, <1>2 DEF SyncMeta, PlaceInv, CallInv, FilesInv, InItsSlot
<1>4. /\ call.at = "meta" /\ f.mode = "write" /\ slot \in SlotNumbers
      /\ AtRest(f) /\ InFlight(f)
      /\ call.op = "write" => f.off = 0
  BY <1>1, <1>2, <1>3, FileFields
     DEF SyncMeta, PlaceInv, CallInv, FilesInv, InChunk, Chunk, ContentInv, WriterInv, TypeInv
<1>5. DeviceWrite /\ UNCHANGED <<written, seen>>
  BY DEF SyncMeta, DeviceWrite
<1>6. \A t \in Slots : SameData(t) /\ t \in SlotNumbers
  BY <1>4, <1>5, MetaWriteIs, Constants DEF ContentInv, Writing, Slots, SlotNumbers
<1>7. \/ UNCHANGED acked
      \/ acked' = [acked EXCEPT ![slot] = written[slot]]
  BY <1>1, <1>2, <1>3 DEF SyncMeta
<1>8. written[slot] \in Seq(Block) /\ written[slot] # NoFile
  <2>1. written[slot] \in Seq(Block)
    BY <1>4 DEF ContentInv, Histories
  <2> QED
    BY <2>1, SlotFSAssumption DEF Block
<1>9. \A t \in SlotNumbers : acked'[t] # NoFile <=> acked[t] # NoFile
  <2>1. acked[slot] # NoFile
    BY <1>3, <1>4 DEF AtRest
  <2> QED
    BY <1>4, <1>7, <1>8, <2>1 DEF ContentInv, Histories
<1>10. Histories'
  BY <1>4, <1>5, <1>7, <1>8 DEF ContentInv, Histories
<1>11. \A t \in Slots : Keeps(t) /\ KeepsReaders(t)
  BY <1>5, <1>6, <1>9, SameKeeps
<1>12. MetaInv'
  <2>1. SUFFICES ASSUME NEW t \in Slots PROVE SlotMeta(t)'
    BY DEF MetaInv
  <2>2. ASSUME NEW idx \in {0, 1}
        PROVE  \/ disk'[MetaBlock(t, idx)] = disk[MetaBlock(t, idx)]
               \/ disk'[MetaBlock(t, idx)] \notin Meta
               \/ \E md : disk'[MetaBlock(t, idx)] = md /\ Describes(md, t)'
    <3>1. PICK b : b = disk'[MetaBlock(t, idx)]
      OBVIOUS
    <3>2. \/ b = disk[MetaBlock(t, idx)]
          \/ b = Garbled
          \/ t = slot /\ b = f.md
      BY <1>1, <1>2, <1>3, <1>4, <1>5, <3>1, MetaWriteIs DEF ContentInv, Writing
    <3>3. CASE t = slot /\ b = f.md
      <4>1. f.md \in Meta /\ InItsSlot(f)
        BY <1>1, <1>2, <1>4 DEF FileType, PlaceInv, FilesInv
      <4>2. Describes(b, t)
        BY <1>3, <1>4, <3>3, <4>1 DEF Describes, InItsSlot, InFlight
      <4>3. Describes(b, t)'
        BY <1>11, <3>3, <4>1, <4>2, DescribesKept
      <4> QED
        BY <3>1, <4>3
    <3> QED
      BY <3>1, <3>2, <3>3, NotMeta
  <2> QED
    BY <1>11, <2>1, <2>2, SlotMetaKept DEF ContentInv, MetaInv
<1>13. \A g \in Handles \ {h} : file[g].mode = "read" => KeepsReaders(file[g].slot)
  BY <1>11 DEF ContentInv, ReaderInv, ReaderOf
<1>14. \A g \in Handles : file[g].mode = "write" =>
          /\ Keeps(file[g].slot) /\ written'[file[g].slot] = written[file[g].slot]
          /\ acked'[file[g].slot] # NoFile
  BY <1>5, <1>6, <1>9, <1>11 DEF ContentInv, WriterInv, AtRest, PlaceInv, FilesInv, InItsSlot
<1>15. CASE file' = [file EXCEPT ![h] = ClosedFile] /\ call' = Idle
  <2>1. file'[h].mode = "closed" /\ \A g \in Handles \ {h} : file'[g] = file[g]
    BY <1>15, ClosedFileType DEF TypeInv, TypeOK
  <2>2. call'.at = "idle" /\ call'.h = NoHandle
    BY <1>15, ClosedFileType
  <2> QED
    BY <1>5, <1>10, <1>12, <1>13, <1>14, <2>1, <2>2, ContentWrites
<1>16. ASSUME UNCHANGED file
       PROVE  AtRest(file[h])'
  <2>1. InItsSlot(f)
    BY <1>1, <1>2, <1>4 DEF PlaceInv, FilesInv
  <2>2. AtRest(f)'
    BY <1>3, <1>4, <1>11, <1>14, <1>2, <2>1, RestKept DEF InItsSlot
  <2> QED
    BY <1>2, <1>16, <2>2 DEF AtRest, PastStored, OnDevice
<1>17. CASE UNCHANGED file /\ call' = Idle
  <2>1. call'.at = "idle" /\ call'.h = NoHandle
    BY <1>17, ClosedFileType
  <2> QED
    BY <1>2, <1>4, <1>5, <1>10, <1>12, <1>13, <1>14, <1>16, <1>17, <2>1, ContentWrites, Constants
<1>18. CASE call.op = "write" /\ UNCHANGED file /\ call' = [call EXCEPT !.at = "advance"]
  <2>1. /\ call'.at = "advance" /\ call'.h = h /\ call'.op = "write"
        /\ call'.n = call.n /\ call'.rest = call.rest
    BY <1>1, <1>18 DEF TypeInv, TypeOK, CallType
  <2>2. OnDevice(f.slot, f.cursor)'
    <3>1. OnDevice(f.slot, f.cursor) /\ f.cursor \in 0 .. SlotSize
      BY <1>1, <1>2, <1>4, Constants DEF InFlight, PlaceInv, FilesInv, InItsSlot, FileType
    <3> QED
      BY <1>3, <1>11, <3>1 DEF Keeps
  <2>3. ChunkStored(f)'
    <3>1. \A k \in 1 .. call.n : disk[DataBlock(slot, f.cursor + k)] = call.rest[k]
      BY <1>3, <1>4, <1>18 DEF InFlight, ChunkStored
    <3>2. Chunk(f)
      BY <1>1, <1>2, <1>4, <1>18 DEF PlaceInv, FilesInv, InChunk
    <3>3. \A k \in 1 .. call.n : f.cursor + k \in 1 .. SlotSize
      BY <3>2, CallFields, Constants DEF Chunk, FileType, TypeInv
    <3>4. \A k \in 1 .. call.n : disk'[DataBlock(slot, f.cursor + k)] = call.rest[k]
      BY <1>6, <3>1, <3>3 DEF SameData
    <3> QED
      BY <1>3, <1>4, <1>18, <2>1, <3>4 DEF ChunkStored
  <2>4. InFlight(f)'
    BY <2>1, <2>2, <2>3 DEF InFlight
  <2>5. InFlight(file[h])'
    BY <1>2, <1>18, <2>4 DEF InFlight, ChunkStored, OnDevice
  <2> QED
    BY <1>2, <1>4, <1>5, <1>10, <1>12, <1>13, <1>14, <1>16, <1>18, <2>1, <2>5, ContentWrites
<1> QED
  BY <1>1, <1>15, <1>17, <1>18 DEF SyncMeta, Return

-----------------------------------------------------------------------------
(* Writes of a page.                                                       *)

(* A page that is written repeats what precedes the cursor in it.          *)
LEMMA PageKeeps ==
    ASSUME SeparateSlots, TypeInv, PlaceInv, ContentInv, call.at = "page", DeviceWrite,
           UNCHANGED <<written, acked>>, NEW slot \in Slots
    PROVE  Keeps(slot) /\ KeepsReaders(slot)
<1>1. PICK h \in Handles : h = call.h
  BY DEF TypeInv, CallShape
<1>2. PICK f \in FileType : f = file[h]
  BY DEF TypeInv, TypeOK
<1>3. f.mode = "write" /\ AtRest(f) /\ f.cursor \in Nat
  BY <1>1, <1>2 DEF PlaceInv, CallInv, ContentInv, WriterInv, FileType
<1>4. PICK p \in Nat : /\ p = PageStart(f.cursor) /\ p + PageOffset(f.cursor) = f.cursor
                       /\ PageOffset(f.cursor) \in 0 .. PageBlocks - 1
  BY <1>3, PageOfCursor
<1>5. \A j \in 1 .. SlotSize :
          \/ disk'[DataBlock(slot, j)] = disk[DataBlock(slot, j)]
          \/ slot = f.slot /\ j - p \in 1 .. PageBlocks
             /\ disk'[DataBlock(slot, j)] = f.page[j - p]
  BY <1>1, <1>2, <1>4, PageWrite
<1>6. CASE slot # f.slot
  BY <1>5, <1>6, SameKeeps DEF SameData
<1>7. CASE slot = f.slot
  <2>1. acked[slot] # NoFile /\ Len(written[slot]) = f.cursor
    BY <1>3, <1>7 DEF AtRest, PastStored
  <2>2. ASSUME NEW n \in 0 .. SlotSize, OnDevice(slot, n)
        PROVE  OnDevice(slot, n)'
    <3>1. SUFFICES ASSUME NEW j \in 1 .. n
                   PROVE  disk'[DataBlock(slot, j)] = written[slot][j]
      BY <2>2 DEF OnDevice
    <3>2. j \in 1 .. SlotSize /\ j <= f.cursor /\ disk[DataBlock(slot, j)] = written[slot][j]
      BY <2>1, <2>2, <1>3, Constants DEF OnDevice
    <3>3. CASE j - p \in 1 .. PageBlocks
      <4>1. PICK k \in 1 .. PageOffset(f.cursor) : k = j - p
        BY <1>3, <1>4, <3>2, <3>3
      <4>2. f.page[k] = written[slot][p + k]
        BY <1>3, <1>4, <1>7 DEF AtRest, PastStored
      <4>3. p + k = j
        BY <1>4, <4>1
      <4> QED
        BY <1>5, <3>2, <4>1, <4>2, <4>3
    <3>4. CASE ~(j - p \in 1 .. PageBlocks)
      BY <1>5, <3>2, <3>4
    <3> QED
      BY <3>3, <3>4
  <2> QED
    BY <2>1, <2>2 DEF Keeps, KeepsReaders
<1> QED
  BY <1>6, <1>7

(* Once it is written, everything before the cursor is on the device, and  *)
(* so is the chunk behind it.                                              *)
LEMMA PageStored ==
    ASSUME SeparateSlots, TypeInv, PlaceInv, ContentInv, call.at = "page", WriteOk,
           UNCHANGED <<written, acked>>, NEW h \in Handles, h = call.h,
           NEW f \in FileType, f = file[h]
    PROVE  /\ OnDevice(f.slot, f.cursor)'
           /\ call.op = "write" =>
                 \A k \in 1 .. call.n : disk'[DataBlock(f.slot, f.cursor + k)] = call.rest[k]
<1>1. /\ f.mode = "write" /\ AtRest(f) /\ InFlight(f) /\ f.cursor \in Nat
      /\ f.slot \in Slots /\ f.cursor <= SlotSize
  BY DEF PlaceInv, CallInv, FilesInv, InItsSlot, ContentInv, WriterInv, FileType
<1>2. PICK slot \in Slots : slot = f.slot
  BY <1>1
<1>3. PICK p \in Nat : /\ p = PageStart(f.cursor) /\ p + PageOffset(f.cursor) = f.cursor
                       /\ PageOffset(f.cursor) \in 0 .. PageBlocks - 1
  BY <1>1, PageOfCursor
<1>4. DeviceWrite
  BY DEF DeviceWrite
<1>5. \A j \in 1 .. SlotSize :
          j - p \in 1 .. PageBlocks => disk'[DataBlock(slot, j)] = f.page[j - p]
  BY <1>2, <1>3, <1>4, PageWrite
<1>6. OnDevice(slot, f.cursor)'
  <2>1. Len(written'[slot]) = f.cursor
    BY <1>1, <1>2 DEF AtRest, PastStored
  <2>2. p \in 0 .. SlotSize
    BY <1>1, <1>3, Constants
  <2>3. OnDevice(slot, p)'
    <3>1. OnDevice(slot, p)
      BY <1>1, <1>2, <1>3 DEF AtRest, PastStored
    <3> QED
      BY <1>4, <2>2, <3>1, PageKeeps DEF Keeps
  <2>4. ASSUME NEW j \in 1 .. f.cursor
        PROVE  disk'[DataBlock(slot, j)] = written'[slot][j]
    <3>1. CASE j <= p
      BY <1>3, <2>3, <3>1 DEF OnDevice
    <3>2. CASE j > p
      <4>1. PICK k \in 1 .. PageOffset(f.cursor) : k = j - p
        BY <1>1, <1>3, <3>2
      <4>2. f.page[k] = written[slot][p + k] /\ p + k = j
        BY <1>1, <1>2, <1>3, <4>1 DEF AtRest, PastStored
      <4>3. j \in 1 .. SlotSize /\ j - p \in 1 .. PageBlocks
        BY <1>1, <1>3, <4>1, Constants
      <4> QED
        BY <1>5, <4>1, <4>2, <4>3
    <3> QED
      BY <1>3, <3>1, <3>2
  <2> QED
    BY <1>1, <2>1, <2>4 DEF OnDevice
<1>7. ASSUME call.op = "write", NEW k \in 1 .. call.n
      PROVE  disk'[DataBlock(slot, f.cursor + k)] = call.rest[k]
  <2>1. Chunk(f) /\ call.n \in Nat
    BY <1>1, <1>7, CallFields DEF PlaceInv, FilesInv, InChunk, TypeInv
  <2>2. PICK i \in 1 .. PageBlocks : i = PageOffset(f.cursor) + k
    BY <1>3, <2>1, Constants DEF Chunk
  <2>3. PICK j \in 1 .. SlotSize : j = f.cursor + k
    BY <1>1, <2>1, Constants DEF Chunk
  <2>4. j - p = i
    BY <1>1, <1>3, <2>2, <2>3
  <2>5. f.page[i] = call.rest[k]
    BY <1>1, <1>7, <2>2 DEF InFlight, ChunkStored
  <2> QED
    BY <1>5, <2>3, <2>4, <2>5
<1> QED
  BY <1>2, <1>6, <1>7

LEMMA ContentWritePage ==
    ASSUME SeparateSlots, TypeInv, PlaceInv, LockInv, ContentInv, WritePage
    PROVE  ContentInv'
<1>1. PICK h \in Handles : h = call.h
  BY DEF WritePage, TypeInv, CallShape
<1>2. PICK f \in FileType : f = file[h]
  BY DEF TypeInv, TypeOK
<1>3. /\ call.at = "page" /\ f.mode = "write" /\ AtRest(f) /\ InItsSlot(f)
  BY <1>1, <1>2 DEF WritePage, PlaceInv, CallInv, FilesInv, ContentInv, WriterInv
<1>4. DeviceWrite /\ UNCHANGED <<written, acked, seen>>
  BY DEF WritePage, DeviceWrite, history
<1>5. \A t \in Slots : Keeps(t) /\ KeepsReaders(t)
  BY <1>3, <1>4, PageKeeps
<1>6. Histories'
  BY <1>4 DEF ContentInv, Histories
<1>7. MetaInv'
  <2>1. SUFFICES ASSUME NEW t \in Slots PROVE SlotMeta(t)'
    BY DEF MetaInv
  <2> QED
    BY <1>3, <1>4, <1>5, PageMeta, SlotMetaKept DEF ContentInv, MetaInv
<1>8. \A g \in Handles \ {h} : file[g].mode = "read" => KeepsReaders(file[g].slot)
  BY <1>5 DEF ContentInv, ReaderInv, ReaderOf
<1>9. \A g \in Handles : file[g].mode = "write" =>
          /\ Keeps(file[g].slot) /\ written'[file[g].slot] = written[file[g].slot]
          /\ acked'[file[g].slot] # NoFile
  BY <1>4, <1>5 DEF ContentInv, WriterInv, AtRest, PlaceInv, FilesInv, InItsSlot
<1>10. PICK g : g = file'[h]
  OBVIOUS
<1>11. /\ \A x \in Handles \ {h} : file'[x] = file[x]
       /\ g.mode = f.mode /\ g.slot = f.slot /\ g.cursor = f.cursor /\ g.page = f.page
       /\ call'.at = "sync" /\ call.op # "write" => g.off = f.off
  BY <1>1, <1>2, <1>10 DEF WritePage, Return, Cleared, TypeInv, TypeOK, FileType
<1>12. AtRest(g)'
  BY <1>2, <1>3, <1>5, <1>9, <1>11, RestKept DEF InItsSlot
<1>13. \/ call' = Idle
       \/ /\ WriteOk /\ call'.at = "sync" /\ call'.h = h /\ call'.op = call.op
          /\ call'.n = call.n /\ call'.rest = call.rest
  BY <1>1, <1>2, <1>3 DEF WritePage, Return, TypeInv, TypeOK, CallType
<1>14. ASSUME call'.h = h
       PROVE  InFlight(g)'
  <2>1. /\ WriteOk /\ call'.at = "sync" /\ call'.op = call.op
        /\ call'.n = call.n /\ call'.rest = call.rest
    BY <1>13, <1>14, ClosedFileType, Constants
  <2>2. /\ OnDevice(f.slot, f.cursor)'
        /\ call.op = "write" =>
              \A k \in 1 .. call.n : disk'[DataBlock(f.slot, f.cursor + k)] = call.rest[k]
    BY <1>1, <1>2, <1>3, <1>4, <2>1, PageStored
  <2>3. call'.op = "write" => ChunkStored(g)'
    BY <1>11, <2>1, <2>2 DEF ChunkStored
  <2>4. OnDevice(g.slot, g.cursor)'
    BY <1>11, <2>2 DEF OnDevice
  <2> QED
    BY <2>1, <2>3, <2>4 DEF InFlight
<1>15. AtRest(file[h])' /\ (call'.h = h => InFlight(file[h])')
  BY <1>10, <1>12, <1>14 DEF AtRest, PastStored, OnDevice, InFlight, ChunkStored
<1>16. call'.h \in {h, NoHandle} /\ call'.at \notin {"config", "format", "create"}
  BY <1>13, ClosedFileType
<1>17. file'[h].mode # "read"
  BY <1>3, <1>10, <1>11
<1> QED
  BY <1>4, <1>6, <1>7, <1>8, <1>9, <1>11, <1>15, <1>16, <1>17, ContentWrites

-----------------------------------------------------------------------------
(* The cursor moves.                                                       *)

LEMMA AdvanceIs ==
    ASSUME TypeInv, PlaceInv, Advance, NEW h \in Handles, h = call.h
    PROVE  /\ UNCHANGED <<disk, mounted, lock_counters, acked, seen>>
           /\ call.at = "advance" /\ call.op = "write" /\ file[h].mode = "write"
           /\ \A g \in Handles \ {h} : file'[g] = file[g]
           /\ file'[h].mode = "write" /\ file'[h].slot = file[h].slot
           /\ file'[h].md = file[h].md /\ file'[h].page = file[h].page
           /\ file'[h].cursor = file[h].cursor + call.n
           /\ written' = [written EXCEPT ![file[h].slot] = @ \o SubSeq(call.rest, 1, call.n)]
           /\ call'.at = "loop" /\ call'.h = h /\ call'.op = "write"
<1>1. call.at = "advance" /\ call.op = "write" /\ file[h].mode = "write"
  BY DEF Advance, PlaceInv, CallInv
<1>2. UNCHANGED <<disk, mounted, lock_counters, rc, faults, acked, seen>>
  BY Zenon DEF Advance
<1>3. /\ file' = [file EXCEPT ![h].cursor = @ + call.n]
      /\ call' = [call EXCEPT !.at = "loop", !.n = 0, !.rest = SubSeq(@, call.n + 1, Len(@))]
      /\ written' = [written EXCEPT ![file[h].slot] = @ \o SubSeq(call.rest, 1, call.n)]
  BY <1>1 DEF Advance
<1>4. /\ \A g \in Handles \ {h} : file'[g] = file[g]
      /\ file'[h].mode = "write" /\ file'[h].slot = file[h].slot
      /\ file'[h].md = file[h].md /\ file'[h].page = file[h].page
      /\ file'[h].cursor = file[h].cursor + call.n
  BY <1>1, <1>3 DEF TypeInv, TypeOK, FileType
<1>5. call'.at = "loop" /\ call'.h = h /\ call'.op = "write"
  BY <1>1, <1>3 DEF TypeInv, TypeOK, CallType
<1> QED
  BY <1>1, <1>2, <1>3, <1>4, <1>5

Piece(rest, n) == SubSeq(rest, 1, n)

LEMMA Appended ==
    ASSUME NEW w \in Seq(Block), NEW rest \in Seq(Block), NEW n \in Nat, n <= Len(rest)
    PROVE  LET grown == w \o Piece(rest, n) IN
           /\ Piece(rest, n) \in Seq(Block)
           /\ grown \in Seq(Block) /\ Len(w) \in Nat /\ Len(grown) = Len(w) + n
           /\ \A k \in 1 .. Len(w) : grown[k] = w[k]
           /\ \A k \in 1 .. n : grown[Len(w) + k] = rest[k]
<1>1. PICK more : more = Piece(rest, n)
  OBVIOUS
<1>2. more \in Seq(Block) /\ Len(more) = n /\ \A k \in 1 .. n : more[k] = rest[k]
  <2>1. 1 \in Nat /\ n \in 0 .. Len(rest) /\ Len(rest) \in Nat
    OBVIOUS
  <2> QED
    BY <1>1, <2>1 DEF Piece
<1>3. PICK grown : grown = w \o more
  OBVIOUS
<1>4. grown \in Seq(Block) /\ Len(w) \in Nat /\ Len(grown) = Len(w) + n
  <2>1. Len(w) \in Nat /\ more \in Seq(Block) /\ n = Len(more)
    BY <1>2
  <2>2. grown \in Seq(Block)
    BY <1>3, <2>1
  <2>3. Len(grown) = Len(w) + Len(more)
    BY <1>3, <2>1
  <2> QED
    BY <2>1, <2>2, <2>3
<1>5. \A k \in 1 .. Len(w) : grown[k] = w[k]
  BY <1>2, <1>3
<1>6. ASSUME NEW k \in 1 .. n
      PROVE  grown[Len(w) + k] = rest[k]
  <2>1. Len(w) + k \in 1 .. Len(w) + n /\ Len(w) + k - Len(w) = k /\ ~(Len(w) + k <= Len(w))
    BY <1>4
  <2>2. grown[Len(w) + k] = more[k]
    BY <1>2, <1>3, <1>4, <2>1
  <2> QED
    BY <1>2, <2>2
<1>7. grown = w \o Piece(rest, n) /\ Piece(rest, n) \in Seq(Block)
  BY <1>1, <1>2, <1>3
<1> QED
  BY Zenon, <1>4, <1>5, <1>6, <1>7

LEMMA ContentAdvance ==
    ASSUME TypeInv, PlaceInv, LockInv, ContentInv, Advance
    PROVE  ContentInv'
<1>1. PICK h \in Handles : h = call.h
  BY DEF Advance, TypeInv, CallShape
<1>2. PICK f \in FileType : f = file[h]
  BY DEF TypeInv, TypeOK
<1>3. PICK g : g = file'[h]
  OBVIOUS
<1>4. /\ UNCHANGED <<disk, acked, seen>>
      /\ call.at = "advance" /\ call.op = "write" /\ f.mode = "write"
      /\ \A x \in Handles \ {h} : file'[x] = file[x]
      /\ g.mode = "write" /\ g.slot = f.slot /\ g.page = f.page
      /\ g.cursor = f.cursor + call.n
      /\ written' = [written EXCEPT ![f.slot] = @ \o Piece(call.rest, call.n)]
      /\ call'.at = "loop" /\ call'.h = h /\ call'.op = "write"
  BY <1>1, <1>2, <1>3, AdvanceIs DEF Piece
<1>5. /\ AtRest(f) /\ InFlight(f) /\ InItsSlot(f) /\ Chunk(f) /\ f.cursor \in Nat
      /\ f.off \in 0 .. PageBlocks /\ f.slot \in SlotNumbers
  BY <1>1, <1>2, <1>4 DEF ContentInv, WriterInv, PlaceInv, FilesInv, InChunk, FileType
<1>6. PICK slot \in Slots : slot = f.slot /\ slot \in SlotNumbers
  BY <1>5 DEF InItsSlot
<1>7. /\ call.n \in Nat /\ call.n > 0 /\ call.n <= Len(call.rest) /\ call.rest \in Seq(Block)
      /\ Len(call.rest) \in Nat
  BY <1>4, <1>5, CallFields DEF TypeInv, CallShape, Chunk
<1>8. written[slot] \in Seq(Block) /\ DOMAIN written = SlotNumbers
  BY <1>6 DEF ContentInv, Histories
<1>9. PICK w \in Seq(Block) : w = written[slot]
  BY <1>8
<1>10. PICK grown : grown = w \o Piece(call.rest, call.n)
  OBVIOUS
<1>11. /\ written'[slot] = grown
       /\ \A t \in SlotNumbers : t # slot => written'[t] = written[t]
  BY <1>4, <1>6, <1>8, <1>9, <1>10
<1>12. Len(w) = f.cursor
  BY <1>5, <1>6, <1>9 DEF AtRest, PastStored
<1>13. /\ Piece(call.rest, call.n) \in Seq(Block)
       /\ grown \in Seq(Block) /\ Len(grown) = f.cursor + call.n
       /\ \A k \in 1 .. f.cursor : grown[k] = w[k]
       /\ \A k \in 1 .. call.n : grown[f.cursor + k] = call.rest[k]
  <2>1. PICK n \in Nat : n = call.n
    BY <1>7
  <2>2. PICK rest \in Seq(Block) : rest = call.rest
    BY <1>7
  <2>3. grown = w \o Piece(rest, n) /\ n <= Len(rest)
    BY <1>7, <1>10, <2>1, <2>2
  <2>4. /\ Piece(rest, n) \in Seq(Block)
        /\ grown \in Seq(Block) /\ Len(w) \in Nat /\ Len(grown) = Len(w) + n
        /\ \A k \in 1 .. Len(w) : grown[k] = w[k]
        /\ \A k \in 1 .. n : grown[Len(w) + k] = rest[k]
    BY <2>3, Appended, SMTT(30)
  <2> QED
    BY <1>12, <2>1, <2>2, <2>4
<1>14. call.n \in Nat /\ call.n <= Len(call.rest) /\ call.rest \in Seq(Block)
  BY <1>7
<1>15. \A t \in Slots : Keeps(t) /\ KeepsReaders(t)
  <2>1. SUFFICES ASSUME NEW t \in Slots PROVE Keeps(t) /\ KeepsReaders(t)
    OBVIOUS
  <2>2. SameData(t) /\ acked'[t] = acked[t] /\ t \in SlotNumbers
    BY <1>4, Constants DEF SameData, Slots, SlotNumbers
  <2>3. CASE t = slot
    BY <1>9, <1>10, <1>11, <1>13, <2>2, <2>3, GrownKeeps DEF ContentInv
  <2>4. CASE t # slot
    BY <1>11, <2>2, <2>4, SameKeeps
  <2> QED
    BY <2>3, <2>4
<1>16. Histories'
  <2>1. written' = [written EXCEPT ![slot] = grown]
    BY <1>4, <1>6, <1>9, <1>10, <1>8
  <2>2. written' \in [SlotNumbers -> Seq(Block)]
    BY <1>6, <1>13, <2>1 DEF ContentInv, Histories
  <2> QED
    BY <1>4, <2>2 DEF ContentInv, Histories
<1>17. MetaInv'
  <2>1. SUFFICES ASSUME NEW t \in Slots PROVE SlotMeta(t)'
    BY DEF MetaInv
  <2> QED
    BY <1>4, <1>15, SlotMetaKept DEF ContentInv, MetaInv
<1>18. \A x \in Handles \ {h} : file[x].mode = "read" => KeepsReaders(file[x].slot)
  BY <1>15 DEF ContentInv, ReaderInv, ReaderOf
<1>19. \A x \in Handles \ {h} : file[x].mode = "write" =>
           /\ Keeps(file[x].slot) /\ written'[file[x].slot] = written[file[x].slot]
           /\ acked'[file[x].slot] # NoFile
  <2>1. SUFFICES ASSUME NEW x \in Handles \ {h}, file[x].mode = "write", NEW t, t = file[x].slot
                 PROVE  Keeps(t) /\ written'[t] = written[t] /\ acked'[t] # NoFile
    OBVIOUS
  <2>2. t \in Slots /\ t \in SlotNumbers
    BY <2>1, FileFields DEF PlaceInv, FilesInv, InItsSlot, TypeInv
  <2>3. t # slot
    BY <1>2, <1>4, <1>6, <2>1, OneWriter
  <2>4. acked[t] # NoFile
    BY <2>1 DEF ContentInv, WriterInv, AtRest
  <2> QED
    BY <1>4, <1>11, <1>15, <2>2, <2>3, <2>4
<1>20. AtRest(g)'
  <2>1. PICK c \in Nat : c = f.cursor
    BY <1>5
  <2>2. PICK n \in Nat : n = call.n
    BY <1>7
  <2>3. PICK o : o = PageOffset(c)
    OBVIOUS
  <2>4. PICK p \in Nat : p = PageStart(c) /\ p + o = c /\ o \in 0 .. PageBlocks - 1 /\ p <= c
    BY <2>1, <2>3, PageOfCursor
  <2>5. o + n <= PageBlocks /\ n > 0 /\ f.off = (o + n) % PageBlocks /\ o \in Nat
    BY <1>4, <1>5, <1>7, <2>1, <2>2, <2>3, <2>4 DEF Chunk
  <2>6. OnDevice(slot, p) /\ \A k \in 1 .. o : f.page[k] = w[p + k]
    BY <1>5, <1>6, <1>9, <2>1, <2>3, <2>4 DEF AtRest, PastStored
  <2>7. PICK m \in Nat : m = c + n
    OBVIOUS
  <2>8. /\ grown = written'[slot] /\ w = written[slot] /\ Len(grown) = m
        /\ \A k \in 1 .. c : grown[k] = w[k]
        /\ \A k \in 1 .. n : grown[c + k] = call.rest[k]
    BY <1>9, <1>11, <1>13, <2>1, <2>2, <2>7
  <2>9. g.slot = slot /\ g.cursor = m /\ acked'[slot] # NoFile
    BY <1>4, <1>5, <1>6, <2>1, <2>2, <2>7 DEF AtRest
  <2>10. CASE o + n = PageBlocks
    <3>1. PageStart(m) = m /\ PageOffset(m) = 0
      BY <2>3, <2>5, <2>7, <2>10, PageStartMoves
    <3>2. f.off = 0
      BY <2>5, <2>10, Constants
    <3>3. OnDevice(slot, c)
      BY <1>4, <1>5, <1>6, <2>1, <3>2 DEF InFlight
    <3>4. \A k \in 1 .. n : disk[DataBlock(slot, c + k)] = call.rest[k]
      BY <1>4, <1>5, <1>6, <2>1, <2>2, <3>2 DEF InFlight, ChunkStored
    <3>5. ASSUME NEW j \in 1 .. m
          PROVE  disk'[DataBlock(slot, j)] = grown[j]
      <4>1. CASE j <= c
        <5>1. j \in 1 .. c /\ disk[DataBlock(slot, j)] = w[j]
          BY <2>8, <3>3, <4>1 DEF OnDevice
        <5>2. disk' = disk
          BY <1>4
        <5> QED
          BY <2>8, <5>1, <5>2
      <4>2. CASE j > c
        <5>1. PICK k \in 1 .. n : j = c + k
          <6>1. j - c \in 1 .. n /\ j = c + (j - c)
            BY <2>7, <4>2
          <6> QED
            BY <6>1
        <5> QED
          BY <1>4, <2>8, <3>4, <5>1
      <4> QED
        BY <4>1, <4>2
    <3>6. OnDevice(slot, m)'
      BY <2>8, <3>5 DEF OnDevice
    <3> QED
      BY <2>8, <2>9, <3>1, <3>6 DEF AtRest, PastStored
  <2>11. CASE o + n < PageBlocks
    <3>1. PageStart(m) = p /\ PageOffset(m) = o + n
      BY <2>3, <2>4, <2>5, <2>7, <2>11, PageStartMoves
    <3>2. f.off > 0
      <4>1. (o + n) % PageBlocks = o + n
        BY <2>5, <2>11, Constants
      <4> QED
        BY <2>5, <4>1
    <3>3. \A k \in 1 .. n : f.page[o + k] = call.rest[k]
      BY <1>4, <1>5, <2>1, <2>2, <2>3, <3>2 DEF InFlight, ChunkStored
    <3>4. OnDevice(slot, p)'
      <4>1. \A j \in 1 .. p : j \in 1 .. c
        BY <2>4
      <4>2. p <= Len(grown)
        BY <2>4, <2>7, <2>8
      <4> QED
        BY <1>4, <2>6, <2>8, <4>1, <4>2 DEF OnDevice
    <3>5. ASSUME NEW k \in 1 .. o + n
          PROVE  g.page[k] = grown[p + k]
      <4>1. CASE k <= o
        <5>1. k \in 1 .. o /\ p + k \in 1 .. c
          BY <2>4, <4>1
        <5> QED
          BY <1>4, <2>6, <2>8, <5>1
      <4>2. CASE k > o
        <5>1. PICK i \in 1 .. n : k = o + i
          <6>1. k - o \in 1 .. n /\ k = o + (k - o)
            BY <2>5, <4>2
          <6> QED
            BY <6>1
        <5>2. p + k = c + i
          BY <2>4, <5>1
        <5>3. grown[c + i] = call.rest[i]
          BY <2>8
        <5> QED
          BY <1>4, <3>3, <5>1, <5>2, <5>3
      <4> QED
        BY <2>5, <4>1, <4>2
    <3> QED
      BY <2>8, <2>9, <3>1, <3>4, <3>5 DEF AtRest, PastStored
  <2> QED
    BY <2>4, <2>5, <2>10, <2>11, Constants
<1>21. AtRest(file[h])'
  BY <1>3, <1>20 DEF AtRest, PastStored, OnDevice
<1>22. InFlight(file[h])'
  BY <1>4 DEF InFlight
<1> QED
  BY <1>3, <1>4, <1>16, <1>17, <1>18, <1>19, <1>21, <1>22, ContentWrites

-----------------------------------------------------------------------------
(* Allocation, power loss, and all steps.                                  *)

LEMMA ContentAllocate ==
    ASSUME SeparateSlots, TypeInv, PlaceInv, LockInv, ContentInv,
           NEW h \in Handles, NEW size \in Nat, Allocate(h, size)
    PROVE  ContentInv'
<1>1. PICK f \in FileType : f = file[h]
  BY DEF TypeInv, TypeOK
<1>2. PICK g : g = file'[h]
  OBVIOUS
<1>3. /\ call = Idle /\ f.mode = "write" /\ UNCHANGED <<disk, acked, seen>>
      /\ f.cursor = 0 /\ PageOffset(size) = 0 /\ size <= SlotSize
  BY <1>1 DEF Allocate, Ready, ClientMayAllocate, SeparateSlots
<1>4. /\ \A x \in Handles \ {h} : file'[x] = file[x]
      /\ g.mode = "write" /\ g.slot = f.slot /\ g.cursor = size
  BY <1>1, <1>2, <1>3 DEF Allocate, Cleared, TypeInv, TypeOK, FileType
<1>5. call'.op = "allocate" /\ call'.at = "sync" /\ call'.h = h
  BY StartType DEF Allocate, Ops, CallPoints
<1>6. AtRest(f) /\ InItsSlot(f)
  BY <1>1, <1>3 DEF ContentInv, WriterInv, PlaceInv, FilesInv
<1>7. PICK slot \in Slots : slot = f.slot /\ slot \in SlotNumbers
  BY <1>6, Constants DEF InItsSlot, Slots, SlotNumbers
<1>8. PICK md \in Meta : /\ md = [f.md EXCEPT !.size = size]
                         /\ md.start = SlotStart(slot) /\ md.size = size
  <2>1. f.md \in Meta /\ f.md.start = SlotStart(slot)
    BY <1>6, <1>7 DEF FileType, InItsSlot
  <2>2. PICK md : md = [f.md EXCEPT !.size = size]
    OBVIOUS
  <2>3. md \in Meta /\ md.start = f.md.start /\ md.size = size
    BY <2>1, <2>2 DEF Meta
  <2> QED
    BY <2>1, <2>2, <2>3
<1>9. PICK new \in Seq(Block) : new = Content(md) /\ Len(new) = size
  BY <1>8, ContentSeq DEF TypeInv, TypeOK
<1>10. new = [j \in 1 .. size |-> disk[DataBlock(slot, j)]]
  BY <1>3, <1>8, <1>9, ContentIs
<1>11. written' = [written EXCEPT ![slot] = new] /\ written \in [SlotNumbers -> Seq(Block)]
  BY <1>1, <1>7, <1>8, <1>9 DEF Allocate, ContentInv, Histories
<1>12. /\ written'[slot] = new
       /\ \A t \in SlotNumbers : t # slot => written'[t] = written[t]
  BY <1>7, <1>11
<1>13. \A n \in 0 .. SlotSize : n <= size => OnDevice(slot, n)'
  BY <1>3, <1>9, <1>10, <1>12 DEF OnDevice
<1>14. Len(written[slot]) = 0 /\ acked[slot] # NoFile
  BY <1>3, <1>6, <1>7 DEF AtRest, PastStored
<1>15. Keeps(slot)
  <2>1. ASSUME NEW n \in 0 .. SlotSize, OnDevice(slot, n)
        PROVE  OnDevice(slot, n)'
    <3>1. n <= 0
      BY <1>14, <2>1 DEF OnDevice
    <3> QED
      BY <1>13, <3>1
  <2> QED
    BY <1>3, <2>1 DEF Keeps
<1>16. \A t \in Slots : Keeps(t) /\ KeepsReaders(t)
  <2>1. SUFFICES ASSUME NEW t \in Slots PROVE Keeps(t) /\ KeepsReaders(t)
    OBVIOUS
  <2>2. SameData(t) /\ acked'[t] = acked[t] /\ t \in SlotNumbers
    BY <1>3, Constants DEF SameData, Slots, SlotNumbers
  <2>3. CASE t = slot
    BY <1>15, <2>2, <2>3 DEF KeepsReaders
  <2>4. CASE t # slot
    BY <1>12, <2>2, <2>4, SameKeeps
  <2> QED
    BY <2>3, <2>4
<1>17. Histories'
  BY <1>3, <1>11 DEF ContentInv, Histories
<1>18. MetaInv'
  <2>1. SUFFICES ASSUME NEW t \in Slots PROVE SlotMeta(t)'
    BY DEF MetaInv
  <2> QED
    BY <1>3, <1>16, SlotMetaKept DEF ContentInv, MetaInv
<1>19. \A x \in Handles \ {h} : file[x].mode = "read" => KeepsReaders(file[x].slot)
  BY <1>16 DEF ContentInv, ReaderInv, ReaderOf
<1>20. \A x \in Handles \ {h} : file[x].mode = "write" =>
           /\ Keeps(file[x].slot) /\ written'[file[x].slot] = written[file[x].slot]
           /\ acked'[file[x].slot] # NoFile
  <2>1. SUFFICES ASSUME NEW x \in Handles \ {h}, file[x].mode = "write", NEW t, t = file[x].slot
                 PROVE  Keeps(t) /\ written'[t] = written[t] /\ acked'[t] # NoFile
    OBVIOUS
  <2>2. t \in Slots /\ t \in SlotNumbers
    BY <2>1, FileFields DEF PlaceInv, FilesInv, InItsSlot, TypeInv
  <2>3. t # slot
    BY <1>1, <1>3, <1>7, <2>1, OneWriter
  <2>4. acked[t] # NoFile
    BY <2>1 DEF ContentInv, WriterInv, AtRest
  <2> QED
    BY <1>3, <1>12, <1>16, <2>2, <2>3, <2>4
<1>21. AtRest(g)' /\ InFlight(g)'
  <2>1. PICK c \in 0 .. SlotSize : c = size
    BY <1>3, Constants
  <2>2. PageStart(c) = c /\ PageOffset(c) = 0
    <3>1. PageStart(c) \in Nat /\ PageStart(c) + PageOffset(c) = c
      BY <2>1, PageOfCursor
    <3> QED
      BY <1>3, <2>1, <3>1
  <2>3. g.slot = slot /\ g.cursor = c /\ acked'[slot] # NoFile /\ Len(written'[slot]) = c
    BY <1>3, <1>4, <1>7, <1>9, <1>12, <1>14, <2>1
  <2>4. OnDevice(slot, c)'
    BY <1>13, <2>1
  <2>5. AtRest(g)'
    BY <2>2, <2>3, <2>4 DEF AtRest, PastStored
  <2> QED
    BY <1>5, <2>3, <2>4, <2>5 DEF InFlight
<1>22. AtRest(file[h])' /\ InFlight(file[h])'
  BY <1>2, <1>21 DEF AtRest, PastStored, OnDevice, InFlight, ChunkStored
<1>23. file'[h].mode # "read"
  BY <1>2, <1>4
<1> QED
  BY <1>3, <1>4, <1>5, <1>17, <1>18, <1>19, <1>20, <1>22, <1>23, ContentWrites

LEMMA ContentPowerLoss ==
    ASSUME SeparateSlots, TypeInv, PlaceInv, ContentInv, PowerLoss
    PROVE  ContentInv'
<1>1. /\ call' = Idle /\ UNCHANGED <<written, acked>> /\ seen' = [h \in Handles |-> <<>>]
      /\ file' = [h \in Handles |-> ClosedFile]
      /\ UNCHANGED disk \/ (call.at \in Writing /\ disk' \in CutShort)
  BY DEF PowerLoss, Writing
<1>2. Histories'
  BY <1>1 DEF ContentInv, Histories
<1>3. MetaInv'
  <2>1. CASE UNCHANGED disk
    BY <1>1, <2>1, MetaQuiet DEF ContentInv
  <2>2. CASE call.at \in Writing \ {"page"} /\ disk' \in CutShort
    BY <1>1, <2>2, MetaWriteKeeps DEF DeviceWrite
  <2>3. CASE call.at = "page" /\ disk' \in CutShort
    <3>1. SUFFICES ASSUME NEW t \in Slots PROVE SlotMeta(t)'
      BY DEF MetaInv
    <3>2. DeviceWrite
      BY <2>3 DEF DeviceWrite
    <3> QED
      BY <1>1, <2>3, <3>2, PageKeeps, PageMeta, SlotMetaKept DEF ContentInv, MetaInv
  <2> QED
    BY <1>1, <2>1, <2>2, <2>3
<1>4. NoneOpen'
  BY <1>1, ClosedFileType DEF NoneOpen
<1>5. WriterInv' /\ ReaderInv'
  BY <1>4 DEF NoneOpen, WriterInv, ReaderInv
<1>6. RenewInv'
  BY <1>1, ClosedFileType DEF RenewInv
<1> QED
  BY <1>2, <1>3, <1>5, <1>6 DEF ContentInv

LEMMA ContentInit == Init => ContentInv
<1> SUFFICES ASSUME Init PROVE ContentInv
  OBVIOUS
<1>1. Histories
  BY DEF Init, Histories
<1>2. MetaInv
  <2>1. SUFFICES ASSUME NEW slot \in Slots, NEW idx \in {0, 1}
                 PROVE  disk[MetaBlock(slot, idx)] \notin Meta
    BY DEF MetaInv, SlotMeta
  <2>2. disk[MetaBlock(slot, idx)] = Blank
    BY MetaBlocksApart DEF Init
  <2> QED
    BY <2>2, NotMeta
<1>3. WriterInv /\ ReaderInv /\ RenewInv
  BY ClosedFileType DEF Init, WriterInv, ReaderInv, RenewInv
<1> QED
  BY <1>1, <1>2, <1>3 DEF ContentInv

(* Every step keeps what the slots hold together with what their writers   *)
(* wrote and their readers saw when they opened them.                      *)
THEOREM ContentStep ==
    ASSUME SeparateSlots
    PROVE  TypeInv /\ PlaceInv /\ LockInv /\ ContentInv /\ [Next]_vars => ContentInv'
<1> SUFFICES ASSUME TypeInv, PlaceInv, LockInv, ContentInv, [Next]_vars PROVE ContentInv'
  OBVIOUS
<1>1. CASE Step
  BY <1>1, ContentFormat, ContentCreateMeta, ContentWriteLoop, ContentWritePage,
     ContentAdvance, ContentSync, ContentSyncMeta, ContentReadLoop DEF Step
<1>2. CASE Call
  <2>1. /\ \A n \in 0 .. SlotSize + 1 : n \in Nat
        /\ \A n \in 0 .. SlotSize : n \in Nat
        /\ \A n \in 1 .. SlotSize : n \in Nat
    BY Constants
  <2>2. CASE SfsInit \/ SfsFormat \/ SfsDeinit
    BY <2>2, ContentMount
  <2>3. CASE \E h \in Handles : \E slot \in ClientSlots : OpenRead(h, slot) \/ OpenWrite(h, slot)
    BY <2>3, ContentOpenRead, ContentOpenWrite
  <2>4. CASE \E h \in Handles : \E blocks \in Requests : Write(h, blocks)
    BY <2>4, ContentWrite
  <2>5. CASE \E h \in Handles : Flush(h) \/ Close(h)
    BY <2>5, ContentFlush, ContentClose
  <2>6. CASE \E h \in Handles : \E size \in Nat : Allocate(h, size)
    BY <2>6, ContentAllocate
  <2>7. CASE \E h \in Handles : \E n \in Nat : Seek(h, n) \/ Read(h, n)
    BY <2>7, ContentRead
  <2> QED
    BY <1>2, <2>1, <2>2, <2>3, <2>4, <2>5, <2>6, <2>7 DEF Call
<1>3. CASE PowerLoss
  BY <1>3, ContentPowerLoss
<1>4. CASE UNCHANGED vars
  <2>1. UNCHANGED <<disk, written, acked, file, call, seen>>
    BY <1>4 DEF vars
  <2>2. Histories' /\ MetaInv' /\ RenewInv'
    BY <2>1, MetaQuiet DEF ContentInv, Histories, RenewInv, NoneOpen
  <2>3. WriterInv'
    BY <2>1 DEF ContentInv, WriterInv, AtRest, PastStored, OnDevice, InFlight, ChunkStored
  <2>4. ReaderInv'
    BY <2>1 DEF ContentInv, ReaderInv, ReaderOf, Describes, OnDevice, Content
  <2> QED
    BY <2>2, <2>3, <2>4 DEF ContentInv
<1> QED
  BY <1>1, <1>2, <1>3, <1>4 DEF Next

(* The inductive invariants that hold in every state.                      *)
SlotInv == TypeInv /\ PlaceInv /\ LockInv /\ ContentInv

(* The parts of the invariant of the file system hold together.            *)
THEOREM SlotInvariant ==
    ASSUME SeparateSlots
    PROVE  Spec => []SlotInv
<1>1. Init => SlotInv
  BY TypeInit, PlaceInit, LockInit, ContentInit DEF SlotInv, SeparateSlots
<1>2. SlotInv /\ [Next]_vars => SlotInv'
  BY TypeStep, PlaceStep, LockStep, ContentStep DEF SlotInv, SeparateSlots
<1> QED
  BY <1>1, <1>2, PTL DEF Spec

(* A file open for reading keeps the content it was opened with, whatever  *)
(* is written through other files: that of its slot stays as it is while   *)
(* the file is open, and no write to another reaches it.                   *)
THEOREM ReadersAreUndisturbed ==
    ASSUME SeparateSlots
    PROVE  Spec => []ReadersKeepTheirContent
<1>1. SlotInv => ReadersKeepTheirContent
  BY DEF SlotInv, ContentInv, ReaderInv, ReaderOf, ReadersKeepTheirContent
<1> QED
  BY <1>1, SlotInvariant, PTL

-----------------------------------------------------------------------------
(* Steps and metadata.                                                     *)

LEMMA TwoIdx ==
    ASSUME TypeInv, NEW slot \in SlotNumbers, NEW readable \in SUBSET ValidIdx(slot)
    PROVE  /\ MostRecentIdx(slot, readable) \in {0, 1}
           /\ OtherIdx(slot, readable) = 1 - MostRecentIdx(slot, readable)
           /\ readable # {} => MostRecentIdx(slot, readable) \in readable
<1>1. readable \subseteq {0, 1}
  BY DEF ValidIdx
<1>2. MostRecentIdx(slot, readable) \in {0, 1}
  BY DEF MostRecentIdx
<1>3. readable # {} => MostRecentIdx(slot, readable) \in readable
  BY <1>1 DEF MostRecentIdx
<1> QED
  BY <1>2, <1>3 DEF OtherIdx

(* Only an update of metadata in memory leads to a write of it.            *)
LEMMA MetaBegins ==
    ASSUME TypeInv, [Next]_vars, call'.at = "meta"
    PROVE  Sync \/ UNCHANGED vars
<1>1. Idle.at = "idle"
  BY ClosedFileType
<1>2. \A op \in Ops, at \in CallPoints, h \in Handles \cup {NoHandle} :
          Start(op, at, h).at = at /\ Start(op, at, h) \in CallType
  BY StartType
<1>3. call \in CallType
  BY DEF TypeInv, TypeOK
<1>4. CASE Step
  <2>1. FormatConfig \/ FormatMeta => call'.at # "meta"
    BY <1>1, <1>3 DEF FormatConfig, FormatMeta, Return, CallType
  <2>2. CreateMeta => call'.at # "meta"
    BY <1>1, <1>3 DEF CreateMeta, Return, CallType
  <2>3. WriteLoop => call'.at # "meta"
    BY <1>1, <1>3 DEF WriteLoop, Return, CallType
  <2>4. WritePage => call'.at # "meta"
    BY <1>1, <1>3 DEF WritePage, Return, CallType
  <2>5. Advance => call'.at # "meta"
    <3>1. Advance => call' = [call EXCEPT !.at = "loop", !.n = 0,
                                          !.rest = SubSeq(@, call.n + 1, Len(@))]
      BY Zenon DEF Advance
    <3> QED
      BY <1>3, <3>1 DEF CallType
  <2>6. SyncMeta => call'.at # "meta"
    BY <1>1, <1>3 DEF SyncMeta, Return, CallType
  <2>7. ReadLoop => call'.at # "meta"
    <3>1. SUFFICES ASSUME ReadLoop PROVE call'.at # "meta"
      OBVIOUS
    <3>2. PICK h \in Handles : h = call.h
      BY <3>1, ReadLoopFrame DEF TypeInv, CallShape
    <3>3. call' = Idle \/ call'.at = "fetch"
      BY <3>1, <3>2, ReadLoopKeeps
    <3> QED
      BY <1>1, <3>3
  <2> QED
    BY <1>4, <2>1, <2>2, <2>3, <2>4, <2>5, <2>6, <2>7 DEF Step
<1>5. CASE Call
  <2>1. SfsInit \/ SfsFormat \/ SfsDeinit => call'.at # "meta"
    BY <1>1, <1>2 DEF SfsInit, SfsFormat, SfsDeinit, Ready, Ops, CallPoints
  <2>2. ASSUME NEW h \in Handles, NEW slot, OpenRead(h, slot) \/ OpenWrite(h, slot)
        PROVE  call'.at # "meta"
    <3>1. PICK c \in CallType : c = Start("open", "create", h) /\ c.at = "create"
      BY <1>2 DEF Ops, CallPoints
    <3> QED
      BY <1>1, <2>2, <3>1 DEF OpenRead, OpenWrite, Ready, CallType
  <2>3. ASSUME NEW h \in Handles, NEW blocks, Write(h, blocks)
        PROVE  call'.at # "meta"
    <3>1. PICK c \in CallType : c = Start("write", "loop", h) /\ c.at = "loop"
      BY <1>2 DEF Ops, CallPoints
    <3> QED
      BY <2>3, <3>1 DEF Write, CallType
  <2>4. ASSUME NEW h \in Handles, Flush(h) \/ Close(h)
        PROVE  call'.at # "meta"
    <3>1. PICK at \in {"page", "sync"} : at = FlushPoint(h)
      BY DEF FlushPoint
    <3>2. Start("flush", at, h).at = at /\ Start("close", at, h).at = at
      BY <1>2 DEF Ops, CallPoints
    <3> QED
      BY <1>1, <2>4, <3>1, <3>2 DEF Flush, Close, Ready
  <2>5. ASSUME NEW h \in Handles, NEW n, Allocate(h, n)
        PROVE  call'.at # "meta"
    BY <1>2, <2>5 DEF Allocate, Ops, CallPoints
  <2>6. ASSUME NEW h \in Handles, NEW n, Seek(h, n) \/ Read(h, n)
        PROVE  call'.at # "meta"
    <3>1. PICK c \in CallType : c = Start("read", "fetch", h) /\ c.at = "fetch"
      BY <1>2 DEF Ops, CallPoints
    <3> QED
      BY <1>1, <2>6, <3>1 DEF Seek, Read, Ready, CallType
  <2> QED
    BY <1>5, <2>1, <2>2, <2>3, <2>4, <2>5, <2>6 DEF Call
<1>6. CASE PowerLoss
  BY <1>1, <1>6 DEF PowerLoss
<1> QED
  BY <1>4, <1>5, <1>6 DEF Next

(* If no read fails, the write goes beside the most recent block.          *)
LEMMA OtherStep ==
    ASSUME "read" \notin Faults
    PROVE  TypeInv /\ PlaceInv /\ OtherIsWritten /\ [Next]_vars => OtherIsWritten'
<1> SUFFICES ASSUME TypeInv, PlaceInv, OtherIsWritten, [Next]_vars, call'.at = "meta"
             PROVE  call'.idx = OtherIdx(file[call.h].slot, ValidIdx(file[call.h].slot))'
  BY DEF OtherIsWritten
<1>1. CASE Sync
  <2>1. PICK h \in Handles : h = call.h
    BY <1>1, SyncFrame DEF TypeInv, CallShape
  <2>2. PICK slot : slot = file[h].slot
    OBVIOUS
  <2>3. UNCHANGED disk /\ file'[h].slot = slot
    BY <1>1, <2>1, <2>2, SyncIs
  <2>4. call'.idx = OtherIdx(slot, ValidIdx(slot)) /\ call'.h = h
    BY <1>1, <2>1, <2>2, SyncTo, ClosedFileType DEF ReadsAs, Fault
  <2>5. OtherIdx(slot, ValidIdx(slot))' = OtherIdx(slot, ValidIdx(slot))
    BY <2>3 DEF OtherIdx, MostRecentIdx, ValidIdx
  <2> QED
    BY <2>3, <2>4, <2>5 DEF OtherIdx, MostRecentIdx, ValidIdx
<1>2. CASE UNCHANGED vars
  BY <1>2 DEF vars, OtherIsWritten, OtherIdx, MostRecentIdx, ValidIdx
<1> QED
  BY <1>1, <1>2, MetaBegins

LEMMA SurvivesStep ==
    ASSUME SeparateSlots, TypeInv, PlaceInv, ContentInv, OtherIsWritten, [Next]_vars,
           NEW slot \in Slots, call.op \notin {"init", "format", "open"},
           NEW a, a = MetaBlock(slot, Newest(slot))
    PROVE  disk'[a] = disk[a]
<1>1. slot \in SlotNumbers
  BY Constants DEF Slots, SlotNumbers
<1>2. PICK idx \in {0, 1} : idx = Newest(slot)
  BY <1>1, TwoIdx DEF Newest
<1>3. SUFFICES ASSUME disk' # disk PROVE disk'[MetaBlock(slot, idx)] = disk[MetaBlock(slot, idx)]
  BY <1>2
<1>4. DeviceWrite /\ call.at \in {"page", "meta"}
  BY <1>3, DiskSteps DEF DeviceWrite, PlaceInv, CallInv, Writing
<1>5. CASE call.at = "page"
  BY <1>4, <1>5, PageMeta
<1>6. CASE call.at = "meta"
  <2>1. slot = file[call.h].slot => call.idx # idx
    <3>1. SUFFICES ASSUME slot = file[call.h].slot PROVE call.idx # idx
      OBVIOUS
    <3>2. call.idx = OtherIdx(slot, ValidIdx(slot))
      BY <1>6, <3>1 DEF OtherIsWritten
    <3>3. OtherIdx(slot, ValidIdx(slot)) = 1 - idx
      BY <1>1, <1>2, TwoIdx DEF Newest
    <3> QED
      BY <3>2, <3>3
  <2>2. call.idx \in {0, 1} /\ file[call.h].slot \in Slots
    BY <1>6, CallFields DEF TypeInv, CallShape, PlaceInv, CallInv, FilesInv, InItsSlot
  <2>3. MetaBlock(slot, idx) # Pending.at
    <3>1. Pending.at = MetaBlock(file[call.h].slot, call.idx)
      BY <1>6 DEF Pending
    <3> QED
      BY <2>1, <2>2, <3>1, MetaBlocksApart
  <2> QED
    BY <1>4, <1>6, <2>3, OneBlockWrite, MetaBlocksApart DEF Writing
<1> QED
  BY <1>4, <1>5, <1>6

(* slotfs.h:127-128: if no read of metadata fails, an update of a file     *)
(* leaves the most recent metadata of every slot as it is, and a power     *)
(* loss or a failed write with it.                                         *)
THEOREM MostRecentIsKept ==
    ASSUME SeparateSlots, "read" \notin Faults
    PROVE  Spec => MostRecentSurvives
<1>1. Init => OtherIsWritten
  BY ClosedFileType DEF Init, OtherIsWritten
<1>2. SlotInv /\ OtherIsWritten /\ [Next]_vars => OtherIsWritten'
  BY OtherStep DEF SlotInv
<1>3. SlotInv /\ OtherIsWritten /\ [Next]_vars =>
          [\A slot \in Slots :
              ValidIdx(slot) # {} /\ call.op \notin {"init", "format", "open"} =>
                  LET a == MetaBlock(slot, MostRecentIdx(slot, ValidIdx(slot)))
                  IN disk'[a] = disk[a]]_vars
  BY SurvivesStep DEF SlotInv, Newest
<1> QED
  BY <1>1, <1>2, <1>3, SlotInvariant, PTL DEF Spec, MostRecentSurvives

-----------------------------------------------------------------------------
(* What a step does to the metadata of a slot with a file.                 *)

SameMetas(slot) == \A idx \in {0, 1} : disk'[MetaBlock(slot, idx)] = disk[MetaBlock(slot, idx)]

(* The slot's metadata and what is promised of it stay.                    *)
Rests(slot) == SameMetas(slot) /\ acked'[slot] = acked[slot]

(* A new file begins.                                                      *)
Begins(slot) ==
    /\ CreateMeta /\ call.slot = slot
    /\ acked'[slot] = <<>> /\ written'[slot] = <<>>
    /\ \A idx \in {0, 1} : disk'[MetaBlock(slot, idx)] = FreshMeta(slot, 1)

(* An update of its metadata is written, or cut short.                     *)
Updates(slot) ==
    /\ SyncMeta \/ PowerLoss
    /\ call.at = "meta" /\ slot = file[call.h].slot
    /\ acked[slot] # NoFile

(* A write of one block leaves the metadata of other slots alone.          *)
LEMMA OtherMetas ==
    ASSUME TypeInv, PlaceInv, ContentInv, NEW slot \in Slots,
           call.at \in Writing \ {"page"}, DeviceWrite,
           call.at \in {"format", "create"} => slot # call.slot,
           call.at = "meta" => slot # file[call.h].slot
    PROVE  SameMetas(slot)
<1>1. SUFFICES ASSUME NEW idx \in {0, 1}
               PROVE  disk'[MetaBlock(slot, idx)] = disk[MetaBlock(slot, idx)]
  BY DEF SameMetas
<1>2. MetaBlock(slot, idx) # Pending.at
  <2>1. CASE call.at = "config"
    BY <2>1, MetaBlocksApart DEF Pending
  <2>2. CASE call.at \in {"format", "create"}
    <3>1. /\ Pending.at = MetaBlock(call.slot, call.idx) /\ call.slot \in Slots
          /\ call.idx \in {0, 1}
      BY <2>2, CallFields
         DEF Pending, TypeInv, PlaceInv, CallInv, ContentInv, RenewInv
    <3> QED
      BY <2>2, <3>1, MetaBlocksApart
  <2>3. CASE call.at = "meta"
    <3>1. /\ Pending.at = MetaBlock(file[call.h].slot, call.idx) /\ call.idx \in {0, 1}
          /\ file[call.h].slot \in Slots
      BY <2>3, CallFields
         DEF Pending, TypeInv, CallShape, PlaceInv, CallInv, FilesInv, InItsSlot
    <3> QED
      BY <2>3, <3>1, MetaBlocksApart
  <2> QED
    BY <2>1, <2>2, <2>3 DEF Writing
<1> QED
  BY <1>2, OneBlockWrite, MetaBlocksApart

LEMMA MetaSteps ==
    ASSUME SeparateSlots, SlotInv, [Next]_vars, NEW slot \in Slots, acked'[slot] # NoFile
    PROVE  (Rests(slot) /\ acked[slot] # NoFile) \/ Begins(slot) \/ Updates(slot)
<1>1. TypeInv /\ PlaceInv /\ LockInv /\ ContentInv /\ slot \in SlotNumbers
  BY Constants DEF SlotInv, Slots, SlotNumbers
<1>2. CASE UNCHANGED <<disk, acked>>
  BY <1>2 DEF Rests, SameMetas
<1>3. CASE FormatConfig \/ FormatMeta
  BY <1>1, <1>3 DEF FormatConfig, FormatMeta, history, ContentInv, RenewInv
<1>4. CASE CreateMeta
  <2>1. call.at = "create" /\ DeviceWrite /\ call.slot \in Slots /\ call.idx \in {0, 1}
    BY <1>1, <1>4, CallFields DEF CreateMeta, DeviceWrite, PlaceInv, CallInv, TypeInv
  <2>2. \/ /\ WriteOk /\ call.idx = 1
           /\ written' = [written EXCEPT ![call.slot] = <<>>]
           /\ acked' = [acked EXCEPT ![call.slot] = <<>>]
        \/ acked' = acked
    BY <1>4 DEF CreateMeta
  <2>3. CASE slot # call.slot
    <3>1. acked'[slot] = acked[slot]
      BY <1>1, <2>1, <2>2, <2>3 DEF ContentInv, Histories
    <3>2. SameMetas(slot)
      BY <1>1, <2>1, <2>3, OtherMetas DEF Writing
    <3> QED
      BY <3>1, <3>2 DEF Rests
  <2>4. CASE slot = call.slot
    <3>1. acked[slot] = NoFile
      BY <1>1, <2>1, <2>4 DEF ContentInv, RenewInv
    <3>2. /\ WriteOk /\ call.idx = 1
          /\ written'[slot] = <<>> /\ acked'[slot] = <<>>
      BY <1>1, <2>2, <2>4, <3>1 DEF ContentInv, Histories
    <3>3. disk[MetaBlock(slot, 0)] = FreshMeta(slot, 1)
      BY <1>1, <2>1, <2>4, <3>2 DEF ContentInv, RenewInv
    <3>4. Pending.at = MetaBlock(slot, 1) /\ Pending.blocks[1] = FreshMeta(slot, 1)
      BY <2>1, <2>4, <3>2 DEF Pending
    <3>5. disk'[MetaBlock(slot, 1)] = FreshMeta(slot, 1)
      BY <1>1, <2>1, <3>2, <3>4, OneBlockStored, MetaBlocksApart DEF Writing
    <3>6. disk'[MetaBlock(slot, 0)] = disk[MetaBlock(slot, 0)]
      <4>1. MetaBlock(slot, 0) # Pending.at
        BY <3>4, MetaBlocksApart
      <4> QED
        BY <1>1, <2>1, <4>1, OneBlockWrite, MetaBlocksApart DEF Writing
    <3> QED
      BY <1>4, <2>4, <3>2, <3>3, <3>5, <3>6 DEF Begins
  <2> QED
    BY <2>3, <2>4
<1>5. CASE SyncMeta
  <2>1. PICK h \in Handles : h = call.h
    BY <1>1, <1>5 DEF SyncMeta, TypeInv, CallShape
  <2>2. call.at = "meta" /\ DeviceWrite /\ file[h].mode = "write"
    BY <1>1, <1>5, <2>1 DEF SyncMeta, DeviceWrite, PlaceInv, CallInv
  <2>3. CASE slot = file[h].slot
    BY <1>1, <1>5, <2>1, <2>2, <2>3 DEF Updates, ContentInv, WriterInv, AtRest
  <2>4. CASE slot # file[h].slot
    <3>1. acked'[slot] = acked[slot]
      BY <1>1, <1>5, <2>1, <2>4 DEF SyncMeta, ContentInv, Histories
    <3>2. SameMetas(slot)
      BY <1>1, <2>1, <2>2, <2>4, OtherMetas DEF Writing
    <3> QED
      BY <3>1, <3>2 DEF Rests
  <2> QED
    BY <2>3, <2>4
<1>6. CASE WritePage
  <2>1. call.at = "page" /\ DeviceWrite /\ acked' = acked
    BY <1>6 DEF WritePage, DeviceWrite, history
  <2> QED
    BY <1>1, <2>1, PageMeta DEF Rests, SameMetas
<1>7. CASE PowerLoss
  <2>1. acked' = acked /\ (UNCHANGED disk \/ (call.at \in Writing /\ DeviceWrite))
    BY <1>7 DEF PowerLoss, Writing, DeviceWrite
  <2>2. CASE call.at = "page" /\ DeviceWrite
    BY <1>1, <2>1, <2>2, PageMeta DEF Rests, SameMetas
  <2>3. CASE call.at \in Writing \ {"page"} /\ DeviceWrite
    <3>1. CASE call.at = "meta" /\ slot = file[call.h].slot
      BY <1>7, <2>1, <3>1 DEF Updates
    <3>2. CASE call.at = "meta" => slot # file[call.h].slot
      <4>1. call.at \in {"format", "create"} => slot # call.slot
        BY <1>1, <2>1 DEF ContentInv, RenewInv
      <4> QED
        BY <1>1, <2>1, <2>3, <3>2, <4>1, OtherMetas DEF Rests
    <3> QED
      BY <3>1, <3>2
  <2> QED
    BY <1>2, <2>1, <2>2, <2>3
<1>8. CASE WriteLoop \/ Advance \/ Sync \/ ReadLoop
  <2>1. WriteLoop => UNCHANGED <<disk, acked>>
    BY DEF WriteLoop, history
  <2>2. Advance => UNCHANGED <<disk, acked>>
    BY Zenon DEF Advance
  <2> QED
    BY <1>2, <1>8, <2>1, <2>2, SyncFrame, ReadLoopFrame
<1>9. CASE Call
  <2>1. disk' = disk
    BY <1>9 DEF Call, SfsInit, SfsFormat, SfsDeinit, OpenRead, OpenWrite, Write, Flush,
                Close, Allocate, Seek, Read
  <2>2. \/ acked' = acked
        \/ acked' = [s \in SlotNumbers |-> NoFile]
        \/ \E s \in ClientSlots : acked' = [acked EXCEPT ![s] = NoFile]
    BY <1>9 DEF Call, SfsInit, SfsFormat, SfsDeinit, OpenRead, OpenWrite, Write, Flush,
                Close, Allocate, Seek, Read, history
  <2>3. acked'[slot] = acked[slot]
    BY <1>1, <2>2 DEF ContentInv, Histories
  <2> QED
    BY <2>1, <2>3 DEF Rests, SameMetas
<1> QED
  BY <1>2, <1>3, <1>4, <1>5, <1>6, <1>7, <1>8, <1>9 DEF Next, Step, vars
LEMMA UpdateIs ==
    ASSUME SlotInv, NEW slot \in Slots, Updates(slot), NEW h, h = call.h, NEW idx, idx = call.idx
    PROVE  /\ h \in Handles /\ file[h].mode = "write" /\ file[h].slot = slot
           /\ file[h].md \in Meta /\ file[h].md.size = Len(written[slot])
           /\ idx \in {0, 1} /\ 1 - idx \in {0, 1} /\ 1 - idx # idx
           /\ disk'[MetaBlock(slot, 1 - idx)] = disk[MetaBlock(slot, 1 - idx)]
           /\ disk'[MetaBlock(slot, idx)] \in {disk[MetaBlock(slot, idx)], Garbled, file[h].md}
           /\ PowerLoss \/ disk'[MetaBlock(slot, idx)] = file[h].md \/ WriteFails("meta")
           /\ UNCHANGED written
<1>1. /\ TypeInv /\ PlaceInv /\ ContentInv /\ call.at = "meta" /\ slot = file[h].slot
      /\ SyncMeta \/ PowerLoss
  BY DEF SlotInv, Updates
<1>2. h \in Handles /\ file[h].mode = "write" /\ idx \in {0, 1}
  BY <1>1, CallFields DEF TypeInv, CallShape, PlaceInv, CallInv
<1>3. 1 - idx \in {0, 1} /\ 1 - idx # idx
  BY <1>2
<1>4. file[h].md \in Meta /\ file[h].md.size = Len(written[slot])
  BY <1>1, <1>2, FileFields
     DEF TypeInv, ContentInv, WriterInv, AtRest, PastStored, InFlight
<1>5. DeviceWrite /\ UNCHANGED written
  BY <1>1 DEF SyncMeta, PowerLoss, DeviceWrite
<1>6. Pending.at = MetaBlock(slot, idx) /\ Pending.blocks[1] = file[h].md
  BY <1>1 DEF Pending
<1>7. MetaBlock(slot, 1 - idx) # Pending.at
  <2>1. PICK k \in {0, 1} : k = 1 - idx
    BY <1>3
  <2> QED
    BY <1>2, <1>3, <1>6, <2>1, MetaBlocksApart
<1>8. disk'[MetaBlock(slot, 1 - idx)] = disk[MetaBlock(slot, 1 - idx)]
  <2>1. PICK k \in {0, 1} : k = 1 - idx
    BY <1>3
  <2> QED
    BY <1>1, <1>5, <1>7, <2>1, OneBlockWrite, MetaBlocksApart DEF Writing
<1>9. disk'[MetaBlock(slot, idx)] \in {disk[MetaBlock(slot, idx)], Garbled, file[h].md}
  BY <1>1, <1>2, <1>5, <1>6, OneBlockWrite, MetaBlocksApart DEF Writing
<1>10. PowerLoss \/ disk'[MetaBlock(slot, idx)] = file[h].md \/ WriteFails("meta")
  <2>1. CASE WriteOk
    BY <1>1, <1>2, <1>6, <2>1, OneBlockStored, MetaBlocksApart DEF Writing
  <2> QED
    BY <1>1, <2>1 DEF SyncMeta
<1> QED
  BY <1>1, <1>2, <1>3, <1>4, <1>5, <1>8, <1>9, <1>10

-----------------------------------------------------------------------------
(* What is found.                                                          *)

HasMeta(slot) ==
    /\ ValidIdx(slot) # {}
    /\ \A idx \in ValidIdx(slot) : disk[MetaBlock(slot, idx)].rev # 0

LEMMA FoundStep ==
    ASSUME SeparateSlots
    PROVE  SlotInv /\ Found /\ Unwrapped /\ [Next]_vars => Found'
<1> SUFFICES ASSUME SlotInv, Found, Unwrapped, [Next]_vars
             PROVE  Found'
  OBVIOUS
<1>1. ASSUME NEW slot \in Slots, acked'[slot] # NoFile
      PROVE  HasMeta(slot)'
  <2>1. slot \in SlotNumbers
    BY Constants DEF Slots, SlotNumbers
  <2>2. CASE Rests(slot) /\ acked[slot] # NoFile
    <3>1. HasMeta(slot)
      BY <2>2 DEF Found, HasMeta
    <3> QED
      BY <2>2, <3>1 DEF Rests, SameMetas, HasMeta, ValidIdx
  <2>3. CASE Begins(slot)
    <3>1. FreshMeta(slot, 1) \in Meta /\ FreshMeta(slot, 1).rev = 1
      BY <2>1, FreshMetaType, Constants DEF FreshMeta
    <3> QED
      BY <2>3, <3>1 DEF Begins, HasMeta, ValidIdx
  <2>4. CASE Updates(slot)
    <3>1. PICK h, idx : h = call.h /\ idx = call.idx
      OBVIOUS
    <3>2. PICK m : m = file[h].md
      OBVIOUS
    <3>3. /\ h \in Handles /\ file[h].mode = "write" /\ file[h].slot = slot
          /\ idx \in {0, 1} /\ 1 - idx \in {0, 1} /\ 1 - idx # idx
          /\ disk'[MetaBlock(slot, 1 - idx)] = disk[MetaBlock(slot, 1 - idx)]
          /\ disk'[MetaBlock(slot, idx)] \in {disk[MetaBlock(slot, idx)], Garbled, m}
      BY <2>4, <3>1, <3>2, UpdateIs
    <3>4. m.rev # 0
      BY <3>2, <3>3 DEF Unwrapped
    <3>5. HasMeta(slot) /\ 1 - idx \in ValidIdx(slot)
      BY <2>4, <3>1, <3>3 DEF Updates, Found, HasMeta
    <3>6. \A k \in {0, 1} : k = idx \/ k = 1 - idx
      BY <3>3
    <3>7. PICK other \in {0, 1} : other = 1 - idx
      BY <3>3
    <3>8. disk'[MetaBlock(slot, other)] \in Meta
      BY <3>3, <3>5, <3>7 DEF ValidIdx
    <3>9. ASSUME NEW k \in {0, 1}, disk'[MetaBlock(slot, k)] \in Meta
          PROVE  disk'[MetaBlock(slot, k)].rev # 0
      <4>1. CASE disk'[MetaBlock(slot, k)] = disk[MetaBlock(slot, k)]
        BY <3>5, <3>9, <4>1 DEF HasMeta, ValidIdx
      <4>2. CASE disk'[MetaBlock(slot, k)] = m
        BY <3>4, <4>2
      <4> QED
        BY <3>3, <3>6, <3>9, <4>1, <4>2, NotMeta
    <3> QED
      BY <3>8, <3>9 DEF HasMeta, ValidIdx
  <2> QED
    BY <1>1, <2>2, <2>3, <2>4, MetaSteps
<1>2. ASSUME call'.at = "meta"
      PROVE  (1 - call.idx \in ValidIdx(file[call.h].slot))'
  <2>1. CASE Sync
    <3>1. PICK h \in Handles : h = call.h
      BY <2>1, SyncFrame DEF SlotInv, TypeInv, CallShape
    <3>2. PICK slot \in SlotNumbers : slot = file[h].slot
      BY FileFields DEF SlotInv, TypeInv
    <3>3. UNCHANGED disk /\ file'[h].slot = slot
      BY <2>1, <3>1, <3>2, SyncIs DEF SlotInv
    <3>4. PICK readable \in SUBSET ValidIdx(slot) :
              readable # {} /\ call'.idx = OtherIdx(slot, readable) /\ call'.h = h
      BY <1>2, <2>1, <3>1, <3>2, SyncTo, ClosedFileType DEF SlotInv
    <3>5. 1 - call'.idx \in ValidIdx(slot)
      BY <3>4, TwoIdx DEF SlotInv
    <3> QED
      BY <3>3, <3>4, <3>5 DEF ValidIdx
  <2>2. CASE UNCHANGED vars
    BY <1>2, <2>2 DEF vars, Found, ValidIdx
  <2> QED
    BY <1>2, <2>1, <2>2, MetaBegins DEF SlotInv
<1> QED
  BY <1>1, <1>2 DEF Found, HasMeta

LEMMA FoundInit == Init => Found
<1> SUFFICES ASSUME Init PROVE Found
  OBVIOUS
<1>1. call.at = "idle"
  BY ClosedFileType DEF Init
<1>2. \A slot \in Slots : slot \in SlotNumbers
  BY Constants DEF Slots, SlotNumbers
<1> QED
  BY <1>1, <1>2 DEF Init, Found

(* What is found of a file is made of the blocks written to it.            *)
LEMMA FoundContent ==
    ASSUME SlotInv, NEW slot \in Slots, acked[slot] # NoFile, HasMeta(slot),
           NEW md, md = disk[MetaBlock(slot, Newest(slot))]
    PROVE  /\ md \in Meta /\ md.size \in Nat /\ md.size <= Len(written[slot])
           /\ written[slot] \in Seq(Block)
           /\ OnDisk(slot) = SubSeq(written[slot], 1, md.size)
           /\ OnDisk(slot) # NoFile
<1>1. slot \in SlotNumbers /\ TypeInv /\ MetaInv /\ written[slot] \in Seq(Block)
  BY Constants DEF Slots, SlotNumbers, SlotInv, ContentInv, Histories
<1>2. PICK idx \in {0, 1} : idx = Newest(slot) /\ idx \in ValidIdx(slot)
  BY <1>1, TwoIdx DEF HasMeta, Newest
<1>3. md \in Meta /\ md.size \in Nat /\ md.rev # 0 /\ Describes(md, slot)
  BY <1>1, <1>2 DEF HasMeta, ValidIdx, MetaInv, SlotMeta, Meta
<1>4. OnDisk(slot) = Content(md)
  BY <1>2, <1>3 DEF OnDisk, ReadMeta, Newest, HasMeta
<1>5. /\ md.start = SlotStart(slot) /\ md.size <= SlotSize
      /\ md.size <= Len(written[slot])
      /\ \A j \in 1 .. md.size : disk[DataBlock(slot, j)] = written[slot][j]
  BY <1>3 DEF Describes, OnDevice
<1>6. Content(md) = [j \in 1 .. md.size |-> disk[DataBlock(slot, j)]]
  BY <1>3, <1>5, ContentIs
<1>7. SubSeq(written[slot], 1, md.size) = [j \in 1 .. md.size |-> written[slot][j]]
  <2>1. PICK w \in Seq(Block) : w = written[slot]
    BY <1>1
  <2>2. PICK n \in Nat : n = md.size
    BY <1>3
  <2>3. SubSeq(w, 1, n) = [j \in 1 .. n |-> w[j]]
    <3>1. SubSeq(w, 1, n) = [j \in 1 .. 1 + n - 1 |-> w[1 + j - 1]]
      OBVIOUS
    <3>2. 1 + n - 1 = n /\ \A j \in 1 .. n : 1 + j - 1 = j
      OBVIOUS
    <3> QED
      BY <3>1, <3>2
  <2> QED
    BY <2>1, <2>2, <2>3
<1>8. OnDisk(slot) = SubSeq(written[slot], 1, md.size)
  BY <1>4, <1>5, <1>6, <1>7
<1>9. Content(md) \in Seq(Block)
  BY <1>1, <1>3, ContentSeq DEF TypeInv, TypeOK
<1>10. NoFile \notin Seq(Block)
  BY SlotFSAssumption DEF Block
<1> QED
  BY <1>1, <1>3, <1>4, <1>5, <1>8, <1>9, <1>10

LEMMA PrefixOf ==
    ASSUME NEW w \in Seq(Block), NEW n \in Nat, n <= Len(w)
    PROVE  IsPrefix(SubSeq(w, 1, n), w)
BY DEF IsPrefix

(* slotfs.h:128: as long as no revision wraps, what is found of a file     *)
(* that was created is made of its first blocks, whatever read or write    *)
(* fails and whenever power is lost.                                       *)
THEOREM FoundIsAlwaysWritten ==
    ASSUME SeparateSlots
    PROVE  Spec /\ []Unwrapped => []FoundIsWritten
<1>1. SlotInv /\ Found => FoundIsWritten
  <2>1. SUFFICES ASSUME SlotInv, Found, NEW slot \in Slots, acked[slot] # NoFile
                 PROVE  OnDisk(slot) # NoFile /\ IsPrefix(OnDisk(slot), written[slot])
    BY DEF FoundIsWritten
  <2>2. PICK md : md = disk[MetaBlock(slot, Newest(slot))]
    OBVIOUS
  <2>3. HasMeta(slot)
    BY <2>1 DEF Found, HasMeta
  <2>4. /\ md.size \in Nat /\ md.size <= Len(written[slot])
        /\ written[slot] \in Seq(Block) /\ OnDisk(slot) = SubSeq(written[slot], 1, md.size)
        /\ OnDisk(slot) # NoFile
    BY <2>1, <2>2, <2>3, FoundContent
  <2> QED
    BY <2>4, PrefixOf
<1> QED
  BY <1>1, FoundInit, FoundStep, SlotInvariant, PTL DEF Spec

-----------------------------------------------------------------------------
(* What a step does to what is written, and to a writer's metadata.        *)

LEMMA PrefixLen ==
    ASSUME NEW s \in Seq(Block), NEW t \in Seq(Block)
    PROVE  IsPrefix(s, t) <=> Len(s) <= Len(t) /\ \A k \in 1 .. Len(s) : s[k] = t[k]
<1>1. Len(s) \in Nat /\ Len(t) \in Nat
  OBVIOUS
<1>2. SubSeq(s, 1, Len(s)) = s
  OBVIOUS
<1>3. ASSUME Len(s) <= Len(t)
      PROVE  SubSeq(t, 1, Len(s)) = s <=> \A k \in 1 .. Len(s) : s[k] = t[k]
  <2>1. PICK piece \in Seq(Block) : /\ piece = SubSeq(t, 1, Len(s)) /\ Len(piece) = Len(s)
                                    /\ \A k \in 1 .. Len(s) : piece[k] = t[k]
    <3>1. PICK piece : piece = SubSeq(t, 1, Len(s))
      OBVIOUS
    <3>2. piece \in Seq(Block) /\ Len(piece) = Len(s) /\ \A k \in 1 .. Len(s) : piece[k] = t[k]
      BY <1>1, <1>3, <3>1
    <3> QED
      BY <3>1, <3>2
  <2>2. (\A k \in 1 .. Len(s) : s[k] = piece[k]) => s = piece
    BY <1>1, <2>1
  <2> QED
    BY <2>1, <2>2
<1> QED
  BY <1>2, <1>3 DEF IsPrefix

(* A file that is promised only grows.                                     *)
LEMMA WrittenGrows ==
    ASSUME SeparateSlots, SlotInv, [Next]_vars, NEW slot \in Slots, acked[slot] # NoFile
    PROVE  written'[slot] = written[slot] \/ written[slot] = <<>>
           \/ \E more \in Seq(Block) : written'[slot] = written[slot] \o more
<1>1. /\ TypeInv /\ PlaceInv /\ ContentInv /\ slot \in SlotNumbers
      /\ written \in [SlotNumbers -> Seq(Block)]
  BY Constants DEF SlotInv, Slots, SlotNumbers, ContentInv, Histories
<1>2. CASE CreateMeta
  <2>1. call.slot # slot
    BY <1>1, <1>2 DEF CreateMeta, ContentInv, RenewInv
  <2> QED
    BY <1>1, <1>2, <2>1 DEF CreateMeta
<1>3. CASE Advance
  <2>1. PICK h \in Handles : h = call.h
    BY <1>1, <1>3 DEF Advance, TypeInv, CallShape
  <2>2. /\ call.at = "advance" /\ call.op = "write" /\ file[h].mode = "write"
        /\ written' = [written EXCEPT ![file[h].slot] = @ \o SubSeq(call.rest, 1, call.n)]
    BY <1>1, <1>3, <2>1, AdvanceIs
  <2>3. SubSeq(call.rest, 1, call.n) \in Seq(Block)
    <3>1. PICK rest \in Seq(Block) : rest = call.rest
      BY <1>1, CallFields DEF TypeInv
    <3>2. PICK n \in Nat : n = call.n /\ n <= Len(rest)
      BY <1>1, <2>2, <3>1, CallFields DEF TypeInv, CallShape
    <3>3. Piece(rest, n) \in Seq(Block)
      BY <3>2, Appended
    <3> QED
      BY <3>1, <3>2, <3>3 DEF Piece
  <2> QED
    BY <1>1, <2>2, <2>3
<1>4. CASE \E h \in Handles : \E n : Allocate(h, n)
  <2>1. PICK h \in Handles : \E n : Allocate(h, n)
    BY <1>4
  <2>2. CASE file[h].slot = slot
    <3>1. file[h].mode = "write" /\ file[h].cursor = 0
      BY <2>1 DEF Allocate, ClientMayAllocate, SeparateSlots
    <3>2. Len(written[slot]) = 0
      BY <1>1, <2>2, <3>1 DEF ContentInv, WriterInv, AtRest, PastStored
    <3> QED
      BY <1>1, <3>2
  <2>3. CASE file[h].slot # slot
    BY <1>1, <2>1, <2>3 DEF Allocate
  <2> QED
    BY <2>2, <2>3
<1>5. CASE UNCHANGED written
  BY <1>5
<1>6. CASE Step
  <2>1. FormatConfig \/ FormatMeta \/ WriteLoop \/ WritePage \/ SyncMeta => UNCHANGED written
    BY DEF FormatConfig, FormatMeta, WriteLoop, WritePage, SyncMeta, history
  <2> QED
    BY <1>2, <1>3, <1>5, <1>6, <2>1, SyncFrame, ReadLoopFrame DEF Step
<1>7. CASE Call
  <2>1. UNCHANGED written \/ (\E h \in Handles : \E n : Allocate(h, n))
    BY <1>7 DEF Call, SfsInit, SfsFormat, SfsDeinit, OpenRead, OpenWrite, Write, Flush,
                Close, Seek, Read, history
  <2> QED
    BY <1>4, <1>5, <2>1
<1>8. CASE PowerLoss
  BY <1>5, <1>8 DEF PowerLoss
<1> QED
  BY <1>5, <1>6, <1>7, <1>8 DEF Next, vars

(* What was promised of it stays its beginning.                            *)
LEMMA PromiseKept ==
    ASSUME SeparateSlots, SlotInv, SlotInv', [Next]_vars, NEW slot \in Slots,
           acked[slot] # NoFile, IsPrefix(acked[slot], written[slot])
    PROVE  IsPrefix(acked[slot], written'[slot])
<1>1. /\ acked[slot] \in Seq(Block) /\ written[slot] \in Seq(Block)
      /\ written'[slot] \in Seq(Block)
  BY Constants DEF SlotInv, ContentInv, Histories, Slots, SlotNumbers
<1>2. PICK a, w, new \in Seq(Block) : a = acked[slot] /\ w = written[slot] /\ new = written'[slot]
  BY <1>1
<1>3. Len(a) <= Len(w) /\ Len(a) \in Nat /\ \A k \in 1 .. Len(a) : a[k] = w[k]
  BY <1>2, PrefixLen
<1>4. CASE new = w
  BY <1>2, <1>4
<1>5. CASE w = <<>>
  <2>1. Len(a) = 0
    BY <1>3, <1>5
  <2> QED
    BY <1>2, <2>1, PrefixLen
<1>6. CASE \E more \in Seq(Block) : new = w \o more
  <2>1. PICK more \in Seq(Block) : new = w \o more
    BY <1>6
  <2>2. Len(w) <= Len(new) /\ \A k \in 1 .. Len(w) : new[k] = w[k]
    BY <2>1
  <2>3. Len(a) <= Len(new) /\ \A k \in 1 .. Len(a) : new[k] = a[k]
    BY <1>3, <2>2
  <2> QED
    BY <1>2, <2>3, PrefixLen
<1> QED
  BY <1>2, <1>4, <1>5, <1>6, WrittenGrows

(* A write of metadata in flight is carried out or lost with the power.    *)
LEMMA MetaEnds ==
    ASSUME [Next]_vars, call.at = "meta"
    PROVE  SyncMeta \/ PowerLoss \/ UNCHANGED vars
<1>1. call # Idle
  BY ClosedFileType
<1>2. ~Call
  BY <1>1 DEF Call, SfsInit, SfsFormat, SfsDeinit, OpenRead, OpenWrite, Write, Flush,
              Close, Allocate, Seek, Read, Ready
<1>3. ~FormatConfig /\ ~FormatMeta /\ ~CreateMeta /\ ~WriteLoop /\ ~WritePage
  BY DEF FormatConfig, FormatMeta, CreateMeta, WriteLoop, WritePage
<1>4. ~Advance
  BY Zenon DEF Advance
<1> QED
  BY <1>2, <1>3, <1>4, SyncFrame, ReadLoopFrame DEF Next, Step

(* The metadata a writer has in memory changes in an update only.          *)
LEMMA SameMd ==
    ASSUME SlotInv, [Next]_vars, NEW h \in Handles, file'[h].mode = "write",
           ~(Sync /\ call.h = h)
    PROVE  \/ /\ file[h].mode = "write"
              /\ file'[h].slot = file[h].slot /\ file'[h].md = file[h].md
           \/ /\ CreateMeta /\ call.h = h /\ acked'[call.slot] # NoFile
              /\ file'[h].slot = call.slot /\ file'[h].md = FreshMeta(call.slot, 1)
<1>1. TypeInv /\ PlaceInv /\ ContentInv
  BY DEF SlotInv
<1>2. file \in [Handles -> FileType] /\ file[h] \in FileType
  BY <1>1 DEF TypeInv, TypeOK
<1>3. CASE Step
  <2>1. CASE FormatConfig \/ FormatMeta
    BY <2>1 DEF FormatConfig, FormatMeta
  <2>2. CASE CreateMeta
    <3>1. CASE UNCHANGED file
      BY <3>1
    <3>2. CASE /\ file' = [file EXCEPT ![call.h] =
                              OpenedFile(call.slot, "write", FreshMeta(call.slot, 1))]
               /\ acked' = [acked EXCEPT ![call.slot] = <<>>]
      <4>1. CASE call.h = h
        <5>1. PICK m : m = FreshMeta(call.slot, 1)
          OBVIOUS
        <5>2. file'[h] = OpenedFile(call.slot, "write", m)
          BY <1>2, <3>2, <4>1, <5>1
        <5>3. file'[h].slot = call.slot /\ file'[h].md = m
          BY <5>2 DEF OpenedFile, ClosedFile
        <5>4. call.slot \in SlotNumbers /\ NoFile # <<>>
          <6>1. <<>> \in Seq(Block) /\ NoFile \notin Seq(Block)
            BY SlotFSAssumption DEF Block
          <6> QED
            BY <1>1, <6>1, CallFields DEF TypeInv
        <5>5. acked'[call.slot] = <<>>
          BY <1>1, <3>2, <5>4 DEF ContentInv, Histories
        <5> QED
          BY <2>2, <4>1, <5>1, <5>3, <5>4, <5>5
      <4>2. CASE call.h # h
        BY <1>2, <3>2, <4>2
      <4> QED
        BY <4>1, <4>2
    <3> QED
      BY <2>2, <3>1, <3>2 DEF CreateMeta
  <2>3. CASE WriteLoop
    <3>1. PICK g \in Handles : g = call.h
      BY <1>1, <2>3 DEF WriteLoop, TypeInv, CallShape
    <3> QED
      BY <1>2, <2>3, <3>1 DEF WriteLoop, FileType
  <2>4. CASE WritePage
    <3>1. PICK g \in Handles : g = call.h
      BY <1>1, <2>4 DEF WritePage, TypeInv, CallShape
    <3> QED
      BY <1>2, <2>4, <3>1 DEF WritePage, Cleared, FileType
  <2>5. CASE Advance
    <3>1. PICK g \in Handles : g = call.h
      BY <1>1, <2>5 DEF Advance, TypeInv, CallShape
    <3>2. /\ \A x \in Handles \ {g} : file'[x] = file[x]
          /\ file[g].mode = "write" /\ file'[g].slot = file[g].slot /\ file'[g].md = file[g].md
      BY <1>1, <2>5, <3>1, AdvanceIs
    <3> QED
      BY <3>2
  <2>6. CASE Sync
    <3>1. PICK g \in Handles : g = call.h
      BY <1>1, <2>6, SyncFrame DEF TypeInv, CallShape
    <3> QED
      BY <1>1, <2>6, <3>1, SyncIs
  <2>7. CASE SyncMeta
    <3>1. UNCHANGED file \/ file' = [file EXCEPT ![call.h] = ClosedFile]
      BY <2>7 DEF SyncMeta
    <3> QED
      BY <1>2, <3>1, ClosedFileType
  <2>8. CASE ReadLoop
    <3>1. PICK g \in Handles : g = call.h
      BY <1>1, <2>8, ReadLoopFrame DEF TypeInv, CallShape
    <3>2. /\ \A x \in Handles \ {g} : file'[x] = file[x]
          /\ file'[g].mode = file[g].mode /\ file'[g].slot = file[g].slot
          /\ file'[g].md = file[g].md
      BY <1>1, <2>8, <3>1, ReadLoopKeeps
    <3> QED
      BY <3>2
  <2> QED
    BY <1>3, <2>1, <2>2, <2>3, <2>4, <2>5, <2>6, <2>7, <2>8 DEF Step
<1>4. CASE Call
  <2>1. CASE UNCHANGED file
    BY <2>1
  <2>2. CASE \E g \in Handles : file' = [file EXCEPT ![g] = ClosedFile]
    BY <1>2, <2>2, ClosedFileType
  <2>3. CASE \E g \in Handles : \E slot, md :
               file' = [file EXCEPT ![g] = OpenedFile(slot, "read", md)]
    <3>1. \A slot, md : OpenedFile(slot, "read", md).mode = "read"
      BY DEF OpenedFile, ClosedFile
    <3> QED
      BY <1>2, <2>3, <3>1
  <2>4. CASE \E g \in Handles : \E n : file' = [file EXCEPT ![g] = [Cleared(@) EXCEPT !.cursor = n]]
    BY <1>2, <2>4 DEF Cleared, FileType
  <2>5. \/ UNCHANGED file
        \/ \E g \in Handles : file' = [file EXCEPT ![g] = ClosedFile]
        \/ \E g \in Handles : \E slot, md :
               file' = [file EXCEPT ![g] = OpenedFile(slot, "read", md)]
        \/ \E g \in Handles : \E n : file' = [file EXCEPT ![g] = [Cleared(@) EXCEPT !.cursor = n]]
    <3>1. CASE \E g \in Handles : \E slot : OpenRead(g, slot)
      BY <3>1 DEF OpenRead
    <3>2. CASE \E g \in Handles : Close(g)
      BY <3>2 DEF Close
    <3>3. CASE \E g \in Handles : \E n : Allocate(g, n) \/ Seek(g, n)
      BY <3>3 DEF Allocate, Seek
    <3>4. CASE \/ SfsInit \/ SfsFormat \/ SfsDeinit
               \/ \E g \in Handles :
                    \/ \E slot : OpenWrite(g, slot)
                    \/ \E blocks : Write(g, blocks)
                    \/ Flush(g)
                    \/ \E n : Read(g, n)
      BY <3>4 DEF SfsInit, SfsFormat, SfsDeinit, OpenWrite, Write, Flush, Read
    <3> QED
      BY <1>4, <3>1, <3>2, <3>3, <3>4 DEF Call
  <2> QED
    BY <2>1, <2>2, <2>3, <2>4, <2>5
<1>5. CASE PowerLoss
  BY <1>5, ClosedFileType DEF PowerLoss
<1>6. CASE UNCHANGED vars
  BY <1>6 DEF vars
<1> QED
  BY <1>3, <1>4, <1>5, <1>6 DEF Next

-----------------------------------------------------------------------------
(* What is durable.                                                        *)

LEMMA NewestStays ==
    ASSUME NEW slot, SameMetas(slot)
    PROVE  Newest(slot)' = Newest(slot) /\ ValidIdx(slot)' = ValidIdx(slot)
<1>1. ValidIdx(slot)' = ValidIdx(slot)
  BY DEF SameMetas, ValidIdx
<1> QED
  BY <1>1 DEF SameMetas, Newest, MostRecentIdx

LEMMA NewestIs ==
    ASSUME NEW slot, NEW idx \in {0, 1}, NEW other \in {0, 1}, other # idx,
           disk'[MetaBlock(slot, other)] \in Meta
    PROVE  /\ disk'[MetaBlock(slot, idx)] \notin Meta => Newest(slot)' = other
           /\ /\ disk'[MetaBlock(slot, idx)] \in Meta
              /\ disk'[MetaBlock(slot, idx)].rev = disk'[MetaBlock(slot, other)].rev + 1
              => Newest(slot)' = idx /\ ValidIdx(slot)' = {0, 1}
<1>1. CASE disk'[MetaBlock(slot, idx)] \notin Meta
  <2>1. ValidIdx(slot)' = {other}
    BY <1>1 DEF ValidIdx
  <2> QED
    BY <1>1, <2>1 DEF Newest, MostRecentIdx
<1>2. CASE disk'[MetaBlock(slot, idx)] \in Meta
  <2>1. ValidIdx(slot)' = {0, 1}
    BY <1>2 DEF ValidIdx
  <2>2. PICK a, b : a = disk'[MetaBlock(slot, 0)].rev /\ b = disk'[MetaBlock(slot, 1)].rev
    OBVIOUS
  <2>3. a \in Nat /\ b \in Nat
    BY <1>2, <2>2, Constants DEF Meta
  <2>4. Newest(slot)' = IF IsCurrentA(a, b) THEN 0 ELSE 1
    BY <2>1, <2>2 DEF Newest, MostRecentIdx
  <2>5. /\ a = b + 1 => IsCurrentA(a, b)
        /\ b = a + 1 => ~IsCurrentA(a, b)
    BY <2>3 DEF IsCurrentA, Abs
  <2> QED
    BY <1>2, <2>1, <2>2, <2>4, <2>5
<1> QED
  BY <1>1, <1>2

(* The promise of a slot survives every step.                              *)
LEMMA PromiseStep ==
    ASSUME SeparateSlots, "read" \notin Faults, "meta" \notin Faults,
           SlotInv, SlotInv', OtherIsWritten, Durable, [Next]_vars,
           NEW slot \in Slots, acked'[slot] # NoFile
    PROVE  Promised(slot)'
<1>1. TypeInv /\ slot \in SlotNumbers
  BY Constants DEF SlotInv, Slots, SlotNumbers
<1>2. CASE Rests(slot) /\ acked[slot] # NoFile
  <2>1. IsPrefix(acked[slot], written[slot])
        /\ Len(acked[slot]) <= disk[MetaBlock(slot, Newest(slot))].size
    BY <1>2 DEF Durable, Promised
  <2>2. IsPrefix(acked[slot], written'[slot])
    BY <1>2, <2>1, PromiseKept
  <2>3. PICK idx \in {0, 1} : idx = Newest(slot)
    BY <1>1, TwoIdx DEF Newest
  <2>4. Newest(slot)' = idx /\ disk'[MetaBlock(slot, idx)] = disk[MetaBlock(slot, idx)]
    BY <1>2, <2>3, NewestStays DEF Rests, SameMetas
  <2> QED
    BY <1>2, <2>1, <2>2, <2>3, <2>4 DEF Promised, Rests
<1>3. CASE Begins(slot)
  <2>1. Newest(slot)' \in {0, 1}
    BY DEF Newest, MostRecentIdx
  <2>2. disk'[MetaBlock(slot, Newest(slot)')].size = 0
    BY <1>3, <2>1 DEF Begins, FreshMeta
  <2>3. <<>> \in Seq(Block) /\ IsPrefix(<<>>, <<>>) /\ Len(<<>>) <= 0
    BY DEF IsPrefix
  <2> QED
    BY <1>3, <2>2, <2>3 DEF Begins, Promised
<1>4. CASE Updates(slot)
  <2>1. PICK h, idx : h = call.h /\ idx = call.idx
    OBVIOUS
  <2>2. PICK m : m = file[h].md
    OBVIOUS
  <2>3. /\ h \in Handles /\ file[h].mode = "write" /\ file[h].slot = slot
        /\ m \in Meta /\ m.size = Len(written[slot])
        /\ idx \in {0, 1}
        /\ disk'[MetaBlock(slot, 1 - idx)] = disk[MetaBlock(slot, 1 - idx)]
        /\ disk'[MetaBlock(slot, idx)] \in {disk[MetaBlock(slot, idx)], Garbled, m}
        /\ PowerLoss \/ disk'[MetaBlock(slot, idx)] = m \/ WriteFails("meta")
        /\ UNCHANGED written
    BY <1>4, <2>1, <2>2, UpdateIs
  <2>4. PICK other \in {0, 1} : other = Newest(slot) /\ idx = 1 - other
    <3>1. idx = OtherIdx(slot, ValidIdx(slot))
      BY <1>4, <2>1, <2>3 DEF Updates, OtherIsWritten
    <3> QED
      BY <1>1, <3>1, TwoIdx DEF Newest
  <2>5. 1 - idx = other /\ other # idx
    BY <2>4
  <2>6. /\ disk[MetaBlock(slot, other)] \in Meta
        /\ m.rev = disk[MetaBlock(slot, other)].rev + 1
    BY <1>4, <2>1, <2>2, <2>3, <2>4 DEF Updates, Durable, Consecutive, ValidIdx
  <2>7. /\ IsPrefix(acked[slot], written[slot])
        /\ Len(acked[slot]) <= disk[MetaBlock(slot, other)].size
    BY <1>4, <2>4 DEF Updates, Durable, Promised
  <2>8. /\ written[slot] \in Seq(Block) /\ Len(written[slot]) \in Nat
        /\ acked[slot] \in Seq(Block) /\ Len(acked[slot]) \in Nat
    BY <1>1, <1>4 DEF SlotInv, ContentInv, Histories, Updates
  <2>9. Len(acked[slot]) <= Len(written[slot])
    BY <2>7 DEF IsPrefix
  <2>10. CASE disk'[MetaBlock(slot, idx)] = m
    <3>1. Newest(slot)' = idx
      BY <2>3, <2>5, <2>6, <2>10, NewestIs
    <3>2. acked'[slot] \in {acked[slot], written[slot]}
      BY <1>1, <1>4, <2>1, <2>3 DEF Updates, SyncMeta, PowerLoss, SlotInv, ContentInv, Histories
    <3>3. IsPrefix(written[slot], written[slot])
      BY <2>8, PrefixLen
    <3>4. IsPrefix(acked'[slot], written'[slot]) /\ Len(acked'[slot]) <= m.size
      BY <2>3, <2>7, <2>8, <2>9, <3>2, <3>3
    <3> QED
      BY <2>10, <3>1, <3>4 DEF Promised
  <2>11. CASE PowerLoss /\ disk'[MetaBlock(slot, idx)] # m
    <3>1. Newest(slot)' = other
      <4>1. CASE disk'[MetaBlock(slot, idx)] = disk[MetaBlock(slot, idx)]
        <5>1. SameMetas(slot)
          BY <2>3, <2>4, <2>5, <4>1 DEF SameMetas
        <5> QED
          BY <2>4, <5>1, NewestStays
      <4>2. CASE disk'[MetaBlock(slot, idx)] = Garbled
        BY <2>3, <2>5, <2>6, <4>2, NewestIs, NotMeta
      <4> QED
        BY <2>3, <2>11, <4>1, <4>2
    <3>2. acked'[slot] = acked[slot] /\ disk'[MetaBlock(slot, other)] = disk[MetaBlock(slot, other)]
      BY <2>3, <2>5, <2>11 DEF PowerLoss
    <3> QED
      BY <2>3, <2>7, <3>1, <3>2 DEF Promised
  <2>12. ~WriteFails("meta")
    BY DEF WriteFails, Fault
  <2> QED
    BY <2>3, <2>10, <2>11, <2>12
<1> QED
  BY <1>2, <1>3, <1>4, MetaSteps

(* Nobody writes the metadata of an open file's slot but its own calls.    *)
LEMMA WriterMetas ==
    ASSUME SeparateSlots, SlotInv, SlotInv', [Next]_vars, NEW h \in Handles,
           file[h].mode = "write", file'[h].mode = "write", file'[h].slot = file[h].slot,
           ~(SyncMeta /\ call.h = h), NEW slot, slot = file[h].slot
    PROVE  SameMetas(slot)
<1>1. slot \in Slots /\ slot \in SlotNumbers /\ acked'[slot] # NoFile
  BY Constants DEF SlotInv, PlaceInv, FilesInv, InItsSlot, ContentInv, WriterInv, AtRest,
                   Slots, SlotNumbers
<1>2. ~Begins(slot)
  <2>1. SUFFICES ASSUME Begins(slot) PROVE FALSE
    OBVIOUS
  <2>2. lock_counters[slot] = 0
    BY <2>1 DEF Begins, CreateMeta, SlotInv, LockInv
  <2> QED
    BY <1>1, <2>2, UnlockedIsClosed DEF IsOpen, SlotInv
<1>3. ~Updates(slot)
  <2>1. SUFFICES ASSUME Updates(slot) PROVE FALSE
    OBVIOUS
  <2>2. PICK g, idx : g = call.h /\ idx = call.idx
    OBVIOUS
  <2>3. g \in Handles /\ file[g].mode = "write" /\ file[g].slot = slot
    BY <1>1, <2>1, <2>2, UpdateIs
  <2>4. g = h
    BY <1>1, <2>3, OneWriter DEF SlotInv
  <2>5. ~PowerLoss
    BY ClosedFileType DEF PowerLoss
  <2> QED
    BY <2>1, <2>2, <2>4, <2>5 DEF Updates
<1> QED
  BY <1>1, <1>2, <1>3, MetaSteps DEF Rests

LEMMA RevisionStep ==
    ASSUME SeparateSlots, "read" \notin Faults, "meta" \notin Faults,
           SlotInv, SlotInv', OtherIsWritten, Durable, Unwrapped', [Next]_vars,
           NEW h \in Handles, file'[h].mode = "write"
    PROVE  Consecutive(h)'
<1>1. TypeInv /\ PlaceInv /\ ContentInv /\ LockInv
  BY DEF SlotInv
<1>2. PICK slot \in Slots : slot = file'[h].slot
  BY DEF SlotInv, PlaceInv, FilesInv, InItsSlot
<1>3. slot \in SlotNumbers
  BY Constants DEF Slots, SlotNumbers
<1>4. PICK m : m = file'[h].md
  OBVIOUS
<1>5. PICK inmeta \in BOOLEAN : inmeta <=> call'.h = h /\ call'.at = "meta"
  OBVIOUS
<1>6. SUFFICES
        /\ ValidIdx(slot)' = {0, 1}
        /\ m.rev = IF inmeta THEN disk'[MetaBlock(slot, Newest(slot)')].rev + 1
                             ELSE disk'[MetaBlock(slot, Newest(slot)')].rev
        /\ \/ disk'[MetaBlock(slot, 1 - Newest(slot)')].rev
                  = disk'[MetaBlock(slot, Newest(slot)')].rev - 1
           \/ /\ disk'[MetaBlock(slot, 1 - Newest(slot)')].rev = 1
              /\ disk'[MetaBlock(slot, Newest(slot)')].rev = 1
  BY <1>2, <1>4, <1>5 DEF Consecutive, Newest, MostRecentIdx, ValidIdx
<1>7. ASSUME file[h].mode = "write", file[h].slot = slot
      PROVE  /\ ValidIdx(slot) = {0, 1}
             /\ file[h].md.rev = IF call.h = h /\ call.at = "meta"
                                 THEN disk[MetaBlock(slot, Newest(slot))].rev + 1
                                 ELSE disk[MetaBlock(slot, Newest(slot))].rev
             /\ \/ disk[MetaBlock(slot, 1 - Newest(slot))].rev
                       = disk[MetaBlock(slot, Newest(slot))].rev - 1
                \/ /\ disk[MetaBlock(slot, 1 - Newest(slot))].rev = 1
                   /\ disk[MetaBlock(slot, Newest(slot))].rev = 1
  BY <1>7 DEF Durable, Consecutive
<1>8. CASE Sync /\ call.h = h
  <2>1. /\ UNCHANGED disk /\ call.at = "sync" /\ file'[h].mode = file[h].mode
        /\ file[h].slot = slot /\ m.rev = (file[h].md.rev + 1) % RevMod
    BY <1>1, <1>2, <1>4, <1>8, SyncIs
  <2>2. PICK rev \in 0 .. RevMod - 1 : rev = file[h].md.rev
    BY <1>1, FileFields DEF TypeInv, Meta
  <2>3. m.rev = rev + 1
    <3>1. (rev + 1) % RevMod # 0
      BY <1>4, <2>1, <2>2 DEF Unwrapped
    <3>2. rev + 1 # RevMod
      <4>1. RevMod % RevMod = 0
        BY SlotFSAssumption
      <4> QED
        BY <3>1, <4>1
    <3>3. (rev + 1) % RevMod = rev + 1
      BY <2>2, <3>2, SlotFSAssumption
    <3> QED
      BY <2>1, <2>2, <3>3
  <2>4. ValidIdx(slot) = {0, 1} /\ rev = disk[MetaBlock(slot, Newest(slot))].rev
    BY <1>7, <2>1, <2>2
  <2>5. inmeta
    <3>1. PICK readable \in SUBSET ValidIdx(slot) :
              /\ ReadsAs(slot, readable)
              /\ readable # {} => call'.at = "meta" /\ call'.h = h
      BY <1>1, <1>8, <2>1, SyncTo
    <3>2. readable = ValidIdx(slot)
      BY <3>1 DEF ReadsAs, Fault
    <3> QED
      BY <1>5, <2>4, <3>1, <3>2
  <2>6. SameMetas(slot)
    BY <2>1 DEF SameMetas
  <2>7. PICK new, old \in {0, 1} : new = Newest(slot) /\ old = 1 - new
    BY <1>1, <1>3, TwoIdx DEF Newest
  <2>8. Newest(slot)' = new /\ ValidIdx(slot)' = {0, 1}
    BY <2>4, <2>6, <2>7, NewestStays
  <2> QED
    BY <1>7, <2>1, <2>2, <2>3, <2>4, <2>5, <2>7, <2>8
<1>9. CASE SyncMeta /\ call.h = h
  <2>1. file'[h] = file[h] /\ call.at = "meta"
    BY <1>1, <1>9, ClosedFileType DEF SyncMeta, TypeInv, TypeOK
  <2>2. file[h].slot = slot /\ file[h].md = m /\ file[h].mode = "write"
    BY <1>2, <1>4, <2>1
  <2>3. Updates(slot)
    BY <1>1, <1>9, <2>1, <2>2 DEF Updates, ContentInv, WriterInv, AtRest
  <2>4. PICK idx : idx = call.idx
    OBVIOUS
  <2>5. /\ idx \in {0, 1} /\ m \in Meta
        /\ disk'[MetaBlock(slot, 1 - idx)] = disk[MetaBlock(slot, 1 - idx)]
        /\ PowerLoss \/ disk'[MetaBlock(slot, idx)] = m \/ WriteFails("meta")
    BY <1>9, <2>2, <2>3, <2>4, UpdateIs
  <2>6. disk'[MetaBlock(slot, idx)] = m
    <3>1. ~PowerLoss
      BY ClosedFileType DEF PowerLoss
    <3>2. ~WriteFails("meta")
      BY DEF WriteFails, Fault
    <3> QED
      BY <2>5, <3>1, <3>2
  <2>7. PICK other \in {0, 1} : other = Newest(slot) /\ idx = 1 - other
    <3>1. idx = OtherIdx(slot, ValidIdx(slot))
      BY <1>9, <2>1, <2>2, <2>4 DEF OtherIsWritten
    <3> QED
      BY <1>1, <1>3, <3>1, TwoIdx DEF Newest
  <2>8. 1 - idx = other /\ other # idx
    BY <2>7
  <2>9. /\ disk[MetaBlock(slot, other)] \in Meta
        /\ m.rev = disk[MetaBlock(slot, other)].rev + 1
    BY <1>7, <1>9, <2>1, <2>2, <2>7 DEF ValidIdx
  <2>10. Newest(slot)' = idx /\ ValidIdx(slot)' = {0, 1}
    BY <2>5, <2>6, <2>8, <2>9, NewestIs
  <2>11. ~inmeta
    <3>1. call \in CallType /\ Idle.at = "idle"
      BY <1>1, ClosedFileType DEF TypeInv, TypeOK
    <3>2. call'.at # "meta"
      BY <1>9, <3>1 DEF SyncMeta, Return, CallType
    <3> QED
      BY <1>5, <3>2
  <2>12. disk[MetaBlock(slot, other)].rev \in Nat
    BY <2>9, Constants DEF Meta
  <2> QED
    BY <2>5, <2>6, <2>8, <2>9, <2>10, <2>11, <2>12
<1>10. CASE ~(Sync /\ call.h = h) /\ ~(SyncMeta /\ call.h = h)
  <2>1. CASE /\ file[h].mode = "write"
             /\ file'[h].slot = file[h].slot /\ file'[h].md = file[h].md
    <3>1. SameMetas(slot)
      BY <1>2, <1>10, <2>1, WriterMetas
    <3>2. inmeta <=> call.h = h /\ call.at = "meta"
      <4>1. UNCHANGED vars => UNCHANGED call
        BY DEF vars
      <4>2. ASSUME inmeta PROVE call.h = h /\ call.at = "meta"
        <5>1. CASE Sync
          <6>1. PICK g \in Handles : g = call.h
            BY <1>1, <5>1, SyncFrame DEF TypeInv, CallShape
          <6>2. call'.h = g
            BY <1>1, <1>5, <4>2, <5>1, <6>1, SyncTo, ClosedFileType
          <6> QED
            BY <1>5, <1>10, <4>2, <5>1, <6>1, <6>2
        <5> QED
          BY <1>1, <1>5, <4>1, <4>2, <5>1, MetaBegins
      <4>3. ASSUME call.h = h, call.at = "meta" PROVE inmeta
        <5>1. ~PowerLoss
          BY ClosedFileType DEF PowerLoss
        <5> QED
          BY <1>5, <1>10, <4>1, <4>3, <5>1, MetaEnds
      <4> QED
        BY <4>2, <4>3
    <3>3. PICK new, old \in {0, 1} : new = Newest(slot) /\ old = 1 - new
      BY <1>1, <1>3, TwoIdx DEF Newest
    <3>4. /\ Newest(slot)' = new /\ ValidIdx(slot)' = ValidIdx(slot)
          /\ disk'[MetaBlock(slot, new)] = disk[MetaBlock(slot, new)]
          /\ disk'[MetaBlock(slot, old)] = disk[MetaBlock(slot, old)]
      BY <3>1, <3>3, NewestStays DEF SameMetas
    <3>5. file[h].slot = slot /\ file[h].md = m
      BY <1>2, <1>4, <2>1
    <3> QED
      BY <1>7, <2>1, <3>2, <3>3, <3>4, <3>5
  <2>2. CASE /\ CreateMeta /\ call.h = h /\ acked'[call.slot] # NoFile
             /\ file'[h].slot = call.slot /\ file'[h].md = FreshMeta(call.slot, 1)
    <3>1. call.slot = slot /\ acked[slot] = NoFile /\ call.at = "create"
      BY <1>1, <1>2, <2>2 DEF CreateMeta, ContentInv, RenewInv
    <3>2. Begins(slot)
      BY <2>2, <3>1, MetaSteps DEF Updates
    <3>3. PICK k \in {0, 1} : k = Newest(slot)' /\ 1 - k \in {0, 1}
      BY DEF Newest, MostRecentIdx
    <3>a. m = FreshMeta(slot, 1) /\ m \in Meta /\ m.rev = 1
      <4>1. m = FreshMeta(slot, 1)
        BY <1>4, <2>2, <3>1
      <4>2. FreshMeta(slot, 1) \in Meta /\ FreshMeta(slot, 1).rev = 1
        BY <1>3, FreshMetaType, Constants DEF FreshMeta
      <4> QED
        BY <4>1, <4>2
    <3>4. disk'[MetaBlock(slot, k)] = m /\ disk'[MetaBlock(slot, 1 - k)] = m
      BY <3>a, <3>2, <3>3 DEF Begins
    <3>5. ValidIdx(slot)' = {0, 1}
      BY <1>4, <2>2, <3>1, <3>2, <3>4, <3>a DEF Begins, ValidIdx
    <3>6. ~inmeta
      <4>1. ~Sync
        BY <3>1, SyncFrame
      <4>2. ~(UNCHANGED vars)
        BY <2>2, <3>1 DEF vars
      <4> QED
        BY <1>1, <1>5, <4>1, <4>2, MetaBegins
    <3> QED
      BY <3>3, <3>4, <3>a, <3>5, <3>6
  <2> QED
    BY <1>10, <2>1, <2>2, SameMd
<1> QED
  BY <1>8, <1>9, <1>10

LEMMA DurableInit == Init => Durable
<1> SUFFICES ASSUME Init PROVE Durable
  OBVIOUS
<1>1. \A slot \in Slots : slot \in SlotNumbers
  BY Constants DEF Slots, SlotNumbers
<1> QED
  BY <1>1, ClosedFileType DEF Init, Durable

(* slotfs.h:198 and slotfs.h:128: as long as no revision wraps, what a     *)
(* flush, an allocate or a close promised is found on the device from then *)
(* on, at every moment of every later call, also after a page could not be *)
(* written and wherever power is lost.                                     *)
THEOREM FlushedStaysDurable ==
    ASSUME SeparateSlots, "read" \notin Faults, "meta" \notin Faults
    PROVE  Spec /\ []Unwrapped => []FlushedIsDurable
<1>1. Init => OtherIsWritten
  BY ClosedFileType DEF Init, OtherIsWritten
<1>2. SlotInv /\ OtherIsWritten /\ [Next]_vars => OtherIsWritten'
  BY OtherStep DEF SlotInv
<1>3. SlotInv /\ SlotInv' /\ OtherIsWritten /\ Durable /\ Unwrapped' /\ [Next]_vars => Durable'
  BY PromiseStep, RevisionStep DEF Durable
<1>4. SlotInv /\ Found /\ Durable => FlushedIsDurable
  <2>1. SUFFICES ASSUME SlotInv, Found, Durable, NEW slot \in Slots, acked[slot] # NoFile
                 PROVE  /\ OnDisk(slot) # NoFile
                        /\ IsPrefix(acked[slot], OnDisk(slot))
                        /\ IsPrefix(OnDisk(slot), written[slot])
    BY DEF FlushedIsDurable
  <2>2. PICK md : md = disk[MetaBlock(slot, Newest(slot))]
    OBVIOUS
  <2>3. HasMeta(slot)
    BY <2>1 DEF Found, HasMeta
  <2>4. /\ md.size \in Nat /\ md.size <= Len(written[slot])
        /\ written[slot] \in Seq(Block) /\ OnDisk(slot) = SubSeq(written[slot], 1, md.size)
        /\ OnDisk(slot) # NoFile
    BY <2>1, <2>2, <2>3, FoundContent
  <2>5. acked[slot] \in Seq(Block) /\ IsPrefix(acked[slot], written[slot])
        /\ Len(acked[slot]) <= md.size
    BY <2>1, <2>2, Constants
       DEF Durable, Promised, SlotInv, ContentInv, Histories, Slots, SlotNumbers
  <2>6. IsPrefix(acked[slot], OnDisk(slot))
    <3>1. PICK a, w \in Seq(Block) : a = acked[slot] /\ w = written[slot]
      BY <2>4, <2>5
    <3>2. PICK n \in Nat : n = md.size /\ n <= Len(w)
      BY <2>4, <3>1
    <3>3. PICK found : found = SubSeq(w, 1, n)
      OBVIOUS
    <3>4. found \in Seq(Block) /\ Len(found) = n /\ \A k \in 1 .. n : found[k] = w[k]
      BY <3>2, <3>3
    <3>5. Len(a) <= n /\ \A k \in 1 .. Len(a) : a[k] = w[k]
      BY <2>5, <3>1, <3>2, PrefixLen
    <3>6. Len(a) <= Len(found) /\ \A k \in 1 .. Len(a) : a[k] = found[k]
      BY <3>4, <3>5
    <3>7. IsPrefix(a, found)
      BY <3>4, <3>6, PrefixLen
    <3> QED
      BY <2>4, <3>1, <3>2, <3>3, <3>7
  <2> QED
    BY <2>4, <2>6, PrefixOf
<1> QED
  BY <1>1, <1>2, <1>3, <1>4, DurableInit, FoundInit, FoundStep, SlotInvariant, PTL DEF Spec
-----------------------------------------------------------------------------
(* What is read.                                                           *)

(* The file of a reader moves when it is opened, positioned or read only.  *)
LEMMA ReaderMoves ==
    ASSUME SeparateSlots, SlotInv, [Next]_vars, NEW h \in Handles, file'[h].mode = "read"
    PROVE  \/ file'[h] = file[h] /\ seen'[h] = seen[h] /\ file[h].mode = "read"
           \/ file'[h].off = 0 /\ file'[h].cursor <= file'[h].md.size
           \/ ReadLoop /\ call.h = h
<1>1. TypeInv /\ PlaceInv /\ LockInv /\ ContentInv
  BY DEF SlotInv
<1>2. DOMAIN file = Handles /\ DOMAIN seen = Handles /\ file[h] \in FileType
  BY <1>1 DEF TypeInv, TypeOK, ContentInv, Histories
<1>3. CASE UNCHANGED <<file, seen>>
  BY <1>3
<1>4. CASE WriteLoop \/ WritePage
  <2>1. call.h \in Handles /\ file[call.h].mode = "write" /\ UNCHANGED seen
    BY <1>1, <1>4 DEF WriteLoop, WritePage, TypeInv, CallShape, PlaceInv, CallInv, history
  <2>2. PICK g \in Handles : g = call.h
    BY <2>1
  <2>3. /\ file[g] \in FileType /\ file[g].mode = "write"
        /\ DOMAIN file = Handles
    BY <1>1, <2>1, <2>2 DEF TypeInv, TypeOK
  <2>4. file'[g].mode = "write" /\ (h # g => file'[h] = file[h])
    <3>1. CASE WriteLoop
      BY <2>2, <2>3, <3>1 DEF WriteLoop, FileType
    <3>2. CASE WritePage
      BY <2>2, <2>3, <3>2 DEF WritePage, FileType, Cleared
    <3> QED
      BY <1>4, <3>1, <3>2
  <2> QED
    BY <2>1, <2>4
<1>5. CASE Advance \/ Sync
  <2>1. PICK g \in Handles : g = call.h
    BY <1>1, <1>5, SyncFrame DEF Advance, TypeInv, CallShape
  <2>2. CASE Advance
    BY <1>1, <2>1, <2>2, AdvanceIs
  <2>3. CASE Sync
    <3>1. call.at = "sync"
      BY <2>3, SyncFrame
    <3>2. file[g].mode = "write"
      BY <1>1, <2>1, <3>1 DEF PlaceInv, CallInv
    <3> QED
      BY <1>1, <2>1, <2>3, <3>2, SyncIs
  <2> QED
    BY <1>5, <2>2, <2>3
<1>6. CASE SyncMeta
  <2>1. /\ UNCHANGED seen
        /\ \/ UNCHANGED file
           \/ file' = [file EXCEPT ![call.h] = ClosedFile]
    BY <1>6 DEF SyncMeta
  <2> QED
    BY <1>2, <2>1, ClosedFileType
<1>7. CASE CreateMeta
  <2>1. /\ UNCHANGED seen
        /\ \/ UNCHANGED file
           \/ file' = [file EXCEPT ![call.h] =
                           OpenedFile(call.slot, "write", FreshMeta(call.slot, 1))]
    BY <1>7 DEF CreateMeta
  <2>2. OpenedFile(call.slot, "write", FreshMeta(call.slot, 1)).mode = "write"
    BY DEF OpenedFile, ClosedFile
  <2> QED
    BY <1>2, <2>1, <2>2
<1>8. CASE FormatConfig \/ FormatMeta \/ SfsInit \/ SfsFormat \/ SfsDeinit
  BY <1>3, <1>8 DEF FormatConfig, FormatMeta, SfsInit, SfsFormat, SfsDeinit, history
<1>9. CASE ReadLoop
  <2>1. PICK g \in Handles : g = call.h
    BY <1>1, <1>9, ReadLoopFrame DEF TypeInv, CallShape
  <2> QED
    BY <1>1, <1>9, <2>1, ReadLoopKeeps
<1>10. CASE PowerLoss
  BY <1>10, ClosedFileType DEF PowerLoss
<1>11. ASSUME NEW g \in Handles, NEW slot \in ClientSlots, OpenRead(g, slot) \/ OpenWrite(g, slot)
       PROVE  \/ file'[h] = file[h] /\ seen'[h] = seen[h] /\ file[h].mode = "read"
              \/ file'[h].off = 0 /\ file'[h].cursor <= file'[h].md.size
  <2>1. slot \in SlotNumbers
    BY <1>11, Constants DEF ClientSlots, Slots, SlotNumbers
  <2>2. CASE UNCHANGED <<file, seen>>
    BY <2>2
  <2>3. CASE \E readable \in SUBSET ValidIdx(slot) : readable # {} /\
               file' = [file EXCEPT ![g] = OpenedFile(slot, "read", ReadMeta(slot, readable))]
               /\ seen' = [seen EXCEPT ![g] = Content(ReadMeta(slot, readable))]
    <3>1. PICK readable \in SUBSET ValidIdx(slot) : readable # {} /\
               file' = [file EXCEPT ![g] = OpenedFile(slot, "read", ReadMeta(slot, readable))]
               /\ seen' = [seen EXCEPT ![g] = Content(ReadMeta(slot, readable))]
      BY <2>3
    <3>2. PICK md \in Meta : md = ReadMeta(slot, readable)
      BY <1>1, <2>1, <3>1, ReadMetaType DEF TypeInv
    <3>3. PICK f : f = OpenedFile(slot, "read", md)
      OBVIOUS
    <3>4. f.off = 0 /\ f.cursor = 0 /\ f.md = md /\ md.size >= 0
      BY <3>3 DEF OpenedFile, ClosedFile, Meta
    <3>5. file' = [file EXCEPT ![g] = f]
      BY <3>1, <3>2, <3>3
    <3>6. CASE g = h
      BY <1>2, <3>4, <3>5, <3>6
    <3>7. CASE g # h
      BY <1>2, <3>1, <3>5, <3>7
    <3> QED
      BY <3>6, <3>7
  <2>4. OpenWrite(g, slot) => UNCHANGED <<file, seen>>
    BY DEF OpenWrite
  <2> QED
    BY <1>11, <2>2, <2>3, <2>4 DEF OpenRead
<1>12. ASSUME NEW g \in Handles, NEW n \in Nat, Allocate(g, n) \/ Seek(g, n)
       PROVE  \/ file'[h] = file[h] /\ seen'[h] = seen[h] /\ file[h].mode = "read"
              \/ file'[h].off = 0 /\ file'[h].cursor <= file'[h].md.size
  <2>1. /\ UNCHANGED seen
        /\ file' = [file EXCEPT ![g] = [Cleared(@) EXCEPT !.cursor = n]]
        /\ file[g].mode = "write" \/ n < file[g].md.size
    BY <1>12 DEF Allocate, Seek, history
  <2>2. file[g] \in FileType
    BY <1>1 DEF TypeInv, TypeOK
  <2>3. PICK f : f = [Cleared(file[g]) EXCEPT !.cursor = n]
    OBVIOUS
  <2>4. f.off = 0 /\ f.cursor = n /\ f.md = file[g].md /\ f.mode = file[g].mode
    BY <2>2, <2>3 DEF Cleared, FileType
  <2>5. file' = [file EXCEPT ![g] = f]
    BY <2>1, <2>3
  <2>6. file[g].md.size \in Nat
    BY <2>2 DEF FileType, Meta
  <2>7. CASE g = h
    <3>1. file'[h] = f
      BY <1>2, <2>5, <2>7
    <3>2. file[g].mode # "write"
      BY <2>4, <3>1
    <3>3. n <= file[g].md.size
      <4>1. n < file[g].md.size
        BY <2>1, <3>2
      <4> QED
        BY <2>6, <4>1
    <3> QED
      BY <2>4, <3>1, <3>3
  <2>8. CASE g # h
    BY <1>2, <2>1, <2>5, <2>8
  <2> QED
    BY <2>7, <2>8
<1>13. ASSUME NEW g \in Handles, Flush(g) \/ Close(g) \/ (\E n : Read(g, n))
                                 \/ (\E blocks : Write(g, blocks))
       PROVE  file'[h] = file[h] /\ seen'[h] = seen[h] /\ file[h].mode = "read"
  <2>1. \/ UNCHANGED <<file, seen>>
        \/ file' = [file EXCEPT ![g] = ClosedFile] /\ seen' = [seen EXCEPT ![g] = <<>>]
    BY <1>13 DEF Flush, Close, Read, Write, history
  <2> QED
    BY <1>2, <2>1, ClosedFileType
<1>14. CASE Call
  <2>1. /\ \A n \in 0 .. SlotSize + 1 : n \in Nat
        /\ \A n \in 0 .. SlotSize : n \in Nat
    BY Constants
  <2>2. CASE SfsInit \/ SfsFormat \/ SfsDeinit
    BY <1>8, <2>2
  <2>3. CASE \E g \in Handles : \E slot \in ClientSlots : OpenRead(g, slot) \/ OpenWrite(g, slot)
    BY <1>11, <2>3
  <2>4. CASE \E g \in Handles : \E n \in Nat : Allocate(g, n) \/ Seek(g, n)
    BY <1>12, <2>4
  <2>5. CASE \E g \in Handles : Flush(g) \/ Close(g) \/ (\E n : Read(g, n))
                                \/ (\E blocks : Write(g, blocks))
    BY <1>13, <2>5
  <2> QED
    BY <1>14, <2>1, <2>2, <2>3, <2>4, <2>5 DEF Call
<1> QED
  BY <1>3, <1>4, <1>5, <1>6, <1>7, <1>8, <1>9, <1>10, <1>14 DEF Next, Step, vars

LEMMA ReadLoopTurn ==
    ASSUME ReadLoop
    PROVE  LET h == call.h
               f == file[h]
               load == f.off = 0 \/ f.off = PageBlocks
               at == PageAddress(f.md.start, f.cursor)
               off == IF load THEN PageOffset(f.cursor) ELSE f.off
               n == CHOOSE k \in {call.n, f.md.size - f.cursor, PageBlocks - off} :
                        k <= call.n /\ k <= f.md.size - f.cursor /\ k <= PageBlocks - off
               page == IF load THEN [i \in 1 .. PageBlocks |-> disk[at + i - 1]] ELSE f.page
           IN \/ call' = Idle /\ UNCHANGED file
              \/ /\ call.n > 0 /\ ~AtEnd(f)
                 /\ load => at + PageBlocks - 1 \in Addresses
                 /\ file' = [file EXCEPT ![h].page = page, ![h].off = off + n, ![h].cursor = @ + n]
                 /\ call' = [call EXCEPT !.n = @ - n,
                                         !.rest = @ \o SubSeq(page, off + 1, off + n)]
BY ZenonT(60) DEF ReadLoop, Return

(* One turn of the loop that copies: the part of the page from the cursor. *)
LEMMA ReadTurn ==
    ASSUME SeparateSlots, SlotInv, ReadInv, ReadLoop, ~(call' = Idle /\ UNCHANGED file)
    PROVE  LET h == call.h
               c == file[h].cursor
           IN
           \E n \in Nat :
             /\ n > 0 /\ c + n <= file[h].md.size /\ PageOffset(c) + n <= PageBlocks
             /\ file'[h].mode = "read" /\ file'[h].md = file[h].md
             /\ file'[h].cursor = c + n /\ file'[h].off = PageOffset(c) + n
             /\ file'[h].page \in [1 .. PageBlocks -> Block]
             /\ \A k \in 1 .. PageBlocks : PageStart(c) + k <= file[h].md.size =>
                    file'[h].page[k] = seen[h][PageStart(c) + k]
             /\ call'.rest = call.rest \o SubSeq(file'[h].page, PageOffset(c) + 1, PageOffset(c) + n)
             /\ call'.op = "read" /\ call'.at = "fetch" /\ call'.h = h
<1> DEFINE h == call.h
           c == file[h].cursor
<1>0. h \in Handles /\ c \in Nat
  BY ReadLoopFrame, FileFields DEF SlotInv, TypeInv, CallShape
<1>1. /\ TypeInv /\ PlaceInv /\ ContentInv /\ call.at = "fetch"
      /\ file[h].mode = "read" /\ call.op = "read" /\ file[h] \in FileType
      /\ call \in CallType
  BY <1>0, ReadLoopFrame DEF SlotInv, PlaceInv, CallInv, TypeInv, TypeOK
<1> DEFINE f == file[h]
           load == f.off = 0 \/ f.off = PageBlocks
           at == PageAddress(f.md.start, f.cursor)
           off == IF load THEN PageOffset(f.cursor) ELSE f.off
           n == CHOOSE k \in {call.n, f.md.size - f.cursor, PageBlocks - off} :
                    k <= call.n /\ k <= f.md.size - f.cursor /\ k <= PageBlocks - off
           page == IF load THEN [i \in 1 .. PageBlocks |-> disk[at + i - 1]] ELSE f.page
<1>2. /\ call.n > 0 /\ ~AtEnd(f)
      /\ load => at + PageBlocks - 1 \in Addresses
      /\ file' = [file EXCEPT ![h].page = page, ![h].off = off + n, ![h].cursor = @ + n]
      /\ call' = [call EXCEPT !.n = @ - n,
                              !.rest = @ \o SubSeq(page, off + 1, off + n)]
  BY Zenon, ReadLoopTurn
<1>3. /\ f.md \in Meta /\ f.md.size \in Nat /\ f.md.start \in Nat /\ call.n \in Nat
      /\ f.page \in [1 .. PageBlocks -> Block] /\ f.off \in 0 .. PageBlocks
  <2>1. /\ f.md \in Meta /\ call.n \in Nat
        /\ f.page \in [1 .. PageBlocks -> Block] /\ f.off \in 0 .. PageBlocks
    BY <1>0, FileFields, CallFields DEF TypeInv, TypeOK, SlotInv
  <2> QED
    BY <2>1 DEF Meta
<1>4. off = PageOffset(c) /\ off \in 0 .. PageBlocks - 1
  <2>1. PageOffset(c) \in 0 .. PageBlocks - 1
    BY <1>0, PageOfCursor
  <2>2. CASE load
    BY <2>1, <2>2
  <2>3. CASE ~load
    <3>1. f.off \in 1 .. PageBlocks - 1
      BY <1>3, <2>3, Constants
    <3> QED
      BY <1>0, <1>1, <2>1, <2>3, <3>1 DEF ReadInv, PagesRead
  <2> QED
    BY <2>2, <2>3
<1>5. n \in Nat /\ n > 0 /\ c + n <= f.md.size /\ PageOffset(c) + n <= PageBlocks
  <2>1. PICK size \in Nat, i \in Nat, k \in Nat, o \in 0 .. PageBlocks - 1 :
            size = f.md.size /\ i = c /\ k = call.n /\ o = off
    BY <1>0, <1>3, <1>4
  <2>2. i < size /\ k > 0 /\ o = PageOffset(c)
    <3>1. ~(f.cursor >= f.md.size)
      <4>1. ~AtEnd(f)
        BY Zenon, <1>2
      <4> QED
        BY <4>1 DEF AtEnd
    <3>2. ~(i >= size)
      BY <2>1, <3>1
    <3>3. k > 0 /\ o = PageOffset(c)
      <4>1. call.n > 0
        BY Zenon, <1>2
      <4> QED
        BY <1>4, <2>1, <4>1
    <3> QED
      BY <2>1, <3>2, <3>3
  <2>3. n = CHOOSE j \in {k, size - i, PageBlocks - o} :
                j <= k /\ j <= size - i /\ j <= PageBlocks - o
    BY <2>1
  <2>4. PICK x \in Nat, y \in Nat : /\ x = size - i /\ y = PageBlocks - o
                                    /\ x > 0 /\ y > 0
    BY <2>1, <2>2, Constants
  <2>5. PICK m : m = n
    OBVIOUS
  <2> HIDE DEF n, off, c
  <2>6. m = CHOOSE j \in {k, x, y} : j <= k /\ j <= x /\ j <= y
    BY <2>3, <2>4, <2>5
  <2>7. m \in Nat /\ m <= k /\ m <= x /\ m <= y
    <3>1. k \in Nat /\ x \in Nat /\ y \in Nat
      BY <2>1, <2>4
    <3> QED
      BY Zenon, <2>6, <3>1, LeastOfThree
  <2>8. m \in {k, x, y}
    <3>1. \E j \in {k, x, y} : j <= k /\ j <= x /\ j <= y
      BY <2>4
    <3> QED
      BY <2>6, <3>1
  <2>9. m > 0 /\ i + m <= size /\ o + m <= PageBlocks
    BY <2>1, <2>2, <2>4, <2>7, <2>8, Constants
  <2> QED
    BY <2>1, <2>2, <2>5, <2>7, <2>9
<1>6. PageStart(c) \in Nat /\ at = f.md.start + PageStart(c)
  BY <1>0, <1>3, PageOfCursor
<1>7. page \in [1 .. PageBlocks -> Block]
  <2>1. CASE load
    <3>1. at \in Nat
      BY <1>3, <1>6
    <3>0. at + PageBlocks - 1 \in Addresses
      BY Zenon, <1>2, <2>1
    <3> HIDE DEF at
    <3>2. \A i \in 1 .. PageBlocks : disk[at + i - 1] \in Block
      BY <1>1, <3>0, <3>1, Constants DEF TypeInv, TypeOK, Addresses
    <3> QED
      BY <2>1, <3>2
  <2> QED
    BY <1>3, <2>1
<1>8. ASSUME NEW k \in 1 .. PageBlocks, PageStart(c) + k <= f.md.size
      PROVE  page[k] = seen[h][PageStart(c) + k]
  <2>1. CASE load
    <3>1. /\ f.slot \in Slots /\ f.md.start = SlotStart(f.slot) /\ f.md.size <= SlotSize
          /\ Content(f.md) = seen[h]
      BY <1>0, <1>1 DEF ContentInv, ReaderInv, ReaderOf, Describes
    <3>2. PICK i \in Nat : i = PageStart(c) + k
      BY <1>6
    <3>3. i \in 1 .. f.md.size
      BY <1>3, <1>6, <1>8, <3>2
    <3>4. Content(f.md)[i] = disk[DataBlock(f.slot, i)]
      <4>1. Content(f.md) = [j \in 1 .. f.md.size |-> disk[DataBlock(f.slot, j)]]
        BY <1>3, <3>1, ContentIs
      <4> QED
        BY <3>3, <4>1
    <3>5. page[k] = disk[at + k - 1]
      BY <2>1
    <3>6. at + k - 1 = SlotStart(f.slot) + i - 1
      BY <1>3, <1>6, <3>1, <3>2
    <3> QED
      BY <3>1, <3>2, <3>4, <3>5, <3>6 DEF DataBlock
  <2>2. CASE ~load
    <3>1. f.off \in 1 .. PageBlocks - 1
      BY <1>3, <2>2, Constants
    <3> QED
      BY <1>0, <1>1, <1>8, <2>2, <3>1 DEF ReadInv, PagesRead
  <2> QED
    BY <2>1, <2>2
<1> HIDE DEF off, n, page
<1>9. /\ file'[h].mode = "read" /\ file'[h].md = file[h].md
      /\ file'[h].cursor = c + n /\ file'[h].off = off + n
      /\ file'[h].page = page
  BY <1>0, <1>1, <1>2 DEF TypeInv, TypeOK, FileType
<1>10. /\ call'.rest = call.rest \o SubSeq(page, off + 1, off + n)
       /\ call'.op = "read" /\ call'.at = "fetch" /\ call'.h = h
  BY <1>1, <1>2 DEF CallType
<1> QED
  BY <1>4, <1>5, <1>7, <1>8, <1>9, <1>10

(* A part of a page behind what was delivered.                             *)
Extended(more, rest, page, off, n) ==
    /\ Len(more) = Len(rest) + n
    /\ \A k \in 1 .. Len(rest) : more[k] = rest[k]
    /\ \A k \in 1 .. n : more[Len(rest) + k] = page[off + k]

LEMMA DeliveredMore ==
    ASSUME NEW rest \in Seq(Block), NEW page \in [1 .. PageBlocks -> Block],
           NEW off \in Nat, NEW n \in Nat, off + n <= PageBlocks,
           NEW more, more = rest \o SubSeq(page, off + 1, off + n)
    PROVE  Extended(more, rest, page, off, n)
<1>1. page \in Seq(Block) /\ Len(page) = PageBlocks
  BY Constants
<1>2. PICK piece : piece = SubSeq(page, off + 1, off + n)
  OBVIOUS
<1>3. piece \in Seq(Block) /\ Len(piece) = n /\ \A k \in 1 .. n : piece[k] = page[off + k]
  <2>1. piece \in Seq(Block) /\ Len(piece) = n
    BY <1>1, <1>2, Constants
  <2>2. ASSUME NEW k \in 1 .. n
        PROVE  piece[k] = page[off + k]
    <3>1. piece[k] = page[off + 1 + k - 1]
      BY <1>1, <1>2, Constants
    <3> QED
      BY <3>1
  <2> QED
    BY <2>1, <2>2
<1>4. more = rest \o piece /\ Len(rest) \in Nat
  BY <1>2
<1>5. Len(more) = Len(rest) + n
  BY <1>3, <1>4
<1>6. \A k \in 1 .. Len(rest) : more[k] = rest[k]
  BY <1>3, <1>4
<1>7. ASSUME NEW k \in 1 .. n
      PROVE  more[Len(rest) + k] = page[off + k]
  <2>1. Len(rest) + k \in 1 .. Len(rest) + n /\ Len(rest) + k - Len(rest) = k
        /\ ~(Len(rest) + k <= Len(rest))
    BY <1>4
  <2>2. more[Len(rest) + k] = piece[k]
    BY <1>3, <1>4, <2>1
  <2> QED
    BY <1>3, <2>2
<1> QED
  BY <1>5, <1>6, <1>7 DEF Extended
(* A call that reads began as one, and nothing else happens to it.         *)
LEMMA ReadCalls ==
    ASSUME SeparateSlots, SlotInv, [Next]_vars, call.op = "read" => call.at = "fetch",
           call'.op = "read"
    PROVE  ReadLoop \/ UNCHANGED vars \/ (\E h \in Handles : \E n \in Nat : Read(h, n))
<1>1. /\ TypeInv /\ PlaceInv /\ call \in CallType
      /\ Idle.op = "none"
  BY ClosedFileType DEF SlotInv, TypeInv, TypeOK
<1>2. CASE FormatConfig \/ FormatMeta \/ CreateMeta \/ WriteLoop \/ WritePage \/ SyncMeta
  <2>1. call.at # "fetch"
    BY <1>2 DEF FormatConfig, FormatMeta, CreateMeta, WriteLoop, WritePage, SyncMeta
  <2>2. call' = Idle \/ call'.op = call.op
    BY <1>1, <1>2 DEF FormatConfig, FormatMeta, CreateMeta, WriteLoop, WritePage, SyncMeta,
                      Return, CallType
  <2> QED
    BY <1>1, <2>1, <2>2
<1>3. CASE Advance \/ Sync
  <2>1. PICK h \in Handles : h = call.h
    BY <1>1, <1>3, SyncFrame DEF Advance, TypeInv, CallShape
  <2>2. CASE Advance
    BY <1>1, <2>1, <2>2, AdvanceIs
  <2>3. CASE Sync
    BY <1>1, <2>1, <2>3, SyncTo, SyncFrame
  <2> QED
    BY <1>3, <2>2, <2>3
<1>4. CASE Call
  <2>1. \A op \in Ops, at \in CallPoints, h \in Handles \cup {NoHandle} :
            Start(op, at, h) \in CallType /\ Start(op, at, h).op = op
    BY StartType
  <2>2. CASE SfsInit \/ SfsFormat \/ SfsDeinit
    BY <1>1, <2>1, <2>2 DEF SfsInit, SfsFormat, SfsDeinit, Ready, Ops, CallPoints
  <2>3. ASSUME NEW h \in Handles, NEW slot \in ClientSlots, OpenRead(h, slot) \/ OpenWrite(h, slot)
        PROVE  FALSE
    <3>1. PICK c \in CallType : c = Start("open", "create", h) /\ c.op = "open"
      BY <2>1 DEF Ops, CallPoints
    <3>2. call' = Idle \/ call' = [c EXCEPT !.slot = slot]
      BY <2>3, <3>1 DEF OpenRead, OpenWrite, Ready
    <3>3. [c EXCEPT !.slot = slot].op = "open"
      BY <3>1 DEF CallType
    <3> QED
      BY <1>1, <3>2, <3>3
  <2>4. ASSUME NEW h \in Handles, NEW blocks \in Requests, Write(h, blocks)
        PROVE  FALSE
    <3>1. PICK c \in CallType : c = Start("write", "loop", h) /\ c.op = "write"
      BY <2>1 DEF Ops, CallPoints
    <3>2. call' = [c EXCEPT !.rest = blocks]
      BY <2>4, <3>1 DEF Write
    <3>3. [c EXCEPT !.rest = blocks].op = "write"
      BY <3>1 DEF CallType
    <3> QED
      BY <3>2, <3>3
  <2>5. ASSUME NEW h \in Handles, Flush(h) \/ Close(h) \/ (\E n : Allocate(h, n) \/ Seek(h, n))
        PROVE  FALSE
    <3>1. FlushPoint(h) \in {"page", "sync"}
      BY DEF FlushPoint
    <3>2. call' = Idle \/ \E op \in {"flush", "close", "allocate"} : \E at \in {"page", "sync"} :
                              call' = Start(op, at, h)
      BY <2>5, <3>1 DEF Flush, Close, Allocate, Seek, Ready
    <3> QED
      BY <1>1, <2>1, <3>2 DEF Ops, CallPoints
  <2>6. \A n \in 1 .. SlotSize : n \in Nat
    BY Constants
  <2> QED
    BY <1>4, <2>2, <2>3, <2>4, <2>5, <2>6 DEF Call
<1>5. CASE PowerLoss
  BY <1>1, <1>5 DEF PowerLoss
<1> QED
  BY <1>2, <1>3, <1>4, <1>5 DEF Next, Step

(* What there is of the content in the page that starts behind start.      *)
PageHas(page, content, start, size) ==
    \A k \in 1 .. PageBlocks : start + k <= size => page[k] = content[start + k]

PageEnd(start, off, c, n, to) == c = start + off /\ to = c + n

LEMMA DeliveredAll ==
    ASSUME NEW rest \in Seq(Block), NEW page \in [1 .. PageBlocks -> Block], NEW content,
           NEW c \in Nat, NEW to \in Nat, NEW start \in Nat, NEW off \in Nat, NEW n \in Nat, NEW size \in Nat,
           PageEnd(start, off, c, n, to), off + n <= PageBlocks, to <= size,
           EndsAt(rest, content, c), PageHas(page, content, start, size),
           NEW more, Extended(more, rest, page, off, n)
    PROVE  EndsAt(more, content, to)
<1>1. PICK l \in Nat : l = Len(rest)
  OBVIOUS
<1>c. c = start + off /\ to = c + n
  BY DEF PageEnd
<1>2. /\ Len(more) = l + n
      /\ \A k \in 1 .. l : more[k] = rest[k]
      /\ \A k \in 1 .. n : more[l + k] = page[off + k]
  BY <1>1 DEF Extended
<1>3. ASSUME NEW k \in 1 .. l + n
      PROVE  more[k] = content[to - (l + n) + k]
  <2>1. k \in Nat /\ to - (l + n) + k = c - l + k
    BY <1>c
  <2>2. CASE k <= l
    <3>1. k \in 1 .. l
      BY <2>2
    <3>2. more[k] = rest[k] /\ rest[k] = content[c - l + k]
      BY <1>1, <1>2, <3>1 DEF EndsAt
    <3> QED
      BY <2>1, <3>2
  <2>3. CASE ~(k <= l)
    <3>1. PICK i \in 1 .. n : k = l + i
      <4>1. k - l \in 1 .. n /\ k = l + (k - l)
        BY <2>3
      <4> QED
        BY <4>1
    <3>2. PICK j \in 1 .. PageBlocks : j = off + i
      BY Constants
    <3>3. start + j = c + i /\ start + j <= size /\ c - l + k = c + i
      BY <1>c, <3>1, <3>2
    <3>4. page[j] = content[start + j]
      BY <3>3 DEF PageHas
    <3>5. more[k] = page[j]
      BY <1>2, <3>1, <3>2
    <3> QED
      BY <2>1, <3>3, <3>4, <3>5
  <2> QED
    BY <2>2, <2>3
<1>4. l + n <= to
  BY <1>1, <1>c DEF EndsAt
<1>5. \A k \in 1 .. Len(more) : more[k] = content[to - Len(more) + k]
  BY <1>2, <1>3
<1>6. Len(more) <= to
  BY <1>2, <1>4
<1> QED
  BY <1>5, <1>6 DEF EndsAt

LEMMA TailIs ==
    ASSUME NEW content \in Seq(Block), NEW rest \in Seq(Block), NEW c \in Nat,
           c <= Len(content), EndsAt(rest, content, c)
    PROVE  rest = SubSeq(content, c - Len(rest) + 1, c)
<1>1. PICK l \in Nat : l = Len(rest)
  OBVIOUS
<1>0. l <= c /\ l <= Len(content)
  <2>1. Len(rest) <= c
    BY DEF EndsAt
  <2> QED
    BY <1>1, <2>1
<1>2. PICK b \in Nat : b = c - l
  <2>1. c - l \in Nat
    BY <1>0, <1>1
  <2> QED
    BY <2>1
<1>3. PICK piece : piece = SubSeq(content, b + 1, c)
  OBVIOUS
<1>4. piece \in Seq(Block) /\ Len(piece) = l
  <2>1. b + 1 \in 1 .. c + 1 /\ c \in 0 .. Len(content) /\ c - (b + 1) + 1 = l
    BY <1>0, <1>2
  <2> QED
    BY <1>3, <2>1
<1>5. ASSUME NEW k \in 1 .. l PROVE piece[k] = content[b + k]
  <2>1. b + 1 + k - 1 = b + k
    OBVIOUS
  <2>2. piece[k] = content[b + 1 + k - 1]
    <3>1. k \in 1 .. c - (b + 1) + 1
      BY <1>0, <1>2
    <3> QED
      BY <1>3, <3>1
  <2> QED
    BY <2>1, <2>2
<1>6. \A k \in 1 .. l : rest[k] = content[b + k]
  BY <1>1, <1>2 DEF EndsAt
<1>7. rest = piece
  BY <1>1, <1>4, <1>5, <1>6
<1> QED
  BY <1>1, <1>2, <1>3, <1>7

LEMMA ReadStep ==
    ASSUME SeparateSlots
    PROVE  SlotInv /\ ReadInv /\ [Next]_vars => ReadInv'
<1> SUFFICES ASSUME SlotInv, ReadInv, [Next]_vars PROVE ReadInv'
  OBVIOUS
<1>1. TypeInv /\ PlaceInv /\ ContentInv
  BY DEF SlotInv
<1>2. CASE ~ReadLoop \/ (call' = Idle /\ UNCHANGED file)
  <2>1. PagesRead'
    <3>1. SUFFICES ASSUME NEW h \in Handles, file'[h].mode = "read"
                   PROVE  /\ file'[h].cursor <= file'[h].md.size
                          /\ file'[h].off \in 1 .. PageBlocks - 1 =>
                                /\ file'[h].off = PageOffset(file'[h].cursor)
                                /\ \A k \in 1 .. PageBlocks :
                                      PageStart(file'[h].cursor) + k <= file'[h].md.size
                                          => file'[h].page[k] = seen'[h][PageStart(file'[h].cursor) + k]
      BY DEF PagesRead
    <3>2. \/ file'[h] = file[h] /\ seen'[h] = seen[h] /\ file[h].mode = "read"
          \/ file'[h].off = 0 /\ file'[h].cursor <= file'[h].md.size
      <4>1. ReadLoop => UNCHANGED seen
        BY ReadLoopFrame
      <4> QED
        BY <1>2, <3>1, <4>1, ReaderMoves
    <3>3. CASE file'[h] = file[h] /\ seen'[h] = seen[h] /\ file[h].mode = "read"
      BY <3>3 DEF ReadInv, PagesRead
    <3> QED
      BY <3>2, <3>3, Constants
  <2>2. ASSUME call'.op = "read"
        PROVE  call'.at = "fetch" /\ Delivered(call.h)'
    <3>1. UNCHANGED vars \/ (\E h \in Handles : \E n \in Nat : Read(h, n))
      BY <1>2, <2>2, ReadCalls, ClosedFileType DEF ReadInv
    <3>2. CASE UNCHANGED vars
      BY <2>2, <3>2 DEF vars, ReadInv, Delivered, EndsAt
    <3>3. CASE \E h \in Handles : \E n \in Nat : Read(h, n)
      <4>1. PICK h \in Handles, n \in Nat : Read(h, n)
        BY <3>3
      <4>2. PICK c \in CallType : /\ c = Start("read", "fetch", h) /\ c.at = "fetch" /\ c.h = h
                                  /\ c.rest = <<>>
        <5>1. Start("read", "fetch", h).rest = <<>>
          BY DEF Start, Idle
        <5> QED
          BY <5>1, StartType DEF Ops, CallPoints
      <4>3. call' = [c EXCEPT !.n = n] /\ UNCHANGED file
        BY <4>1, <4>2 DEF Read
      <4>4. call'.at = "fetch" /\ call'.h = h /\ call'.rest = <<>>
        BY <4>2, <4>3 DEF CallType
      <4>5. file[h].cursor \in Nat
        BY <1>1, FileFields DEF TypeInv
      <4> QED
        BY <4>3, <4>4, <4>5 DEF Delivered, EndsAt
    <3> QED
      BY <3>1, <3>2, <3>3
  <2> QED
    BY <2>1, <2>2 DEF ReadInv
<1>3. CASE ReadLoop /\ ~(call' = Idle /\ UNCHANGED file)
  <2>1. PICK h \in Handles : h = call.h
    BY <1>1, <1>3, ReadLoopFrame DEF TypeInv, CallShape
  <2>2. /\ UNCHANGED <<disk, mounted, lock_counters, written, acked, seen>>
        /\ call.at = "fetch"
        /\ \A g \in Handles \ {h} : file'[g] = file[g]
    BY <1>1, <1>3, <2>1, ReadLoopKeeps
  <2>3. call.op = "read" /\ call.rest \in Seq(Block)
    BY <1>1, <2>2, CallFields DEF PlaceInv, CallInv, TypeInv
  <2>4. PICK c \in Nat, start \in Nat, off \in Nat, size \in Nat :
            c = file[h].cursor /\ start = PageStart(c) /\ off = PageOffset(c)
            /\ size = file[h].md.size /\ start + off = c
    <3>1. file[h].cursor \in Nat /\ file[h].md.size \in Nat
      BY <1>1, FileFields DEF TypeInv, Meta
    <3>2. PICK c \in Nat : c = file[h].cursor
      BY <3>1
    <3>3. PageStart(c) \in Nat /\ PageOffset(c) \in Nat /\ PageStart(c) + PageOffset(c) = c
      BY PageOfCursor, Constants
    <3> QED
      BY <3>1, <3>2, <3>3
  <2>5. PICK n \in Nat :
             /\ n > 0 /\ c + n <= size /\ off + n <= PageBlocks
             /\ file'[h].mode = "read" /\ file'[h].md = file[h].md
             /\ file'[h].cursor = c + n /\ file'[h].off = off + n
             /\ file'[h].page \in [1 .. PageBlocks -> Block]
             /\ \A k \in 1 .. PageBlocks : start + k <= size =>
                    file'[h].page[k] = seen[h][start + k]
             /\ call'.rest = call.rest \o SubSeq(file'[h].page, off + 1, off + n)
             /\ call'.op = "read" /\ call'.at = "fetch" /\ call'.h = h
    BY <1>3, <2>1, <2>4, ReadTurn
  <2>6. PagesRead'
    <3>1. SUFFICES ASSUME NEW g \in Handles, file'[g].mode = "read"
                   PROVE  /\ file'[g].cursor <= file'[g].md.size
                          /\ file'[g].off \in 1 .. PageBlocks - 1 =>
                                /\ file'[g].off = PageOffset(file'[g].cursor)
                                /\ \A k \in 1 .. PageBlocks :
                                      PageStart(file'[g].cursor) + k <= file'[g].md.size
                                          => file'[g].page[k] = seen'[g][PageStart(file'[g].cursor) + k]
      BY DEF PagesRead
    <3>2. CASE g # h
      BY <2>2, <3>1, <3>2 DEF ReadInv, PagesRead
    <3>3. CASE g = h
      <4>1. PICK to \in Nat : to = c + n
        BY <2>4
      <4>2. off + n < PageBlocks => PageStart(to) = start /\ PageOffset(to) = off + n
        BY <2>4, <2>5, <4>1, PageStartMoves
      <4>3. file'[h].cursor = to /\ to <= size /\ file'[h].md.size = size /\ file'[h].off = off + n
        BY <2>4, <2>5, <4>1
      <4>4. CASE off + n < PageBlocks
        <5>1. PageStart(to) = start /\ PageOffset(to) = off + n
          BY <4>2, <4>4
        <5>2. \A k \in 1 .. PageBlocks : start + k <= size =>
                    file'[h].page[k] = seen'[h][start + k]
          BY <2>2, <2>5
        <5> QED
          BY <3>3, <4>3, <5>1, <5>2
      <4>5. CASE ~(off + n < PageBlocks)
        <5>1. off + n \notin 1 .. PageBlocks - 1
          BY <4>5, Constants
        <5> QED
          BY <3>3, <4>3, <5>1
      <4> QED
        BY <4>4, <4>5
    <3> QED
      BY <3>2, <3>3
  <2>7. Delivered(h)'
    <3>1. PICK rest \in Seq(Block), page \in [1 .. PageBlocks -> Block] :
              rest = call.rest /\ page = file'[h].page
      BY <2>3, <2>5
    <3>2. PICK more, content : more = call'.rest /\ content = seen[h]
      OBVIOUS
    <3>3. EndsAt(rest, content, c)
      BY <2>1, <2>3, <2>4, <3>1, <3>2 DEF ReadInv, Delivered
    <3>4. Extended(more, rest, page, off, n)
      BY <2>5, <3>1, <3>2, DeliveredMore
    <3>5. PageHas(page, content, start, size)
      BY <2>5, <3>1, <3>2 DEF PageHas
    <3>0. PICK to \in Nat : to = c + n
      <4>1. c \in Nat /\ n \in Nat
        BY <2>4, <2>5
      <4>2. c + n \in Nat
        BY <4>1
      <4> QED
        BY <4>2
    <3>6. PageEnd(start, off, c, n, to) /\ off + n <= PageBlocks /\ to <= size
      BY <2>4, <2>5, <3>0 DEF PageEnd
    <3>7. EndsAt(more, content, to)
      <4>1. /\ c \in Nat /\ start \in Nat /\ off \in Nat /\ n \in Nat /\ size \in Nat /\ to \in Nat
            /\ rest \in Seq(Block) /\ page \in [1 .. PageBlocks -> Block]
        BY <2>4, <2>5, <3>0, <3>1
      <4> QED
        BY <3>3, <3>4, <3>5, <3>6, <4>1, DeliveredAll
    <3>8. file'[h].cursor = to /\ seen'[h] = content /\ call'.rest = more
      BY <2>2, <2>5, <3>0, <3>2
    <3> QED
      BY <3>7, <3>8 DEF Delivered, EndsAt
  <2>8. Delivered(call.h)'
    BY <2>5, <2>7 DEF Delivered, EndsAt
  <2> QED
    BY <2>5, <2>6, <2>8 DEF ReadInv
<1> QED
  BY <1>2, <1>3

(* sfs_file_read delivers the blocks of the file that the reader opened,   *)
(* in order from its cursor, across page loads, partial reads, seeks and   *)
(* failed loads, whatever is written to the slot meanwhile.                *)
THEOREM ReadsDeliverTheFile ==
    ASSUME SeparateSlots
    PROVE  Spec => []ReadsAreExact
<1>1. Init => ReadInv
  BY ClosedFileType DEF Init, ReadInv, PagesRead
<1>2. SlotInv /\ ReadInv => ReadsAreExact
  <2>1. SUFFICES ASSUME SlotInv, ReadInv, call.op = "read", NEW h, h = call.h
                 PROVE  call.rest = SubSeq(seen[h], file[h].cursor - Len(call.rest) + 1,
                                           file[h].cursor)
    BY DEF ReadsAreExact
  <2>2. /\ h \in Handles /\ file[h].mode = "read" /\ call.rest \in Seq(Block)
        /\ file[h].cursor \in Nat /\ file[h].md \in Meta
    BY <2>1, FileFields, CallFields
       DEF SlotInv, TypeInv, CallShape, PlaceInv, CallInv, ReadInv
  <2>3. PICK rest \in Seq(Block), c \in Nat : rest = call.rest /\ c = file[h].cursor
    BY <2>2
  <2>4. EndsAt(rest, seen[h], c)
    BY <2>1, <2>3 DEF ReadInv, Delivered
  <2>5. PICK content \in Seq(Block) : content = seen[h] /\ c <= Len(content)
    <3>1. seen[h] = Content(file[h].md) /\ c <= file[h].md.size
      BY <2>1, <2>2, <2>3 DEF SlotInv, ContentInv, ReaderInv, ReaderOf, ReadInv, PagesRead
    <3>2. Content(file[h].md) \in Seq(Block) /\ Len(Content(file[h].md)) = file[h].md.size
      BY <2>1, <2>2, ContentSeq DEF SlotInv, TypeInv, TypeOK
    <3> QED
      BY <3>1, <3>2
  <2>6. rest = SubSeq(content, c - Len(rest) + 1, c)
    BY <2>4, <2>5, TailIs
  <2> QED
    BY <2>3, <2>5, <2>6
<1> QED
  BY <1>1, <1>2, ReadStep, SlotInvariant, PTL DEF Spec
-----------------------------------------------------------------------------
(* SlotFS implements SlotStore.                                            *)

(* A slot that is not started over keeps its metadata and data, or its     *)
(* metadata is updated.                                                    *)
LEMMA OnDiskSame ==
    ASSUME SlotInv, NEW slot \in Slots, SameMetas(slot), SameData(slot) \/ KeepsReaders(slot)
    PROVE  OnDisk(slot)' = OnDisk(slot)
<1>1. slot \in SlotNumbers /\ TypeInv /\ ContentInv /\ disk \in [Addresses -> Block]
  BY Constants DEF SlotInv, TypeInv, TypeOK, Slots, SlotNumbers
<1>2. Newest(slot)' = Newest(slot) /\ ValidIdx(slot)' = ValidIdx(slot)
  BY NewestStays
<1>3. CASE ValidIdx(slot) = {}
  BY <1>2, <1>3 DEF OnDisk
<1>4. CASE ValidIdx(slot) # {}
  <2>1. PICK idx \in {0, 1}, md \in Meta :
            idx = Newest(slot) /\ idx \in ValidIdx(slot) /\ md = disk[MetaBlock(slot, idx)]
    BY <1>1, <1>4, TwoIdx DEF Newest, ValidIdx
  <2>2. ReadMeta(slot, ValidIdx(slot)) = md /\ ReadMeta(slot, ValidIdx(slot))' = md
    BY <1>2, <2>1 DEF ReadMeta, Newest, SameMetas
  <2>3. Describes(md, slot)
    BY <1>1, <2>1 DEF ContentInv, MetaInv, SlotMeta
  <2>4. md.start = SlotStart(slot) /\ md.size <= SlotSize /\ md.size \in 0 .. SlotSize
    BY <2>3, Constants DEF Describes, Meta
  <2>5. \A j \in 1 .. md.size : disk'[DataBlock(slot, j)] = disk[DataBlock(slot, j)]
    <3>1. CASE SameData(slot)
      BY <2>4, <3>1, Constants DEF SameData
    <3>2. CASE acked[slot] # NoFile /\ written'[slot] = written[slot] /\ Keeps(slot)
      <4>1. OnDevice(slot, md.size)
        BY <2>3, <3>2 DEF Describes
      <4>2. OnDevice(slot, md.size)'
        BY <2>4, <3>2, <4>1 DEF Keeps
      <4> QED
        BY <3>2, <4>1, <4>2 DEF OnDevice
    <3> QED
      BY <3>1, <3>2 DEF KeepsReaders
  <2>6. Content(md)' = Content(md)
    <3>1. /\ Content(md) = [j \in 1 .. md.size |-> disk[DataBlock(slot, j)]]
          /\ (Content(md))' = [j \in 1 .. md.size |-> disk'[DataBlock(slot, j)]]
      BY <2>4, ContentIs
    <3> QED
      BY <2>5, <3>1
  <2>7. OnDisk(slot) = IF md.rev = 0 THEN NoFile ELSE Content(md)
    BY <1>4, <2>2 DEF OnDisk
  <2>8. OnDisk(slot)' = IF md.rev = 0 THEN NoFile ELSE Content(md)'
    <3>1. ValidIdx(slot)' # {}
      BY <1>2, <1>4
    <3> QED
      BY <2>2, <3>1 DEF OnDisk, Content
  <2> QED
    BY <2>6, <2>7, <2>8
<1> QED
  BY <1>3, <1>4

LEMMA PageSteps ==
    ASSUME TypeInv, [Next]_vars, disk' # disk, call.at \in {"page", "meta"}
    PROVE  /\ call.at = "page" => UNCHANGED <<written, acked>>
           /\ call.at = "meta" => SyncMeta \/ PowerLoss
<1>1. CASE Step
  <2>1. WriteLoop \/ Advance \/ Sync \/ ReadLoop => disk' = disk
    <3>1. WriteLoop => UNCHANGED <<disk, mounted, lock_counters, faults, history>>
      BY Zenon DEF WriteLoop
    <3>2. Advance => UNCHANGED <<disk, mounted, lock_counters, rc, faults, acked, seen>>
      BY Zenon DEF Advance
    <3> QED
      BY <3>1, <3>2, SyncFrame, ReadLoopFrame
  <2>2. CASE FormatConfig \/ FormatMeta \/ CreateMeta \/ WritePage \/ SyncMeta
    BY <2>2 DEF FormatConfig, FormatMeta, CreateMeta, WritePage, SyncMeta, history
  <2> QED
    BY <1>1, <2>1, <2>2 DEF Step
<1>2. CASE Call
  BY <1>2 DEF Call, SfsInit, SfsFormat, SfsDeinit, OpenRead, OpenWrite, Write, Flush,
              Close, Allocate, Seek, Read
<1>3. CASE PowerLoss
  BY <1>3 DEF PowerLoss
<1>4. CASE UNCHANGED vars
  BY <1>4 DEF vars
<1> QED
  BY <1>1, <1>2, <1>3, <1>4 DEF Next

LEMMA SlotStays ==
    ASSUME SeparateSlots, SlotInv, [Next]_vars, NEW slot \in Slots,
           slot \notin Renewing, ~Updates(slot)
    PROVE  OnDisk(slot)' = OnDisk(slot)
<1>1. TypeInv /\ PlaceInv /\ ContentInv
  BY DEF SlotInv
<1>2. CASE disk' = disk
  <2>1. SameMetas(slot) /\ SameData(slot)
    BY <1>2 DEF SameMetas, SameData
  <2> QED
    BY <2>1, OnDiskSame
<1>3. CASE disk' # disk
  <2>1. call.at \in Writing /\ DeviceWrite
    BY <1>3, DiskSteps DEF DeviceWrite
  <2>2. CASE call.at = "page"
    <3>1. SameMetas(slot)
      BY <1>1, <2>1, <2>2, PageMeta DEF SameMetas
    <3>2. KeepsReaders(slot)
      BY <1>1, <1>3, <2>1, <2>2, PageSteps, PageKeeps
    <3> QED
      BY <3>1, <3>2, OnDiskSame
  <2>3. CASE call.at # "page"
    <3>1. SameData(slot)
      BY <1>1, <2>1, <2>3, MetaWriteIs DEF ContentInv
    <3>2. call.at \notin {"config", "format"}
      BY <1>1 DEF PlaceInv, CallInv, Renewing
    <3>3. call.at = "create" => slot # call.slot
      BY <1>1 DEF PlaceInv, CallInv, Renewing
    <3>4. call.at = "meta" => slot # file[call.h].slot
      <4>1. SUFFICES ASSUME call.at = "meta", slot = file[call.h].slot PROVE FALSE
        OBVIOUS
      <4>2. SyncMeta \/ PowerLoss
        BY <1>1, <1>3, <4>1, PageSteps
      <4>3. call.h \in Handles /\ file[call.h].mode = "write"
        BY <1>1, <4>1 DEF TypeInv, CallShape, PlaceInv, CallInv
      <4>4. acked[slot] # NoFile
        BY <1>1, <4>1, <4>3 DEF ContentInv, WriterInv, AtRest
      <4> QED
        BY <4>1, <4>2, <4>4 DEF Updates
    <3>5. SameMetas(slot)
      BY <1>1, <2>1, <2>3, <3>2, <3>3, <3>4, OtherMetas
    <3> QED
      BY <3>1, <3>5, OnDiskSame
  <2> QED
    BY <2>2, <2>3
<1> QED
  BY <1>2, <1>3

(* What is found in the slots that were created, here and after a step.    *)
FoundInSlots ==
    \A slot \in Slots : acked[slot] # NoFile =>
        /\ Newest(slot) \in {0, 1} /\ Newest(slot) \in ValidIdx(slot)
        /\ disk[MetaBlock(slot, Newest(slot))].size \in 0 .. Len(written[slot])
        /\ written[slot] \in Seq(Block)
        /\ OnDisk(slot) = SubSeq(written[slot], 1, disk[MetaBlock(slot, Newest(slot))].size)
        /\ OnDisk(slot) # NoFile

LEMMA FoundIs == SlotInv /\ Found => FoundInSlots
<1> SUFFICES ASSUME SlotInv, Found, NEW slot \in Slots, acked[slot] # NoFile
             PROVE  /\ Newest(slot) \in {0, 1} /\ Newest(slot) \in ValidIdx(slot)
                    /\ disk[MetaBlock(slot, Newest(slot))].size \in 0 .. Len(written[slot])
                    /\ written[slot] \in Seq(Block)
                    /\ OnDisk(slot) = SubSeq(written[slot], 1, disk[MetaBlock(slot, Newest(slot))].size)
                    /\ OnDisk(slot) # NoFile
  BY DEF FoundInSlots
<1>1. HasMeta(slot)
  BY DEF Found, HasMeta
<1>2. slot \in SlotNumbers /\ TypeInv
  BY Constants DEF SlotInv, Slots, SlotNumbers
<1>3. Newest(slot) \in {0, 1} /\ Newest(slot) \in ValidIdx(slot)
  BY <1>1, <1>2, TwoIdx DEF HasMeta, Newest
<1>4. PICK md : md = disk[MetaBlock(slot, Newest(slot))]
  OBVIOUS
<1>5. /\ md \in Meta /\ md.size \in Nat /\ md.size <= Len(written[slot])
      /\ written[slot] \in Seq(Block)
      /\ OnDisk(slot) = SubSeq(written[slot], 1, md.size)
      /\ OnDisk(slot) # NoFile
  BY <1>1, <1>4, FoundContent
<1>6. PICK w \in Seq(Block) : w = written[slot]
  BY <1>5
<1>7. md.size \in 0 .. Len(w)
  BY <1>5, <1>6
<1> QED
  BY <1>3, <1>4, <1>5, <1>6, <1>7

LEMMA SlotGrows ==
    ASSUME SlotInv, OtherIsWritten, Unwrapped, FoundInSlots, FoundInSlots',
           NEW slot \in Slots, Updates(slot)
    PROVE  OnDisk(slot)' = OnDisk(slot) \/
           (/\ OnDisk(slot) # NoFile /\ OnDisk(slot)' # NoFile
            /\ IsPrefix(OnDisk(slot), OnDisk(slot)'))
<1>1. TypeInv /\ PlaceInv /\ ContentInv /\ slot \in SlotNumbers
  BY Constants DEF SlotInv, Slots, SlotNumbers
<1>2. PICK h, idx : h = call.h /\ idx = call.idx
  OBVIOUS
<1>3. /\ h \in Handles /\ file[h].mode = "write" /\ file[h].slot = slot
      /\ file[h].md \in Meta /\ file[h].md.size = Len(written[slot])
      /\ idx \in {0, 1} /\ 1 - idx \in {0, 1} /\ 1 - idx # idx
      /\ disk'[MetaBlock(slot, 1 - idx)] = disk[MetaBlock(slot, 1 - idx)]
      /\ disk'[MetaBlock(slot, idx)] \in {disk[MetaBlock(slot, idx)], Garbled, file[h].md}
      /\ UNCHANGED written
  BY <1>2, UpdateIs
<1>4. Newest(slot) = 1 - idx
  <2>1. idx = OtherIdx(slot, ValidIdx(slot))
    BY <1>2, <1>3 DEF Updates, OtherIsWritten
  <2>2. OtherIdx(slot, ValidIdx(slot)) = 1 - Newest(slot) /\ Newest(slot) \in {0, 1}
    BY <1>1, TwoIdx DEF Newest
  <2> QED
    BY <2>1, <2>2
<1>5. acked[slot] # NoFile /\ acked'[slot] # NoFile
  <2>1. NoFile \notin Seq(Block)
    BY SlotFSAssumption DEF Block
  <2>2. acked' = acked \/ acked' = [acked EXCEPT ![slot] = written[slot]]
    BY <1>2, <1>3 DEF Updates, SyncMeta, PowerLoss
  <2>3. written[slot] \in Seq(Block) /\ acked \in [SlotNumbers -> Seq(Block) \cup {NoFile}]
    BY <1>1 DEF ContentInv, Histories
  <2> QED
    BY <1>1, <2>1, <2>2, <2>3 DEF Updates
<1>6. PICK w, old, new, size, n :
          /\ w = written[slot] /\ old = OnDisk(slot) /\ new = OnDisk(slot)'
          /\ size = disk[MetaBlock(slot, Newest(slot))].size
          /\ n = disk'[MetaBlock(slot, Newest(slot)')].size
  OBVIOUS
<1>7. /\ w \in Seq(Block) /\ size \in 0 .. Len(w) /\ old = SubSeq(w, 1, size) /\ old # NoFile
  BY <1>5, <1>6 DEF FoundInSlots
<1>8. /\ Newest(slot)' \in {0, 1} /\ Newest(slot)' \in ValidIdx(slot)'
      /\ n \in 0 .. Len(w) /\ new = SubSeq(w, 1, n) /\ new # NoFile
  BY <1>3, <1>5, <1>6 DEF FoundInSlots
<1>9. CASE Newest(slot)' = 1 - idx
  <2>1. n = size
    BY <1>3, <1>4, <1>6, <1>9
  <2> QED
    BY <1>6, <1>7, <1>8, <2>1
<1>10. CASE Newest(slot)' = idx
  <2>1. disk'[MetaBlock(slot, idx)] \in Meta
    BY <1>8, <1>10 DEF ValidIdx
  <2>2. disk'[MetaBlock(slot, idx)] # disk[MetaBlock(slot, idx)]
    <3>1. SUFFICES ASSUME disk'[MetaBlock(slot, idx)] = disk[MetaBlock(slot, idx)] PROVE FALSE
      OBVIOUS
    <3>2. SameMetas(slot)
      BY <1>3, <3>1 DEF SameMetas
    <3>3. Newest(slot)' = Newest(slot)
      BY <3>2, NewestStays
    <3> QED
      BY <1>3, <1>4, <1>10, <3>3
  <2>3. disk'[MetaBlock(slot, idx)] = file[h].md
    BY <1>3, <2>1, <2>2, NotMeta
  <2>4. n = Len(w)
    BY <1>3, <1>6, <1>10, <2>3
  <2>5. new = w
    BY <1>7, <1>8, <2>4
  <2>6. IsPrefix(old, new)
    <3>1. PICK k \in Nat : k = size /\ k <= Len(w)
      BY <1>7
    <3> QED
      BY <1>7, <2>5, <3>1, PrefixOf
  <2> QED
    BY <1>6, <1>7, <1>8, <2>6
<1>11. Newest(slot)' = idx \/ Newest(slot)' = 1 - idx
  BY <1>3, <1>8
<1> QED
  BY <1>9, <1>10, <1>11

(* Which slots are started over changes only when a call begins or ends.   *)
LEMMA RenewedStep ==
    ASSUME SlotInv, [Next]_vars
    PROVE  \/ Renewing' \in {Renewing, {}}
           \/ Renewing = {} /\ Renewing' \subseteq Slots /\ UNCHANGED disk
<1>1. TypeInv /\ PlaceInv /\ call \in CallType
  BY DEF SlotInv, TypeInv, TypeOK
<1>2. call = Idle => Renewing = {}
  BY DEF Idle, Renewing
<1>3. call' = Idle => Renewing' = {}
  BY DEF Idle, Renewing
<1>4. Renewing' \subseteq Slots
  BY DEF Renewing
<1>5. CASE Call
  <2>1. call = Idle /\ UNCHANGED disk
    BY <1>5 DEF Call, SfsInit, SfsFormat, SfsDeinit, OpenRead, OpenWrite, Write, Flush,
                Close, Allocate, Seek, Read, Ready
  <2> QED
    BY <1>2, <1>4, <2>1
<1>6. CASE FormatConfig \/ FormatMeta
  <2>1. call.op \in {"init", "format"}
    BY <1>1, <1>6 DEF FormatConfig, FormatMeta, PlaceInv, CallInv
  <2>2. call' = Idle \/ call'.op = call.op
    BY <1>1, <1>6 DEF FormatConfig, FormatMeta, Return, CallType
  <2> QED
    BY <1>3, <2>1, <2>2 DEF Renewing
<1>7. CASE CreateMeta
  <2>1. call' = Idle \/ (call'.op = call.op /\ call'.slot = call.slot)
    BY <1>1, <1>7 DEF CreateMeta, Return, CallType
  <2> QED
    BY <1>3, <2>1 DEF Renewing
<1>8. CASE WriteLoop \/ WritePage \/ Advance \/ Sync \/ SyncMeta \/ ReadLoop
  <2>1. call.at \in {"loop", "page", "advance", "sync", "meta", "fetch"}
    <3>1. WriteLoop => call.at = "loop"
      BY Zenon DEF WriteLoop
    <3>2. Advance => call.at = "advance"
      BY Zenon DEF Advance
    <3>3. WritePage => call.at = "page"
      BY DEF WritePage
    <3>4. SyncMeta => call.at = "meta"
      BY DEF SyncMeta
    <3> QED
      BY <1>8, <3>1, <3>2, <3>3, <3>4, SyncFrame, ReadLoopFrame
  <2>2. PICK h \in Handles : h = call.h
    BY <1>1, <2>1 DEF TypeInv, CallShape
  <2>3. call' = Idle \/ call'.op = call.op
    <3>1. CASE WriteLoop
      BY <1>1, <3>1 DEF WriteLoop, Return, CallType
    <3>2. CASE WritePage
      BY <1>1, <3>2 DEF WritePage, Return, CallType
    <3>3. CASE Advance
      BY <1>1, <3>3 DEF Advance, Return, CallType
    <3>4. CASE Sync
      BY <1>1, <2>2, <3>4, SyncTo
    <3>5. CASE SyncMeta
      BY <1>1, <3>5 DEF SyncMeta, Return, CallType
    <3>6. CASE ReadLoop
      BY <1>1, <2>2, <3>6, ReadLoopKeeps
    <3> QED
      BY <1>8, <3>1, <3>2, <3>3, <3>4, <3>5, <3>6
  <2>4. call.op \notin {"init", "format", "open"}
    BY <1>1, <2>1 DEF PlaceInv, CallInv
  <2> QED
    BY <1>3, <2>3, <2>4 DEF Renewing
<1>9. CASE PowerLoss
  BY <1>3, <1>9 DEF PowerLoss
<1>10. CASE UNCHANGED vars
  BY <1>10 DEF vars, Renewing
<1> QED
  BY <1>5, <1>6, <1>7, <1>8, <1>9, <1>10 DEF Next, Step

(* The content of the slots, as SlotStore sees it.                         *)
Contents == [slot \in Slots |-> OnDisk(slot)]

StoreStep == [Store!Renew \/ Store!Change]_<<Contents, Renewing>>

LEMMA StoreRenews ==
    ASSUME Renewing = {}, Renewing' \subseteq Slots, Contents' = Contents
    PROVE  StoreStep
<1>1. Store!Renew
  BY DEF Store!Renew, Contents
<1> QED
  BY <1>1 DEF StoreStep

LEMMA StoreStays ==
    ASSUME Renewing' \in {Renewing, {}},
           \A slot \in Slots \ Renewing : Contents'[slot] = Contents[slot]
    PROVE  StoreStep
<1>1. Store!Change
  BY DEF Store!Change, Contents
<1> QED
  BY <1>1 DEF StoreStep

LEMMA StoreGrows ==
    ASSUME Renewing' \in {Renewing, {}}, Renewing = {}, NEW slot \in Slots,
           Contents[slot] # NoFile, Contents'[slot] # NoFile,
           IsPrefix(Contents[slot], Contents'[slot]),
           \A other \in Slots \ {slot} : Contents'[other] = Contents[other]
    PROVE  StoreStep
<1>1. Contents' = [Contents EXCEPT ![slot] = Contents'[slot]]
  BY DEF Contents
<1>2. Store!Grown(Contents[slot], Contents'[slot])
  BY DEF Store!Grown, Store!IsPrefix, IsPrefix
<1>3. Store!Change
  BY <1>1, <1>2 DEF Store!Change, Contents
<1> QED
  BY <1>3 DEF StoreStep

LEMMA StoreStepHolds ==
    ASSUME SeparateSlots, SlotInv, OtherIsWritten, Unwrapped,
           FoundInSlots, FoundInSlots', [Next]_vars
    PROVE  StoreStep
<1>1. \A slot \in Slots : Contents[slot] = OnDisk(slot) /\ Contents'[slot] = OnDisk(slot)'
  BY DEF Contents
<1>2. ASSUME NEW slot \in Slots, slot \notin Renewing, ~Updates(slot)
      PROVE  Contents'[slot] = Contents[slot]
  BY <1>1, <1>2, SlotStays
<1>3. CASE Renewing' \in {Renewing, {}}
  <2>1. CASE \A slot \in Slots : ~Updates(slot)
    BY <1>2, <1>3, <2>1, StoreStays
  <2>2. ASSUME NEW slot \in Slots, Updates(slot) PROVE StoreStep
    <3>1. \A other \in Slots \ {slot} : ~Updates(other)
      BY <2>2 DEF Updates
    <3>2. Renewing = {}
      BY <2>2 DEF Updates, SlotInv, PlaceInv, CallInv, Renewing
    <3>3. \A other \in Slots \ {slot} : Contents'[other] = Contents[other]
      BY <1>2, <3>1, <3>2
    <3>4. CASE OnDisk(slot)' = OnDisk(slot)
      BY <1>1, <1>3, <3>3, <3>4, StoreStays
    <3>5. CASE OnDisk(slot)' # OnDisk(slot)
      <4>1. /\ OnDisk(slot) # NoFile /\ OnDisk(slot)' # NoFile
            /\ IsPrefix(OnDisk(slot), OnDisk(slot)')
        BY <2>2, <3>5, SlotGrows
      <4> QED
        BY <1>1, <1>3, <3>2, <3>3, <4>1, StoreGrows
    <3> QED
      BY <3>4, <3>5
  <2> QED
    BY <2>1, <2>2
<1>4. CASE Renewing = {} /\ Renewing' \subseteq Slots /\ UNCHANGED disk
  <2>1. Contents' = Contents
    BY <1>4 DEF Contents, OnDisk, ValidIdx, ReadMeta, MostRecentIdx, Content
  <2> QED
    BY <1>4, <2>1, StoreRenews
<1> QED
  BY <1>3, <1>4, RenewedStep

LEMMA StoreBegins == Init => Store!StoreInit
<1> SUFFICES ASSUME Init PROVE Store!StoreInit
  OBVIOUS
<1>1. Renewing = {}
  BY DEF Init, Idle, Renewing
<1>2. ASSUME NEW slot \in Slots PROVE OnDisk(slot) = NoFile
  <2>1. slot \in SlotNumbers
    BY Constants DEF Slots, SlotNumbers
  <2>2. \A idx \in {0, 1} : MetaBlock(slot, idx) \in Addresses
    BY <2>1, MetaBlocksApart, Constants
  <2>3. ValidIdx(slot) = {}
    BY <2>2, NotMeta DEF Init, ValidIdx
  <2> QED
    BY <2>3 DEF OnDisk
<1> QED
  BY <1>1, <1>2 DEF Store!StoreInit

(* For every number of slots and every fault except a failing read of      *)
(* metadata, as long as no revision of an open file wraps to 0: what a     *)
(* power loss leaves in a slot is what SlotStore allows - nothing is       *)
(* promised of a slot that is created anew, and every other one only       *)
(* grows.                                                                  *)
THEOREM SlotFSImplementsSlotStore ==
    ASSUME SeparateSlots, "read" \notin Faults
    PROVE  Spec /\ []Unwrapped => ImplementsSlotStore
<1>1. SlotInv /\ OtherIsWritten /\ Unwrapped /\ FoundInSlots /\ FoundInSlots' /\ [Next]_vars
        => StoreStep
  BY StoreStepHolds
<1>2. SlotInv => TypeInv /\ PlaceInv
  BY DEF SlotInv
<1>3. Init => OtherIsWritten
  BY DEF Init, Idle, OtherIsWritten
<1>4. StoreStep => [Store!Renew \/ Store!Change]_<<[slot \in Slots |-> OnDisk(slot)], Renewing>>
  BY DEF StoreStep, Contents
<1> QED
  BY <1>1, <1>2, <1>3, <1>4, FoundIs, FoundInit, FoundStep, OtherStep, SlotInvariant,
     StoreBegins, PTL DEF Spec, ImplementsSlotStore, Store!StoreSpec

-----------------------------------------------------------------------------
(* How far revisions get: one for every flush, and one for every page.     *)

FewFlushes == FlushLimit + SlotSize + 2 < RevMod

(* The metadata of a page or of the last blocks is ahead of the cursor.    *)
Ahead(h) ==
    /\ call.h = h
    /\ \/ call.op \in {"close", "write"} /\ call.at = "meta"
       \/ call.op = "write" /\ call.at = "advance" /\ file[h].off = 0

Asked(h) == call.h = h /\ call.op \in {"flush", "allocate"} /\ call.at \in {"page", "sync"}

RevisionOf(h) ==
    /\ file[h].md.rev # 0
    /\ Asked(h) => file[h].md.rev < FlushLimit
    /\ file[h].md.rev <= FlushLimit + 1 + PageStart(file[h].cursor)
                            + (IF Ahead(h) THEN 1 ELSE 0)

RevisionInv == \A h \in Handles : file[h].mode = "write" => RevisionOf(h)

LEMMA RevisionKept ==
    ASSUME TypeInv, NEW h \in Handles, RevisionOf(h),
           file'[h].md.rev = file[h].md.rev, file'[h].cursor = file[h].cursor,
           Ahead(h) => Ahead(h)', Asked(h)' => file[h].md.rev < FlushLimit
    PROVE  RevisionOf(h)'
<1>1. PICK rev \in Nat : rev = file[h].md.rev
  BY FileFields, Constants DEF TypeInv, Meta
<1>2. PICK c \in Nat : c = file[h].cursor
  BY FileFields DEF TypeInv
<1>3. PageStart(c) \in Nat
  BY <1>2, PageOfCursor
<1>4. PICK b : b = FlushLimit + 1 + PageStart(c)
  OBVIOUS
<1>5. b \in Int
  BY <1>3, <1>4, SlotFSAssumption
<1>6. rev # 0 /\ rev <= b + (IF Ahead(h) THEN 1 ELSE 0)
  BY <1>1, <1>2, <1>4 DEF RevisionOf
<1>7. rev <= b + (IF Ahead(h)' THEN 1 ELSE 0)
  BY <1>5, <1>6
<1>8. file'[h].md.rev = rev /\ file'[h].cursor = c
  BY <1>1, <1>2
<1> QED
  BY <1>1, <1>4, <1>6, <1>7, <1>8 DEF RevisionOf

LEMMA RevisionCall ==
    ASSUME SlotInv, RevisionInv, Call, NEW h \in Handles, file'[h].mode = "write"
    PROVE  RevisionOf(h)'
<1>1. TypeInv /\ DOMAIN file = Handles /\ file[h] \in FileType /\ call \in CallType
  BY DEF SlotInv, TypeInv, TypeOK
<1>2. call = Idle
  BY DEF Call, SfsInit, SfsFormat, SfsDeinit, OpenRead, OpenWrite, Write, Flush,
         Close, Allocate, Seek, Read, Ready
<1>3. ~Ahead(h) /\ ~Asked(h) /\ call.op = "none"
  BY <1>2 DEF Ahead, Asked, Idle
<1>4. ASSUME file[h].mode = "write", file'[h] = file[h],
             Asked(h)' => file[h].md.rev < FlushLimit
      PROVE  RevisionOf(h)'
  <2>1. RevisionOf(h)
    BY <1>4 DEF RevisionInv
  <2> QED
    BY <1>1, <1>3, <1>4, <2>1, RevisionKept
<1>5. ASSUME file'[h] = file[h], call'.op \notin {"flush", "allocate"}
      PROVE  RevisionOf(h)'
  BY <1>4, <1>5 DEF Asked
<1>6. CASE SfsInit \/ SfsFormat \/ SfsDeinit
  <2>1. UNCHANGED file /\ call'.op \in {"none", "init", "format"}
    BY <1>3, <1>6 DEF SfsInit, SfsFormat, SfsDeinit, Start, Idle
  <2> QED
    BY <1>5, <2>1
<1>7. ASSUME NEW g \in Handles, NEW slot \in ClientSlots, OpenRead(g, slot) \/ OpenWrite(g, slot)
      PROVE  RevisionOf(h)'
  <2>1. call'.op \in {"none", "open"}
    BY <1>3, <1>7 DEF OpenRead, OpenWrite, Start, Idle
  <2>2. file' = file \/ \E md : file' = [file EXCEPT ![g] = OpenedFile(slot, "read", md)]
    BY <1>7 DEF OpenRead, OpenWrite
  <2>3. ASSUME NEW md PROVE OpenedFile(slot, "read", md).mode = "read"
    BY DEF OpenedFile, ClosedFile
  <2>4. file'[h] = file[h]
    BY <1>1, <2>2, <2>3
  <2> QED
    BY <1>5, <2>1, <2>4
<1>8. ASSUME NEW g \in Handles, NEW blocks, Write(g, blocks) PROVE RevisionOf(h)'
  BY <1>5, <1>8 DEF Write, Start, Idle
<1>9. ASSUME NEW g \in Handles, Flush(g) PROVE RevisionOf(h)'
  <2>1. UNCHANGED file /\ file[g].md.rev < FlushLimit /\ call'.h = g
    BY <1>9 DEF Flush, Start, Idle
  <2> QED
    BY <1>4, <2>1 DEF Asked
<1>10. ASSUME NEW g \in Handles, Close(g) PROVE RevisionOf(h)'
  <2>1. call'.op \in {"none", "close"} /\ file' \in {file, [file EXCEPT ![g] = ClosedFile]}
    BY <1>3, <1>10 DEF Close, Start, Idle
  <2> QED
    BY <1>1, <1>5, <2>1, ClosedFileType
<1>11. ASSUME NEW g \in Handles, NEW n \in Nat, Seek(g, n) \/ Read(g, n) PROVE RevisionOf(h)'
  <2>1. call'.op \in {"none", "read"}
    BY <1>3, <1>11 DEF Seek, Read, Start, Idle
  <2>2. /\ file[g].mode = "read"
        /\ file' \in {file, [file EXCEPT ![g] = [Cleared(@) EXCEPT !.cursor = n]]}
    BY <1>11 DEF Seek, Read
  <2>3. [Cleared(file[g]) EXCEPT !.cursor = n].mode = file[g].mode
    BY <1>1 DEF Cleared, TypeInv, TypeOK, FileType
  <2>4. file'[h] = file[h]
    BY <1>1, <2>2, <2>3
  <2> QED
    BY <1>5, <2>1, <2>4
<1>12. ASSUME NEW g \in Handles, NEW size \in Nat, Allocate(g, size) PROVE RevisionOf(h)'
  <2>1. /\ file' = [file EXCEPT ![g] = [Cleared(@) EXCEPT !.cursor = size]]
        /\ file[g].md.rev < FlushLimit /\ file[g].mode = "write"
        /\ call'.h = g /\ call'.at = "sync"
    BY <1>12 DEF Allocate, Start, Idle
  <2>2. CASE g # h
    <3>1. file'[h] = file[h]
      BY <1>1, <2>1, <2>2
    <3> QED
      BY <1>4, <2>1, <2>2, <3>1 DEF Asked
  <2>3. CASE g = h
    <3>1. PICK f : f = [Cleared(file[h]) EXCEPT !.cursor = size]
      OBVIOUS
    <3>2. f.md = file[h].md /\ f.cursor = size
      BY <1>1, <3>1 DEF Cleared, FileType
    <3>3. file'[h].md = file[h].md /\ file'[h].cursor = size
      BY <1>1, <2>1, <2>3, <3>1, <3>2
    <3>4. PICK rev \in Nat : rev = file[h].md.rev
      BY <1>1, FileFields, Constants DEF TypeInv, Meta
    <3>5. rev # 0 /\ rev < FlushLimit
      BY <1>1, <2>1, <2>3, <3>4 DEF RevisionInv, RevisionOf
    <3>6. ~Ahead(h)'
      BY <1>12, <2>1 DEF Ahead, Allocate, Start, Idle
    <3>7. PageStart(size) \in Nat
      BY PageOfCursor
    <3>8. rev <= FlushLimit + 1 + PageStart(size) + 0
      BY <3>5, <3>7, SlotFSAssumption
    <3> QED
      BY <3>3, <3>4, <3>5, <3>6, <3>8 DEF RevisionOf
  <2> QED
    BY <2>2, <2>3
<1> QED
  <2>1. /\ \A n \in 0 .. SlotSize + 1 : n \in Nat
        /\ \A n \in 0 .. SlotSize : n \in Nat
        /\ \A n \in 1 .. SlotSize : n \in Nat
    BY Constants
  <2> QED
    BY <1>6, <1>7, <1>8, <1>9, <1>10, <1>11, <1>12, <2>1 DEF Call

LEMMA RevisionPage ==
    ASSUME SlotInv, RevisionInv, WriteLoop \/ WritePage, NEW h \in Handles,
           file'[h].mode = "write"
    PROVE  RevisionOf(h)'
<1>1. TypeInv /\ PlaceInv /\ DOMAIN file = Handles /\ file[h] \in FileType /\ call \in CallType
  BY DEF SlotInv, TypeInv, TypeOK
<1>2. /\ call.at \in {"loop", "page"} /\ call.h \in Handles /\ file[call.h].mode = "write"
      /\ call.at = "loop" => call.op = "write"
  BY <1>1 DEF WriteLoop, WritePage, TypeInv, CallShape, PlaceInv, CallInv
<1>3. PICK g \in Handles : g = call.h
  BY <1>2
<1>4. file[g] \in FileType
  BY <1>1 DEF TypeInv, TypeOK
<1>5. /\ file'[g].md = file[g].md /\ file'[g].cursor = file[g].cursor
      /\ file'[g].mode = file[g].mode
      /\ h # g => file'[h] = file[h]
  <2>1. CASE WriteLoop
    BY <1>1, <1>3, <1>4, <2>1 DEF WriteLoop, FileType
  <2>2. CASE WritePage
    BY <1>1, <1>3, <1>4, <2>2 DEF WritePage, FileType, Cleared
  <2> QED
    BY <2>1, <2>2
<1>6. \/ call' = Idle
      \/ call'.op = call.op /\ call'.h = call.h /\ (call.at = "loop" \/ call'.at \in {"sync", "advance"})
  <2>1. CASE WriteLoop
    BY <1>1, <2>1 DEF WriteLoop, Return, CallType
  <2>2. CASE WritePage
    BY <1>1, <2>2 DEF WritePage, Return, CallType
  <2> QED
    BY <2>1, <2>2
<1>7. RevisionOf(h)
  BY <1>1, <1>2, <1>3, <1>5 DEF RevisionInv
<1>8. ~Ahead(h)
  BY <1>2 DEF Ahead
<1>9. Asked(h)' => file[h].md.rev < FlushLimit
  <2>1. SUFFICES ASSUME Asked(h)' PROVE Asked(h)
    BY <1>7 DEF RevisionOf
  <2>2. call' # Idle
    BY <2>1 DEF Asked, Idle
  <2> QED
    BY <1>2, <1>6, <2>1, <2>2 DEF Asked
<1>10. file'[h].md = file[h].md /\ file'[h].cursor = file[h].cursor
  BY <1>5
<1> QED
  BY <1>1, <1>7, <1>8, <1>9, <1>10, RevisionKept

LEMMA RevisionSync ==
    ASSUME FewFlushes, "read" \notin Faults, SlotInv, Found, RevisionInv, Sync,
           NEW h \in Handles, file'[h].mode = "write"
    PROVE  RevisionOf(h)'
<1>1. TypeInv /\ PlaceInv /\ ContentInv
  BY DEF SlotInv
<1>2. PICK g \in Handles : g = call.h
  BY <1>1, SyncFrame DEF TypeInv, CallShape
<1>3. call.at = "sync" /\ file[g].mode = "write"
      /\ call.op \in {"write", "flush", "allocate", "close"}
  BY <1>1, <1>2, SyncFrame DEF PlaceInv, CallInv
<1>4. CASE h # g
  <2>1. file'[h] = file[h] /\ ~Ahead(h)
    BY <1>1, <1>2, <1>4, SyncIs DEF Ahead
  <2>2. RevisionOf(h)
    BY <2>1 DEF RevisionInv
  <2>3. call' = Idle \/ call'.h = g
    BY <1>1, <1>2, SyncTo
  <2>4. ~Asked(h)'
    BY <1>4, <2>3 DEF Asked, Idle
  <2> QED
    BY <1>1, <2>1, <2>2, <2>4, RevisionKept
<1>5. CASE h = g
  <2>1. /\ file'[h].cursor = file[h].cursor
        /\ file'[h].md.rev = (file[h].md.rev + 1) % RevMod
    BY <1>1, <1>2, <1>5, SyncIs
  <2>2. PICK c \in Nat : c = file[h].cursor
    BY <1>1, FileFields DEF TypeInv
  <2>3. PICK rev \in Nat : rev = file[h].md.rev
    BY <1>1, FileFields, Constants DEF TypeInv, Meta
  <2>4. /\ rev <= FlushLimit + 1 + PageStart(c)
        /\ call.op \in {"flush", "allocate"} => rev < FlushLimit
    <3>1. RevisionOf(h) /\ ~Ahead(h)
      BY <1>3, <1>5 DEF RevisionInv, Ahead
    <3>2. call.op \in {"flush", "allocate"} => Asked(h)
      BY <1>2, <1>3, <1>5 DEF Asked
    <3>0. PageStart(c) \in Nat
      BY <2>2, PageOfCursor
    <3>3. PICK b \in Int : b = FlushLimit + 1 + PageStart(c)
      BY <3>0, SlotFSAssumption
    <3>4. rev <= b + 0
      BY <2>2, <2>3, <3>1, <3>3 DEF RevisionOf
    <3> QED
      BY <2>3, <3>1, <3>2, <3>3, <3>4 DEF RevisionOf
  <2>5. PageStart(c) \in Nat /\ PageStart(c) <= SlotSize
    <3>1. c <= SlotSize
      BY <1>1, <1>3, <1>5, <2>2 DEF PlaceInv, FilesInv, InItsSlot
    <3> QED
      BY <3>1, PageOfCursor, Constants
  <2>6. file'[h].md.rev = rev + 1
    <3>0. PICK start \in Nat : start = PageStart(c) /\ start <= SlotSize
      BY <2>5
    <3>1. rev + 1 \in 0 .. RevMod - 1
      <4>1. rev <= FlushLimit + 1 + start /\ FlushLimit \in Nat /\ RevMod \in Nat
        BY <2>4, <3>0, SlotFSAssumption
      <4>2. SlotSize \in Nat
        BY Constants
      <4> QED
        BY <2>3, <3>0, <4>1, <4>2 DEF FewFlushes
    <3> QED
      BY <2>1, <2>3, <3>1, Constants
  <2>7. /\ call'.at = "meta" /\ call'.h = h /\ call'.op = call.op
    <3>1. PICK slot : slot = file[h].slot
      OBVIOUS
    <3>2. slot \in Slots /\ acked[slot] # NoFile
      BY <1>1, <1>3, <1>5, <3>1 DEF PlaceInv, FilesInv, InItsSlot, ContentInv, WriterInv, AtRest
    <3>3. ValidIdx(slot) # {}
      BY <3>2 DEF Found
    <3>4. PICK readable \in SUBSET ValidIdx(slot) :
             /\ ReadsAs(slot, readable)
             /\ readable # {} => call'.at = "meta" /\ call'.h = h /\ call'.op = call.op
      BY <1>1, <1>2, <1>5, <3>1, SyncTo
    <3>5. readable # {}
      BY <3>3, <3>4 DEF ReadsAs, Fault
    <3> QED
      BY <3>4, <3>5
  <2>8. ~Asked(h)'
    BY <2>7 DEF Asked
  <2>9. CASE call.op \in {"write", "close"}
    <3>1. Ahead(h)'
      BY <2>7, <2>9 DEF Ahead
    <3>2. rev + 1 # 0 /\ rev + 1 <= FlushLimit + 1 + PageStart(c) + 1
      BY <2>3, <2>4, <2>5, SlotFSAssumption
    <3> QED
      BY <2>1, <2>2, <2>6, <2>8, <3>1, <3>2 DEF RevisionOf
  <2>10. CASE call.op \in {"flush", "allocate"}
    <3>1. ~Ahead(h)'
      BY <2>7, <2>10 DEF Ahead
    <3>2. rev + 1 # 0 /\ rev + 1 <= FlushLimit + 1 + PageStart(c) + 0
      BY <2>3, <2>4, <2>5, <2>10, SlotFSAssumption
    <3> QED
      BY <2>1, <2>2, <2>6, <2>8, <3>1, <3>2 DEF RevisionOf
  <2> QED
    BY <1>3, <2>9, <2>10
<1> QED
  BY <1>4, <1>5

LEMMA RevisionSyncMeta ==
    ASSUME SlotInv, RevisionInv, SyncMeta, NEW h \in Handles, file'[h].mode = "write"
    PROVE  RevisionOf(h)'
<1>1. TypeInv /\ PlaceInv /\ DOMAIN file = Handles /\ call \in CallType
  BY DEF SlotInv, TypeInv, TypeOK
<1>2. call.at = "meta" /\ call.h \in Handles
  BY <1>1 DEF SyncMeta, TypeInv, CallShape
<1>3. CASE call.op = "write"
  <2>1. UNCHANGED file /\ call'.at = "advance" /\ call'.op = "write" /\ call'.h = call.h
    BY <1>1, <1>3 DEF SyncMeta, CallType
  <2>2. Ahead(h) => Ahead(h)'
    <3>1. SUFFICES ASSUME call.h = h PROVE file[h].off = 0
      BY <2>1 DEF Ahead
    <3>2. Chunk(file[h])
      BY <1>1, <1>2, <1>3, <2>1, <3>1 DEF PlaceInv, FilesInv, InChunk
    <3> QED
      BY <1>2, <3>2 DEF Chunk
  <2> QED
    BY <1>1, <2>1, <2>2, RevisionKept DEF RevisionInv, Asked
<1>4. CASE call.op # "write"
  <2>1. /\ call' = Idle
        /\ \/ file' = file /\ call.op # "close"
           \/ file' = [file EXCEPT ![call.h] = ClosedFile]
    BY <1>4 DEF SyncMeta, Return
  <2>2. file'[h] = file[h] /\ (call.op = "close" => h # call.h)
    BY <1>1, <2>1, ClosedFileType
  <2>3. ~Ahead(h)
    BY <1>4, <2>2, <1>2, <2>1, ClosedFileType DEF Ahead
  <2>4. ~Asked(h)'
    BY <2>1 DEF Asked, Idle
  <2>5. RevisionOf(h)
    BY <2>2 DEF RevisionInv
  <2> QED
    BY <1>1, <2>2, <2>3, <2>4, <2>5, RevisionKept
<1> QED
  BY <1>3, <1>4

LEMMA RevisionAdvance ==
    ASSUME SlotInv, RevisionInv, Advance, NEW h \in Handles, file'[h].mode = "write"
    PROVE  RevisionOf(h)'
<1>1. TypeInv /\ PlaceInv
  BY DEF SlotInv
<1>2. PICK g \in Handles : g = call.h
  BY <1>1 DEF Advance, TypeInv, CallShape
<1>3. /\ \A other \in Handles \ {g} : file'[other] = file[other]
      /\ file[g].mode = "write" /\ file'[g].md = file[g].md
      /\ file'[g].cursor = file[g].cursor + call.n
      /\ call.at = "advance" /\ call.op = "write" /\ call'.at = "loop"
  BY <1>1, <1>2, AdvanceIs
<1>4. ~Asked(h)' /\ ~Ahead(h)'
  BY <1>3 DEF Asked, Ahead
<1>5. CASE h # g
  <2>1. file'[h] = file[h] /\ ~Ahead(h) /\ RevisionOf(h)
    BY <1>2, <1>3, <1>5 DEF RevisionInv, Ahead
  <2> QED
    BY <1>1, <1>4, <2>1, RevisionKept
<1>6. CASE h = g
  <2>1. PICK c \in Nat, n \in Nat : c = file[h].cursor /\ n = call.n
    BY <1>1, FileFields, CallFields DEF TypeInv, TypeOK
  <2>2. PICK rev \in Nat : rev = file[h].md.rev
    BY <1>1, FileFields, Constants DEF TypeInv, Meta
  <2>3. /\ n > 0 /\ PageOffset(c) + n <= PageBlocks
        /\ file[h].off = (PageOffset(c) + n) % PageBlocks
    BY <1>1, <1>2, <1>3, <1>6, <2>1 DEF PlaceInv, FilesInv, InChunk, Chunk
  <2>4. PageStart(c) \in Nat /\ PageOffset(c) \in Nat /\ PageStart(c) + PageOffset(c) = c
    BY PageOfCursor
  <2>5. PageStart(c + n) \in Nat
    <3>1. PICK m \in Nat : m = c + n
      BY <2>1
    <3> QED
      BY <3>1, PageOfCursor
  <2>6. /\ PageStart(c) <= PageStart(c + n)
        /\ Ahead(h) => PageStart(c) + 1 <= PageStart(c + n)
    <3>1. CASE PageOffset(c) + n < PageBlocks
      <4>1. (PageOffset(c) + n) % PageBlocks = PageOffset(c) + n
        BY <2>3, <2>4, <3>1, Constants
      <4>2. ~Ahead(h)
        BY <1>3, <2>3, <2>4, <4>1 DEF Ahead
      <4>3. PageStart(c + n) = PageStart(c)
        BY <2>3, <3>1, PageStartMoves
      <4> QED
        BY <2>4, <4>2, <4>3
    <3>2. CASE PageOffset(c) + n = PageBlocks
      <4>1. PageStart(c + n) = c + n
        BY <2>3, <3>2, PageStartMoves
      <4> QED
        BY <2>3, <2>4, <4>1
    <3> QED
      <4>1. PICK o \in Nat : o = PageOffset(c)
        BY <2>4
      <4>2. o + n < PageBlocks \/ o + n = PageBlocks
        BY <2>3, <4>1, Constants
      <4> QED
        BY <3>1, <3>2, <4>1, <4>2
  <2>7. PICK slack \in {0, 1} : slack = IF Ahead(h) THEN 1 ELSE 0
    OBVIOUS
  <2>8. rev # 0 /\ rev <= FlushLimit + 1 + PageStart(c) + slack
    BY <1>3, <1>6, <2>1, <2>2, <2>7 DEF RevisionInv, RevisionOf
  <2>9. PageStart(c) + slack <= PageStart(c + n)
    BY <2>4, <2>6, <2>7
  <2>10. rev <= FlushLimit + 1 + PageStart(c + n) + 0
    BY <2>4, <2>5, <2>7, <2>8, <2>9, SlotFSAssumption
  <2>11. file'[h].md.rev = rev /\ file'[h].cursor = c + n
    BY <1>3, <1>6, <2>1, <2>2
  <2> QED
    BY <1>4, <2>8, <2>10, <2>11 DEF RevisionOf
<1> QED
  BY <1>5, <1>6

LEMMA RevisionOther ==
    ASSUME SlotInv, RevisionInv, FormatConfig \/ FormatMeta \/ CreateMeta \/ ReadLoop \/ PowerLoss,
           NEW h \in Handles, file'[h].mode = "write"
    PROVE  RevisionOf(h)'
<1>1. TypeInv /\ PlaceInv /\ DOMAIN file = Handles /\ call \in CallType
  BY DEF SlotInv, TypeInv, TypeOK
<1>2. ASSUME file'[h] = file[h], call.op \notin {"close", "write"},
             call' = Idle \/ call'.op \notin {"flush", "allocate"}
      PROVE  RevisionOf(h)'
  <2>1. RevisionOf(h)
    BY <1>2 DEF RevisionInv
  <2>2. ~Ahead(h) /\ ~Asked(h)'
    BY <1>2 DEF Ahead, Asked, Idle
  <2> QED
    BY <1>1, <1>2, <2>1, <2>2, RevisionKept
<1>3. CASE FormatConfig \/ FormatMeta
  <2>1. UNCHANGED file /\ call.op \in {"init", "format"}
    BY <1>1, <1>3 DEF FormatConfig, FormatMeta, PlaceInv, CallInv
  <2>2. call' = Idle \/ call'.op = call.op
    BY <1>1, <1>3 DEF FormatConfig, FormatMeta, Return, CallType
  <2> QED
    BY <1>2, <2>1, <2>2
<1>4. CASE CreateMeta
  <2>1. call.op = "open" /\ (call' = Idle \/ call'.op = call.op)
    BY <1>1, <1>4 DEF CreateMeta, Return, CallType, PlaceInv, CallInv
  <2>2. CASE file'[h] = file[h]
    BY <1>2, <2>1, <2>2
  <2>3. CASE file'[h] # file[h]
    <3>1. /\ file' = [file EXCEPT ![call.h] =
                          OpenedFile(call.slot, "write", FreshMeta(call.slot, 1))]
          /\ call' = Idle
      BY <1>4, <2>3 DEF CreateMeta, Return
    <3>2. file'[h] = OpenedFile(call.slot, "write", FreshMeta(call.slot, 1))
      BY <1>1, <2>3, <3>1
    <3>3. file'[h].md.rev = 1 /\ file'[h].cursor = 0
      BY <3>2 DEF OpenedFile, ClosedFile, FreshMeta
    <3>4. ~Ahead(h)' /\ ~Asked(h)'
      BY <3>1 DEF Ahead, Asked, Idle
    <3>5. PageStart(0) \in Nat
      BY PageOfCursor
    <3>6. 1 <= FlushLimit + 1 + PageStart(0) + 0
      BY <3>5, SlotFSAssumption
    <3> QED
      BY <3>3, <3>4, <3>6 DEF RevisionOf
  <2> QED
    BY <2>2, <2>3
<1>5. CASE ReadLoop
  <2>1. PICK g \in Handles : g = call.h
    BY <1>1, <1>5, ReadLoopFrame DEF TypeInv, CallShape
  <2>2. call.op = "read" /\ file[g].mode = "read"
    BY <1>1, <1>5, <2>1, ReadLoopFrame DEF PlaceInv, CallInv
  <2>3. h # g /\ file'[h] = file[h] /\ (call' = Idle \/ call'.op = call.op)
    BY <1>1, <1>5, <2>1, <2>2, ReadLoopKeeps
  <2> QED
    BY <1>2, <2>2, <2>3
<1>6. CASE PowerLoss
  BY <1>6, ClosedFileType DEF PowerLoss
<1> QED
  BY <1>3, <1>4, <1>5, <1>6

LEMMA RevisionsStep ==
    ASSUME FewFlushes, "read" \notin Faults
    PROVE  SlotInv /\ Found /\ RevisionInv /\ [Next]_vars => RevisionInv'
<1> SUFFICES ASSUME SlotInv, Found, RevisionInv, [Next]_vars,
                    NEW h \in Handles, file'[h].mode = "write"
             PROVE  RevisionOf(h)'
  BY DEF RevisionInv
<1>1. CASE UNCHANGED vars
  <2>1. RevisionOf(h)
    BY <1>1 DEF vars, RevisionInv
  <2> QED
    BY <1>1, <2>1 DEF vars, RevisionOf, Ahead, Asked
<1> QED
  BY <1>1, RevisionCall, RevisionPage, RevisionSync, RevisionSyncMeta, RevisionAdvance,
     RevisionOther DEF Next, Step

(* If flushes are few enough for the 8 bits of the revision, which counts  *)
(* also the pages of a slot, and metadata can be read, no revision wraps.  *)
THEOREM RevisionsDoNotWrap ==
    ASSUME SeparateSlots, FewFlushes, "read" \notin Faults
    PROVE  Spec => []Unwrapped
<1>1. Init => RevisionInv
  BY ClosedFileType DEF Init, RevisionInv
<1>2. RevisionInv => Unwrapped
  BY DEF RevisionInv, RevisionOf, Unwrapped
<1> QED
  BY <1>1, <1>2, FoundInit, FoundStep, RevisionsStep, SlotInvariant, PTL DEF Spec

(* Then durability and the refinement hold of every behaviour.             *)
THEOREM FewFlushesAreSafe ==
    ASSUME SeparateSlots, FewFlushes, "read" \notin Faults
    PROVE  /\ Spec => ImplementsSlotStore
           /\ "meta" \notin Faults => (Spec => []FlushedIsDurable)
<1>1. Spec => ImplementsSlotStore
  BY RevisionsDoNotWrap, SlotFSImplementsSlotStore, PTL
<1>2. ASSUME "meta" \notin Faults PROVE Spec => []FlushedIsDurable
  BY <1>2, RevisionsDoNotWrap, FlushedStaysDurable, PTL
<1> QED
  BY <1>1, <1>2

=============================================================================
