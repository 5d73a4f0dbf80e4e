------------------------ MODULE SlotIsolation_proofs ------------------------
(***************************************************************************)
(* Where writes land: SlotFS satisfies WritesStayInPages for every number  *)
(* and size of slots and pages and any number of files, faults and data,   *)
(* if the application is careful (ClientMayUnmount, ClientMayWrite,        *)
(* ClientMayAllocate, ClientSlots); and SlotsAreIsolated if, besides,      *)
(* slots are whole numbers of pages, which the code does not ask for.      *)
(***************************************************************************)
EXTENDS SlotFS_proofs

-----------------------------------------------------------------------------
(* The inductive invariant: where the file and the page of a writer are,   *)
(* between two chunks of a write and within one.                           *)

(* A file open for writing lies in its slot.                               *)
InItsSlot(f) ==
    /\ f.slot \in Slots
    /\ f.md.start = SlotStart(f.slot) /\ f.md.max = SlotMax(f.slot)
    /\ f.cursor <= SlotSize

(* Between two chunks the page holds what precedes the cursor in it; after *)
(* a failed write it is full.                                              *)
Settled(f) ==
    IF f.failed THEN f.off = PageBlocks /\ f.cursor < SlotSize
                ELSE f.off = PageOffset(f.cursor)

(* Within a chunk of n blocks the page runs ahead of the cursor.           *)
Chunk(f) ==
    /\ ~f.failed
    /\ call.n > 0 /\ f.cursor + call.n <= SlotSize
    /\ PageOffset(f.cursor) + call.n <= PageBlocks
    /\ call.at = "page" => f.off = PageBlocks
    /\ call.at \in {"sync", "meta"} => f.off = 0
    /\ call.at \in {"page", "sync", "meta"} => PageOffset(f.cursor) + call.n = PageBlocks
    /\ call.at = "advance" => f.off = (PageOffset(f.cursor) + call.n) % PageBlocks

InChunk(h) == call.h = h /\ call.op = "write" /\ call.at # "loop"

FilesInv ==
    \A h \in Handles : file[h].mode = "write" =>
        /\ InItsSlot(file[h])
        /\ IF InChunk(h) THEN Chunk(file[h]) ELSE Settled(file[h])

CallInv ==
    /\ call.at \in {"config", "format"} => call.op \in {"init", "format"} /\ call.slot \in Slots
    /\ call.at = "create" => call.op = "open" /\ call.slot \in Slots
    /\ call.at \in {"loop", "page", "sync", "meta", "advance"} =>
           /\ call.op \in {"write", "flush", "allocate", "close"}
           /\ file[call.h].mode = "write"
    /\ call.at \in {"loop", "advance"} => call.op = "write"
    /\ call.at = "loop" => ~file[call.h].failed
    /\ call.at = "page" => file[call.h].off > 0
    /\ call.at = "fetch" => call.op = "read" /\ file[call.h].mode = "read"
    /\ call.at = "idle" => call.op = "none"

PlaceInv == FilesInv /\ CallInv

-----------------------------------------------------------------------------
(* In the beginning no file is open and no call runs.                      *)
THEOREM PlaceInit == Init => PlaceInv
<1> SUFFICES ASSUME Init PROVE PlaceInv
  OBVIOUS
<1>1. FilesInv
  BY ClosedFileType DEF Init, FilesInv
<1>2. CallInv
  BY ClosedFileType DEF Init, CallInv
<1> QED
  BY <1>1, <1>2 DEF PlaceInv

(* A step that leaves the files alone and is not inside a chunk.           *)
LEMMA FilesKept ==
    ASSUME FilesInv, UNCHANGED file,
           call.op # "write" \/ call.at = "loop",
           call'.op # "write" \/ call'.at = "loop"
    PROVE  FilesInv'
BY DEF FilesInv, InChunk, InItsSlot, Settled

(* A step about one file.                                                  *)
LEMMA OneFile ==
    ASSUME FilesInv, NEW h \in Handles,
           \A g \in Handles \ {h} : file'[g] = file[g],
           call.h = h \/ call.op # "write",
           call'.h = h \/ call'.op # "write",
           file'[h].mode = "write" =>
               /\ InItsSlot(file[h])'
               /\ IF InChunk(h)' THEN Chunk(file[h])' ELSE Settled(file[h])'
    PROVE  FilesInv'
<1> SUFFICES ASSUME NEW g \in Handles, file'[g].mode = "write"
             PROVE  /\ InItsSlot(file[g])'
                    /\ IF InChunk(g)' THEN Chunk(file[g])' ELSE Settled(file[g])'
  BY DEF FilesInv
<1>1. CASE g = h
  BY <1>1
<1>2. CASE g # h
  <2>1. ~InChunk(g) /\ ~InChunk(g)' /\ file'[g] = file[g]
    BY <1>2 DEF InChunk
  <2>2. InItsSlot(file[g]) /\ Settled(file[g])
    BY <2>1 DEF FilesInv
  <2> QED
    BY <2>1, <2>2 DEF InItsSlot, Settled
<1> QED
  BY <1>1, <1>2

LEMMA IdleCallInv ==
    ASSUME call' = Idle
    PROVE  CallInv' /\ call'.op # "write"
BY ClosedFileType DEF CallInv

LEMMA PlaceMount ==
    ASSUME TypeInv, PlaceInv, SfsInit \/ SfsFormat \/ SfsDeinit
    PROVE  PlaceInv'
<1>1. /\ Start("init", "config", NoHandle).at = "config"
      /\ Start("init", "config", NoHandle).op = "init"
      /\ Start("format", "config", NoHandle).at = "config"
      /\ Start("format", "config", NoHandle).op = "format"
  BY StartType DEF Ops, CallPoints
<1>2. UNCHANGED file /\ call.op # "write" /\ call'.op # "write"
  BY <1>1, ClosedFileType DEF SfsInit, SfsFormat, SfsDeinit, Ready
<1>3. CASE call'.at = "config"
  <2>1. call'.op \in {"init", "format"}
    BY <1>1, <1>3, ClosedFileType DEF SfsInit, SfsFormat, SfsDeinit, Ready
  <2>2. call'.slot = 0
    BY <1>3, ClosedFileType DEF SfsInit, SfsFormat, SfsDeinit, Ready, Start, Idle
  <2>3. CallInv'
    BY <1>3, <2>1, <2>2, Constants DEF CallInv, Slots
  <2> QED
    BY <1>2, <2>3, FilesKept DEF PlaceInv
<1>4. CASE call'.at # "config"
  <2>1. call' = Idle
    BY <1>1, <1>4, ClosedFileType DEF SfsInit, SfsFormat, SfsDeinit, Ready
  <2> QED
    BY <1>2, <2>1, IdleCallInv, FilesKept DEF PlaceInv
<1> QED
  BY <1>3, <1>4

LEMMA PlaceFormat ==
    ASSUME TypeInv, PlaceInv, FormatConfig \/ FormatMeta
    PROVE  PlaceInv'
<1>1. UNCHANGED file /\ call.op \in {"init", "format"} /\ call.at \in {"config", "format"}
  BY DEF FormatConfig, FormatMeta, PlaceInv, CallInv
<1>2. \/ call' = Idle
      \/ call'.op = call.op /\ call'.at = "format" /\ call'.slot \in Slots
  <2>1. call.slot \in Slots /\ call.slot \in SlotNumbers
    BY <1>1, CallFields DEF PlaceInv, CallInv, TypeInv
  <2>2. CASE FormatConfig
    BY <2>1, <2>2 DEF FormatConfig, Return, TypeInv, TypeOK, CallType
  <2>3. CASE FormatMeta /\ call' # Idle
    <3>1. \/ call' = [call EXCEPT !.idx = 1]
          \/ call' = [call EXCEPT !.idx = 0, !.slot = @ + 1] /\ call.slot + 1 < SlotCount
      BY <2>3 DEF FormatMeta, Return
    <3>2. call.slot + 1 < SlotCount => call.slot + 1 \in Slots
      BY <2>1, Constants DEF Slots
    <3>3. call'.op = call.op /\ call'.at = call.at /\ call'.slot \in Slots
      BY <2>1, <3>1, <3>2 DEF TypeInv, TypeOK, CallType
    <3> QED
      BY <2>3, <3>3 DEF FormatMeta
  <2> QED
    BY <2>2, <2>3
<1>3. CallInv' /\ call'.op # "write"
  BY <1>1, <1>2, IdleCallInv DEF CallInv
<1> QED
  BY <1>1, <1>3, FilesKept DEF PlaceInv

LEMMA PlaceOpenRead ==
    ASSUME TypeInv, PlaceInv, NEW h \in Handles, NEW slot \in SlotNumbers, OpenRead(h, slot)
    PROVE  PlaceInv'
<1>1. call = Idle /\ call' = Idle /\ call.op = "none"
  BY ClosedFileType DEF OpenRead, Ready
<1>2. CASE UNCHANGED file
  BY <1>1, <1>2, FilesKept, IdleCallInv DEF PlaceInv
<1>3. CASE \E readable \in SUBSET ValidIdx(slot) : readable # {} /\
               file' = [file EXCEPT ![h] = OpenedFile(slot, "read", ReadMeta(slot, readable))]
  <2>1. PICK readable \in SUBSET ValidIdx(slot) : readable # {} /\
            file' = [file EXCEPT ![h] = OpenedFile(slot, "read", ReadMeta(slot, readable))]
    BY <1>3
  <2>2. OpenedFile(slot, "read", ReadMeta(slot, readable)).mode = "read"
    BY DEF OpenedFile, ClosedFile
  <2>b. DOMAIN file = Handles
    BY DEF TypeInv, TypeOK
  <2>3. file'[h].mode = "read" /\ \A g \in Handles \ {h} : file'[g] = file[g]
    BY <2>1, <2>2, <2>b
  <2>4. FilesInv'
    BY <1>1, <2>3, OneFile DEF PlaceInv
  <2> QED
    BY <1>1, <2>4, IdleCallInv DEF PlaceInv
<1> QED
  BY <1>2, <1>3 DEF OpenRead

LEMMA PlaceOpenWrite ==
    ASSUME Careful, TypeInv, PlaceInv,
           NEW h \in Handles, NEW slot \in ClientSlots, OpenWrite(h, slot)
    PROVE  PlaceInv'
<1>1. call = Idle /\ call.op = "none" /\ UNCHANGED file
  BY ClosedFileType DEF OpenWrite, Ready
<1>2. slot \in Slots
  BY DEF ClientSlots
<1> DEFINE c == Start("open", "create", h)
<1>3. c \in CallType /\ c.op = "open" /\ c.at = "create"
  BY StartType DEF Ops, CallPoints
<1>4. call' = Idle \/ call' = [c EXCEPT !.slot = slot]
  BY <1>1 DEF OpenWrite
<1> HIDE DEF c
<1>5. CallInv' /\ call'.op # "write"
  <2>1. CASE call' = Idle
    BY <2>1, IdleCallInv
  <2>2. CASE call' = [c EXCEPT !.slot = slot]
    <3>1. call'.op = "open" /\ call'.at = "create" /\ call'.slot = slot
      BY <1>3, <2>2 DEF CallType
    <3> QED
      BY <1>2, <3>1 DEF CallInv
  <2> QED
    BY <1>4, <2>1, <2>2
<1> QED
  BY <1>1, <1>5, FilesKept DEF PlaceInv

LEMMA PlaceCreateMeta ==
    ASSUME TypeInv, PlaceInv, CreateMeta
    PROVE  PlaceInv'
<1>1. call.op = "open" /\ call.slot \in Slots /\ call.slot \in SlotNumbers
      /\ call.at = "create" /\ call.h \in Handles
  BY CallFields DEF CreateMeta, PlaceInv, CallInv, TypeInv, CallShape
<1>2. CASE call' = [call EXCEPT !.idx = 1] /\ UNCHANGED file
  <2>1. call'.op = "open" /\ call'.at = "create" /\ call'.slot = call.slot
    BY <1>1, <1>2 DEF TypeInv, TypeOK, CallType
  <2>2. CallInv'
    BY <1>1, <2>1 DEF CallInv
  <2> QED
    BY <1>1, <1>2, <2>1, <2>2, FilesKept DEF PlaceInv
<1>3. CASE call' = Idle /\ UNCHANGED file
  BY <1>1, <1>3, FilesKept, IdleCallInv DEF PlaceInv
<1>4. CASE /\ call' = Idle
           /\ file' = [file EXCEPT ![call.h] =
                           OpenedFile(call.slot, "write", FreshMeta(call.slot, 1))]
  <2>1. PICK h \in Handles : h = call.h
    BY <1>1
  <2> DEFINE md == FreshMeta(call.slot, 1)
             f == OpenedFile(call.slot, "write", md)
  <2>2. md \in Meta /\ md.start = SlotStart(call.slot) /\ md.max = SlotMax(call.slot)
    <3>1. md \in Meta
      BY <1>1, FreshMetaType
    <3> QED
      BY <3>1 DEF FreshMeta
  <2> HIDE DEF md
  <2>3. f.slot = call.slot /\ f.md = md /\ f.cursor = 0 /\ f.off = 0 /\ ~f.failed
    BY DEF OpenedFile, ClosedFile
  <2>4. file'[h] = f /\ \A g \in Handles \ {h} : file'[g] = file[g]
    BY <1>4, <2>1 DEF TypeInv, TypeOK, md
  <2> HIDE DEF f
  <2>5. InItsSlot(file[h])' /\ Settled(file[h])'
    <3>1. PageOffset(0) = 0
      BY Constants DEF PageOffset
    <3> QED
      BY <1>1, <2>2, <2>3, <2>4, <3>1, Constants DEF InItsSlot, Settled
  <2>6. ~InChunk(h)' /\ call'.op # "write"
    BY <1>4, IdleCallInv DEF InChunk
  <2>7. FilesInv'
    BY <1>1, <2>1, <2>4, <2>5, <2>6, OneFile DEF PlaceInv
  <2> QED
    BY <1>4, <2>7, IdleCallInv DEF PlaceInv
<1> QED
  BY <1>2, <1>3, <1>4 DEF CreateMeta, Return

LEMMA PlaceWrite ==
    ASSUME Careful, TypeInv, PlaceInv,
           NEW h \in Handles, NEW blocks \in Requests, Write(h, blocks)
    PROVE  PlaceInv'
<1> DEFINE c == Start("write", "loop", h)
<1>1. c \in CallType /\ c.op = "write" /\ c.at = "loop" /\ c.h = h
  BY StartType DEF Ops, CallPoints
<1>2. call = Idle /\ call.op = "none" /\ UNCHANGED file
  BY ClosedFileType DEF Write, Ready
<1>3. file[h].mode = "write" /\ ~file[h].failed
  BY DEF Write, ClientMayWrite
<1>4. call' = [c EXCEPT !.rest = blocks]
  BY DEF Write
<1> HIDE DEF c
<1>5. call'.op = "write" /\ call'.at = "loop" /\ call'.h = h
  BY <1>1, <1>4 DEF CallType
<1>6. CallInv'
  BY <1>2, <1>3, <1>5 DEF CallInv
<1> QED
  BY <1>2, <1>5, <1>6, FilesKept DEF PlaceInv

LEMMA PlaceWriteLoop ==
    ASSUME TypeInv, PlaceInv, WriteLoop
    PROVE  PlaceInv'
<1>1. PICK h \in Handles : h = call.h
  BY DEF WriteLoop, TypeInv, CallShape
<1> DEFINE f == file[h]
           avail == PageBlocks - f.off
           n == IF Len(call.rest) < avail THEN Len(call.rest) ELSE avail
<1>2. /\ call.at = "loop" /\ call.op = "write" /\ f.mode = "write" /\ ~f.failed
      /\ call.rest \in Seq(Block)
  BY <1>1, CallFields DEF WriteLoop, PlaceInv, CallInv, TypeInv
<1>3. InItsSlot(f) /\ f.off = PageOffset(f.cursor)
  BY <1>1, <1>2 DEF PlaceInv, FilesInv, InChunk, Settled
<1>4. CASE call' = Idle /\ UNCHANGED file
  BY <1>2, <1>4, FilesKept, IdleCallInv DEF PlaceInv
<1>5. CASE /\ call.rest # <<>> /\ Fits(f, Len(call.rest))
           /\ file' = [file EXCEPT
                  ![h].page = [i \in 1 .. PageBlocks |-> IF i \in f.off + 1 .. f.off + n
                                                     THEN call.rest[i - f.off] ELSE @[i]],
                  ![h].off = f.off + n]
           /\ call' = [call EXCEPT !.n = n,
                          !.at = IF f.off + n = PageBlocks THEN "page" ELSE "advance"]
  <2>1. f.cursor \in Nat /\ f.off \in 0 .. PageBlocks /\ f.md \in Meta /\ f.slot \in Slots
        /\ f \in FileType
    BY <1>1, <1>3, FileFields DEF TypeInv, TypeOK, InItsSlot
  <2>2. SlotStart(f.slot) \in Nat
    BY <2>1, MetaBeforeData, Constants DEF Slots
  <2>3. Len(call.rest) \in Nat /\ Len(call.rest) > 0 /\ f.cursor + Len(call.rest) <= SlotSize
    <3>1. FileSpace(f) = SlotSize - f.cursor
      BY <1>3, <2>1, <2>2, Constants DEF FileSpace, InItsSlot, SlotMax
    <3>2. FileSpace(f) >= 0
      BY <1>3, <2>1, <3>1, Constants DEF InItsSlot
    <3>3. Len(call.rest) <= FileSpace(f)
      BY <1>5, <2>1, <3>1, <3>2, Constants DEF Fits
    <3> QED
      BY <1>2, <1>5, <2>1, <3>1, <3>3, Constants
  <2>4. f.off \in 0 .. PageBlocks - 1
    BY <1>3, <2>1, Constants DEF PageOffset
  <2>5. n \in Nat /\ n > 0 /\ n <= Len(call.rest) /\ f.off + n <= PageBlocks
    <3> HIDE DEF f
    <3> QED
      BY <2>3, <2>4, Constants
  <2> HIDE DEF n
  <2>6. /\ call'.h = h /\ call'.op = "write" /\ call'.n = n
        /\ call'.at = IF f.off + n = PageBlocks THEN "page" ELSE "advance"
    BY <1>1, <1>2, <1>5 DEF TypeInv, TypeOK, CallType
  <2>7. /\ file'[h].mode = "write" /\ file'[h].slot = f.slot /\ file'[h].md = f.md
        /\ file'[h].cursor = f.cursor /\ file'[h].off = f.off + n /\ ~file'[h].failed
        /\ \A g \in Handles \ {h} : file'[g] = file[g]
    BY <1>2, <1>5, <2>1 DEF TypeInv, TypeOK, FileType
  <2>8. InItsSlot(file[h])'
    BY <1>3, <2>7 DEF InItsSlot
  <2>9. Chunk(file[h])'
    <3>1. f.off + n < PageBlocks => (f.off + n) % PageBlocks = f.off + n
      <4> HIDE DEF f
      <4> QED
        BY <2>4, <2>5, Constants
    <3>2. f.cursor + n <= SlotSize
      <4> HIDE DEF f
      <4> QED
        BY <2>1, <2>3, <2>5, Constants
    <3> HIDE DEF f
    <3> QED
      BY <1>3, <2>4, <2>5, <2>6, <2>7, <3>1, <3>2, Constants DEF Chunk
  <2>10. CallInv'
    BY <1>1, <1>2, <2>4, <2>5, <2>6, <2>7 DEF CallInv
  <2>11. InChunk(h)'
    BY <2>6 DEF InChunk
  <2>12. FilesInv'
    BY <1>1, <2>6, <2>7, <2>8, <2>9, <2>11, OneFile DEF PlaceInv
  <2> QED
    BY <2>10, <2>12 DEF PlaceInv
<1> QED
  BY <1>1, <1>4, <1>5 DEF WriteLoop, Return

LEMMA PlaceWritePage ==
    ASSUME TypeInv, PlaceInv, WritePage
    PROVE  PlaceInv'
<1>1. PICK h \in Handles : h = call.h
  BY DEF WritePage, TypeInv, CallShape
<1> DEFINE f == file[h]
<1>2. /\ call.at = "page" /\ f.mode = "write" /\ call.op \in {"write", "flush", "allocate", "close"}
      /\ InItsSlot(f) /\ f \in FileType
  BY <1>1 DEF WritePage, PlaceInv, CallInv, FilesInv, TypeInv, TypeOK
<1>3. call.op = "write" => InChunk(h) /\ Chunk(f)
  BY <1>1, <1>2 DEF PlaceInv, FilesInv, InChunk
<1>4. call.op # "write" => Settled(f)
  BY <1>1, <1>2 DEF PlaceInv, FilesInv, InChunk
<1>5. CASE /\ call.op = "write"
           /\ file' = [file EXCEPT ![h] = Cleared(@)]
           /\ call' = [call EXCEPT !.at = "sync"]
  <2>1. /\ file'[h] = [f EXCEPT !.off = 0] /\ \A g \in Handles \ {h} : file'[g] = file[g]
    BY <1>5 DEF TypeInv, TypeOK, Cleared
  <2>2. /\ file'[h].mode = "write" /\ file'[h].slot = f.slot /\ file'[h].md = f.md
        /\ file'[h].cursor = f.cursor /\ file'[h].off = 0 /\ (file'[h].failed <=> f.failed)
    BY <1>2, <2>1 DEF FileType
  <2>3. call'.h = h /\ call'.op = "write" /\ call'.n = call.n /\ call'.at = "sync"
    BY <1>1, <1>5 DEF TypeInv, TypeOK, CallType
  <2>4. InItsSlot(file[h])' /\ Chunk(file[h])' /\ InChunk(h)'
    BY <1>2, <1>3, <1>5, <2>2, <2>3 DEF InItsSlot, Chunk, InChunk
  <2>5. CallInv'
    BY <2>2, <2>3 DEF CallInv
  <2> QED
    BY <1>1, <2>1, <2>3, <2>4, <2>5, OneFile DEF PlaceInv
<1>6. CASE call.op # "write" /\ UNCHANGED file /\ call' = [call EXCEPT !.at = "sync"]
  <2>1. call'.h = h /\ call'.op = call.op /\ call'.at = "sync"
    BY <1>1, <1>6 DEF TypeInv, TypeOK, CallType
  <2>2. CallInv'
    BY <1>2, <1>6, <2>1 DEF CallInv
  <2> QED
    BY <1>6, <2>1, <2>2, FilesKept DEF PlaceInv
<1>7. CASE file' = [file EXCEPT ![h].failed = @ \/ call.op = "write"] /\ call' = Idle
  <2>1. /\ file'[h].mode = "write" /\ file'[h].slot = f.slot /\ file'[h].md = f.md
        /\ file'[h].cursor = f.cursor /\ file'[h].off = f.off
        /\ file'[h].failed = (f.failed \/ call.op = "write")
        /\ \A g \in Handles \ {h} : file'[g] = file[g]
    BY <1>2, <1>7 DEF TypeInv, TypeOK, FileType
  <2>2. InItsSlot(file[h])'
    BY <1>2, <2>1 DEF InItsSlot
  <2>3. Settled(file[h])'
    <3>1. CASE call.op = "write"
      <4>1. f.off = PageBlocks /\ f.cursor < SlotSize
        <5>1. f.cursor \in Nat /\ call.n \in Nat
          BY <1>1, FileFields, CallFields DEF TypeInv
        <5> QED
          BY <1>2, <1>3, <3>1, <5>1, Constants DEF Chunk
      <4> QED
        BY <2>1, <3>1, <4>1 DEF Settled
    <3>2. CASE call.op # "write"
      BY <1>4, <2>1, <3>2 DEF Settled
    <3> QED
      BY <3>1, <3>2
  <2>4. ~InChunk(h)' /\ call'.op # "write" /\ CallInv'
    BY <1>7, IdleCallInv DEF InChunk
  <2> QED
    BY <1>1, <2>1, <2>2, <2>3, <2>4, OneFile DEF PlaceInv
<1> QED
  BY <1>1, <1>2, <1>5, <1>6, <1>7 DEF WritePage, Return

LEMMA PlaceAdvance ==
    ASSUME TypeInv, PlaceInv, Advance
    PROVE  PlaceInv'
<1>1. PICK h \in Handles : h = call.h
  BY DEF Advance, TypeInv, CallShape
<1> DEFINE f == file[h]
<1>2. /\ call.at = "advance" /\ call.op = "write" /\ f.mode = "write"
      /\ InItsSlot(f) /\ f \in FileType /\ Chunk(f)
  BY <1>1 DEF Advance, PlaceInv, CallInv, FilesInv, InChunk, TypeInv, TypeOK
<1>3. f.cursor \in Nat /\ call.n \in Nat
  BY <1>1, FileFields, CallFields DEF TypeInv
<1>4. /\ file'[h].mode = "write" /\ file'[h].slot = f.slot /\ file'[h].md = f.md
      /\ file'[h].cursor = f.cursor + call.n /\ file'[h].off = f.off
      /\ (file'[h].failed <=> f.failed)
      /\ \A g \in Handles \ {h} : file'[g] = file[g]
  BY <1>1, <1>2 DEF Advance, TypeInv, TypeOK, FileType
<1>5. call'.h = h /\ call'.op = "write" /\ call'.at = "loop"
  BY <1>1, <1>2 DEF Advance, TypeInv, TypeOK, CallType
<1>6. InItsSlot(file[h])' /\ Settled(file[h])'
  <2>1. f.off = PageOffset(f.cursor + call.n)
    BY <1>2, <1>3, PageOffsetMoves DEF Chunk
  <2> HIDE DEF f
  <2> QED
    BY <1>2, <1>4, <2>1 DEF InItsSlot, Settled, Chunk
<1>7. ~InChunk(h)'
  BY <1>5 DEF InChunk
<1>8. CallInv'
  BY <1>2, <1>4, <1>5 DEF CallInv, Chunk
<1> QED
  BY <1>1, <1>4, <1>5, <1>6, <1>7, <1>8, OneFile DEF PlaceInv

LEMMA PlaceFlush ==
    ASSUME TypeInv, PlaceInv, NEW h \in Handles, Flush(h)
    PROVE  PlaceInv'
<1>1. PICK at \in {"page", "sync"} : at = FlushPoint(h)
  BY DEF FlushPoint
<1>2. /\ Start("flush", at, h).op = "flush" /\ Start("flush", at, h).at = at
      /\ Start("flush", at, h).h = h
  BY StartType DEF Ops, CallPoints
<1>3. call'.op = "flush" /\ call'.at = at /\ call'.h = h
  BY <1>1, <1>2 DEF Flush
<1>4. call.op = "none" /\ UNCHANGED file /\ file[h].mode = "write"
  BY ClosedFileType DEF Flush, Ready
<1>5. at = "page" => file[h].off > 0
  BY <1>1 DEF FlushPoint
<1>6. CallInv'
  BY <1>3, <1>4, <1>5 DEF CallInv
<1> QED
  BY <1>3, <1>4, <1>6, FilesKept DEF PlaceInv

LEMMA PlaceAllocate ==
    ASSUME Careful, TypeInv, PlaceInv, NEW h \in Handles, NEW size \in Nat,
           Allocate(h, size)
    PROVE  PlaceInv'
<1> DEFINE f == file[h]
<1>1. /\ Start("allocate", "sync", h).op = "allocate"
      /\ Start("allocate", "sync", h).at = "sync" /\ Start("allocate", "sync", h).h = h
  BY StartType DEF Ops, CallPoints
<1>2. call'.op = "allocate" /\ call'.at = "sync" /\ call'.h = h
  BY <1>1 DEF Allocate
<1>3. call.op = "none" /\ f.mode = "write" /\ f \in FileType
  BY ClosedFileType DEF Allocate, Ready, TypeInv, TypeOK
<1>4. f.off = 0 /\ PageOffset(size) = 0 /\ size <= SlotSize
  BY DEF Allocate, ClientMayAllocate
<1>5. InItsSlot(f) /\ ~f.failed
  BY <1>3, <1>4, Constants DEF PlaceInv, FilesInv, InChunk, Settled
<1>6. /\ file'[h].mode = "write" /\ file'[h].slot = f.slot /\ file'[h].md = f.md
      /\ file'[h].cursor = size /\ file'[h].off = 0 /\ ~file'[h].failed
      /\ \A g \in Handles \ {h} : file'[g] = file[g]
  BY <1>3, <1>5 DEF Allocate, Cleared, TypeInv, TypeOK, FileType
<1>7. InItsSlot(file[h])' /\ Settled(file[h])' /\ ~InChunk(h)'
  BY <1>2, <1>4, <1>5, <1>6 DEF InItsSlot, Settled, InChunk
<1>8. CallInv'
  BY <1>2, <1>6 DEF CallInv
<1> QED
  BY <1>2, <1>3, <1>6, <1>7, <1>8, OneFile DEF PlaceInv

LEMMA PlaceClose ==
    ASSUME TypeInv, PlaceInv, NEW h \in Handles, Close(h)
    PROVE  PlaceInv'
<1>1. call = Idle /\ call.op = "none"
  BY ClosedFileType DEF Close, Ready
<1>2. CASE file[h].mode = "write"
  <2>1. PICK at \in {"page", "sync"} : at = FlushPoint(h)
    BY DEF FlushPoint
  <2>2. /\ Start("close", at, h).op = "close" /\ Start("close", at, h).at = at
        /\ Start("close", at, h).h = h
    BY StartType DEF Ops, CallPoints
  <2>3. call'.op = "close" /\ call'.at = at /\ call'.h = h /\ UNCHANGED file
    BY <1>2, <2>1, <2>2 DEF Close
  <2>4. at = "page" => file[h].off > 0
    BY <2>1 DEF FlushPoint
  <2>5. CallInv'
    BY <1>2, <2>3, <2>4 DEF CallInv
  <2> QED
    BY <1>1, <2>3, <2>5, FilesKept DEF PlaceInv
<1>3. CASE file[h].mode = "read"
  <2>1. file'[h].mode = "closed" /\ call' = Idle
        /\ \A g \in Handles \ {h} : file'[g] = file[g]
    BY <1>1, <1>3, ClosedFileType DEF Close, TypeInv, TypeOK
  <2>2. FilesInv'
    BY <1>1, <2>1, IdleCallInv, OneFile DEF PlaceInv
  <2> QED
    BY <2>1, <2>2, IdleCallInv DEF PlaceInv
<1> QED
  BY <1>2, <1>3 DEF Close

LEMMA PlaceSync ==
    ASSUME TypeInv, PlaceInv, Sync
    PROVE  PlaceInv'
<1>1. PICK h \in Handles : h = call.h
  BY DEF Sync, TypeInv, CallShape
<1> DEFINE f == file[h]
<1>2. /\ call.at = "sync" /\ call.op \in {"write", "flush", "allocate", "close"}
      /\ f.mode = "write" /\ InItsSlot(f) /\ f \in FileType
      /\ IF call.op = "write" THEN Chunk(f) ELSE Settled(f)
  BY <1>1 DEF Sync, PlaceInv, CallInv, FilesInv, InChunk, TypeInv, TypeOK
<1>3. /\ file'[h].mode = "write" /\ file'[h].slot = f.slot
      /\ file'[h].md.start = f.md.start /\ file'[h].md.max = f.md.max
      /\ file'[h].cursor = f.cursor /\ file'[h].off = f.off
      /\ (file'[h].failed <=> f.failed)
      /\ \A g \in Handles \ {h} : file'[g] = file[g]
  <2>1. f.md \in Meta
    BY <1>2 DEF FileType
  <2> QED
    BY <1>1, <1>2, <2>1 DEF Sync, TypeInv, TypeOK, FileType, Meta
<1>4. InItsSlot(file[h])'
  BY <1>2, <1>3 DEF InItsSlot
<1>5. \/ call' = Idle /\ call.op # "write"
      \/ call'.h = h /\ call'.op = call.op /\ call'.n = call.n /\ call'.at = "meta"
      \/ call'.h = h /\ call.op = "write" /\ call'.op = "write" /\ call'.n = call.n
           /\ call'.at = "advance"
  BY <1>1 DEF Sync, Return, TypeInv, TypeOK, CallType
<1>6. CASE call.op = "write"
  <2>1. call'.h = h /\ call'.op = "write" /\ call'.n = call.n
        /\ call'.at \in {"meta", "advance"}
    BY <1>5, <1>6
  <2>2. PageBlocks % PageBlocks = 0
    BY Constants
  <2>3. Chunk(file[h])' /\ InChunk(h)'
    <3> HIDE DEF f
    <3> QED
      BY <1>2, <1>3, <1>6, <2>1, <2>2 DEF Chunk, InChunk
  <2>4. CallInv'
    BY <1>3, <2>1 DEF CallInv
  <2> QED
    BY <1>1, <1>3, <1>4, <2>1, <2>3, <2>4, OneFile DEF PlaceInv
<1>7. CASE call.op # "write"
  <2>1. call'.op # "write" /\ ~InChunk(h)'
    BY <1>5, <1>7, IdleCallInv DEF InChunk
  <2>2. Settled(file[h])'
    BY <1>2, <1>3, <1>7 DEF Settled
  <2>3. CallInv'
    BY <1>2, <1>3, <1>5, <1>7, IdleCallInv DEF CallInv
  <2> QED
    BY <1>1, <1>3, <1>4, <2>1, <2>2, <2>3, OneFile DEF PlaceInv
<1> QED
  BY <1>6, <1>7

LEMMA PlaceSyncMeta ==
    ASSUME TypeInv, PlaceInv, SyncMeta
    PROVE  PlaceInv'
<1>1. PICK h \in Handles : h = call.h
  BY DEF SyncMeta, TypeInv, CallShape
<1> DEFINE f == file[h]
<1>2. /\ call.at = "meta" /\ call.op \in {"write", "flush", "allocate", "close"}
      /\ f.mode = "write" /\ InItsSlot(f) /\ f \in FileType
      /\ IF call.op = "write" THEN Chunk(f) ELSE Settled(f)
  BY <1>1 DEF SyncMeta, PlaceInv, CallInv, FilesInv, InChunk, TypeInv, TypeOK
<1>3. CASE call.op = "write" /\ UNCHANGED file /\ call' = [call EXCEPT !.at = "advance"]
  <2>1. call'.h = h /\ call'.op = "write" /\ call'.n = call.n /\ call'.at = "advance"
    BY <1>1, <1>3 DEF TypeInv, TypeOK, CallType
  <2>2. PageBlocks % PageBlocks = 0
    BY Constants
  <2>3. Chunk(file[h])' /\ InChunk(h)' /\ InItsSlot(file[h])'
    <3>1. file'[h] = f
      BY <1>3
    <3> HIDE DEF f
    <3> QED
      BY <1>2, <1>3, <2>1, <2>2, <3>1 DEF Chunk, InChunk, InItsSlot
  <2>4. CallInv'
    BY <1>2, <1>3, <2>1 DEF CallInv
  <2>5. \A g \in Handles \ {h} : file'[g] = file[g]
    BY <1>3
  <2> QED
    BY <1>1, <2>1, <2>3, <2>4, <2>5, OneFile DEF PlaceInv
<1>4. CASE call.op # "write" /\ UNCHANGED file /\ call' = Idle
  BY <1>4, FilesKept, IdleCallInv DEF PlaceInv
<1>5. CASE file' = [file EXCEPT ![h] = ClosedFile] /\ call' = Idle
  <2>1. file'[h].mode = "closed" /\ \A g \in Handles \ {h} : file'[g] = file[g]
    BY <1>5, ClosedFileType DEF TypeInv, TypeOK
  <2>2. FilesInv'
    BY <1>1, <1>5, <2>1, IdleCallInv, OneFile DEF PlaceInv
  <2> QED
    BY <1>5, <2>2, IdleCallInv DEF PlaceInv
<1> QED
  BY <1>1, <1>2, <1>3, <1>4, <1>5 DEF SyncMeta, Return

LEMMA PlaceRead ==
    ASSUME TypeInv, PlaceInv, NEW h \in Handles, NEW n \in Nat, Seek(h, n) \/ Read(h, n)
    PROVE  PlaceInv'
<1>1. call = Idle /\ call.op = "none" /\ file[h].mode = "read" /\ file[h] \in FileType
  BY ClosedFileType DEF Seek, Read, Ready, TypeInv, TypeOK
<1>2. CASE Seek(h, n)
  <2>1. file'[h].mode = "read" /\ \A g \in Handles \ {h} : file'[g] = file[g]
    BY <1>1, <1>2 DEF Seek, Cleared, TypeInv, TypeOK, FileType
  <2>2. call' = Idle
    BY <1>1, <1>2 DEF Seek
  <2>3. FilesInv'
    BY <1>1, <2>1, <2>2, IdleCallInv, OneFile DEF PlaceInv
  <2> QED
    BY <2>2, <2>3, IdleCallInv DEF PlaceInv
<1>3. CASE Read(h, n)
  <2> DEFINE c == Start("read", "fetch", h)
  <2>1. c \in CallType /\ c.op = "read" /\ c.at = "fetch" /\ c.h = h
    BY StartType DEF Ops, CallPoints
  <2>2. call' = [c EXCEPT !.n = n] /\ UNCHANGED file
    BY <1>3 DEF Read
  <2> HIDE DEF c
  <2>3. call'.op = "read" /\ call'.at = "fetch" /\ call'.h = h
    BY <2>1, <2>2 DEF CallType
  <2>4. CallInv'
    BY <1>1, <2>2, <2>3 DEF CallInv
  <2> QED
    BY <1>1, <2>2, <2>3, <2>4, FilesKept DEF PlaceInv
<1> QED
  BY <1>2, <1>3

LEMMA PlaceReadLoop ==
    ASSUME TypeInv, PlaceInv, ReadLoop
    PROVE  PlaceInv'
<1>1. PICK h \in Handles : h = call.h
  BY DEF ReadLoop, TypeInv, CallShape
<1>2. /\ call.at = "fetch" /\ call.op = "read" /\ file[h].mode = "read"
      /\ file[h] \in FileType
  BY <1>1 DEF ReadLoop, PlaceInv, CallInv, TypeInv, TypeOK
<1> DEFINE f == file[h]
           load == f.off = 0 \/ f.off = PageBlocks
           at == PageAddress(f.md.start, f.cursor)
           off == IF load THEN PageOffset(f.cursor) ELSE f.off
           n == CHOOSE k \in {call.n, f.md.size - f.cursor, PageBlocks - off} :
                    k <= call.n /\ k <= f.md.size - f.cursor /\ k <= PageBlocks - off
           page == IF load THEN [i \in 1 .. PageBlocks |-> disk[at + i - 1]] ELSE f.page
<1>3. \/ call' = Idle /\ UNCHANGED file
      \/ /\ file' = [file EXCEPT ![h].page = page, ![h].off = off + n, ![h].cursor = @ + n]
         /\ call' = [call EXCEPT !.n = @ - n,
                                 !.rest = @ \o SubSeq(page, off + 1, off + n)]
  BY <1>1 DEF ReadLoop, Return
<1> HIDE DEF off, n, page
<1>4. CASE call' = Idle /\ UNCHANGED file
  BY <1>2, <1>4, FilesKept, IdleCallInv DEF PlaceInv
<1>5. CASE /\ file' = [file EXCEPT ![h].page = page, ![h].off = off + n, ![h].cursor = @ + n]
           /\ call' = [call EXCEPT !.n = @ - n,
                                   !.rest = @ \o SubSeq(page, off + 1, off + n)]
  <2>1. file'[h].mode = "read" /\ \A g \in Handles \ {h} : file'[g] = file[g]
    BY <1>2, <1>5 DEF TypeInv, TypeOK, FileType
  <2>2. call'.h = h /\ call'.op = "read" /\ call'.at = "fetch"
    BY <1>1, <1>2, <1>5 DEF TypeInv, TypeOK, CallType
  <2>3. CallInv'
    BY <2>1, <2>2 DEF CallInv
  <2>4. FilesInv'
    BY <1>1, <2>1, <2>2, OneFile DEF PlaceInv
  <2> QED
    BY <2>3, <2>4 DEF PlaceInv
<1> QED
  BY <1>3, <1>4, <1>5

(* Every step of a call, a failing write and a power loss included, leaves *)
(* the files and pages of writers where they belong.                       *)
THEOREM PlaceStep ==
    ASSUME Careful
    PROVE  TypeInv /\ PlaceInv /\ [Next]_vars => PlaceInv'
<1> SUFFICES ASSUME TypeInv, PlaceInv, [Next]_vars PROVE PlaceInv'
  OBVIOUS
<1>1. CASE Step
  BY <1>1, PlaceFormat, PlaceCreateMeta, PlaceWriteLoop, PlaceWritePage, PlaceAdvance,
     PlaceSync, PlaceSyncMeta, PlaceReadLoop DEF Step
<1>2. CASE Call
  <2>1. ClientSlots \subseteq SlotNumbers
    BY Constants DEF ClientSlots, Slots, SlotNumbers
  <2>2. \A n \in 0 .. SlotSize + 1 : n \in Nat
    BY Constants
  <2> QED
    BY <1>2, <2>1, <2>2, PlaceMount, PlaceOpenRead, PlaceOpenWrite, PlaceWrite, PlaceFlush,
       PlaceAllocate, PlaceClose, PlaceRead, Constants DEF Call
<1>3. CASE PowerLoss
  <2>1. call' = Idle /\ \A h \in Handles : file'[h].mode = "closed"
    BY <1>3, ClosedFileType DEF PowerLoss
  <2> QED
    BY <2>1, IdleCallInv DEF PlaceInv, FilesInv
<1>4. CASE UNCHANGED vars
  BY <1>4 DEF vars, PlaceInv, FilesInv, CallInv, InChunk, InItsSlot, Chunk, Settled
<1> QED
  BY <1>1, <1>2, <1>3, <1>4 DEF Next

-----------------------------------------------------------------------------
(* Where a device write lands.                                             *)

Target == Pending.at .. Pending.at + Len(Pending.blocks) - 1

(* A write changes its target only, done or cut short.                     *)
LEMMA WriteInTarget ==
    ASSUME TypeInv, call.at \in Writing, NEW a \in Addresses, disk'[a] # disk[a],
           WriteOk \/ disk' \in CutShort \/ (\E kind : WriteFails(kind))
    PROVE  a \in Target
<1>1. Pending.at \in Int /\ Len(Pending.blocks) \in Nat
  BY PendingType
<1>2. CASE WriteOk
  BY <1>1, <1>2 DEF WriteOk, Stored, Target
<1>3. CASE \E kind : WriteFails(kind)
  BY <1>3 DEF WriteFails
<1>4. CASE \E n \in 0 .. Len(Pending.blocks) - 1 : disk' = Stored(Pending, n)
  <2>1. PICK n \in 0 .. Len(Pending.blocks) - 1 : disk' = Stored(Pending, n)
    BY <1>4
  <2> QED
    BY <1>1, <2>1 DEF Stored, Target
<1>5. CASE call.at # "page" /\ disk' = [disk EXCEPT ![Pending.at] = Garbled]
  <2>1. Len(Pending.blocks) = 1
    BY <1>5, PendingType
  <2>2. a = Pending.at
    BY <1>5 DEF TypeInv, TypeOK
  <2> QED
    BY <1>1, <2>1, <2>2 DEF Target
<1> QED
  BY <1>2, <1>3, <1>4, <1>5 DEF CutShort

(* A page is written only when something of it is within the slot.         *)
LEMMA PageBeforeEnd ==
    ASSUME Careful, TypeInv, PlaceInv, call.at = "page", NEW h \in Handles, h = call.h
    PROVE  \/ file[h].cursor < SlotSize
           \/ file[h].cursor = SlotSize /\ PageOffset(file[h].cursor) > 0
<1> DEFINE f == file[h]
<1>1. f.mode = "write" /\ InItsSlot(f)
  BY DEF PlaceInv, CallInv, FilesInv, InItsSlot
<1>2. f.cursor \in Nat /\ f.off \in 0 .. PageBlocks /\ f.off > 0 /\ call.n \in Nat
  BY FileFields, CallFields DEF TypeInv, PlaceInv, CallInv
<1>3. CASE call.op = "write"
  <2>1. Chunk(f)
    BY <1>1, <1>3 DEF PlaceInv, FilesInv, InChunk
  <2> QED
    BY <1>2, <2>1, Constants DEF Chunk
<1>4. CASE call.op # "write"
  <2>1. Settled(f)
    BY <1>1, <1>4 DEF PlaceInv, FilesInv, InChunk
  <2>2. f.cursor < SlotSize \/ PageOffset(f.cursor) > 0
    BY <1>2, <2>1 DEF Settled
  <2> QED
    BY <1>1, <1>2, <2>2, Constants DEF InItsSlot
<1> QED
  BY <1>3, <1>4

(* The target of a write is in the pages of a slot the call in flight is   *)
(* about.                                                                  *)
LEMMA TargetConcerns ==
    ASSUME Careful, TypeInv, PlaceInv, call.at \in Writing, NEW a \in Target
    PROVE  \/ a = ConfigBlock /\ call.op \in {"init", "format"}
           \/ \E slot \in Slots : Concerns(slot) /\ a \in PagesOf(slot)
<1>a. \A slot \in Slots : SlotBlocks(slot) \subseteq PagesOf(slot)
  BY DEF PagesOf
<1>1. CASE call.at = "config"
  <2>1. Pending.at = ConfigBlock /\ Len(Pending.blocks) = 1
    BY <1>1, PendingType DEF Pending
  <2>2. a = ConfigBlock
    BY <2>1 DEF Target, ConfigBlock
  <2> QED
    BY <1>1, <2>2 DEF PlaceInv, CallInv
<1>2. call.idx \in {0, 1}
  BY CallFields DEF TypeInv
<1>3. \A t \in Slots : MetaBlock(t, call.idx) \in SlotBlocks(t) /\ MetaBlock(t, call.idx) \in Int
  BY <1>2, Constants DEF SlotBlocks, MetaBlock, Slots
<1>4. CASE call.at \in {"format", "create"}
  <2>1. /\ call.at = "create" => call.op = "open" /\ call.slot \in Slots
        /\ call.at = "format" => call.op \in {"init", "format"} /\ call.slot \in Slots
    BY <1>4 DEF PlaceInv, CallInv
  <2>2. a = MetaBlock(call.slot, call.idx)
    <3>1. Pending.at = MetaBlock(call.slot, call.idx) /\ Len(Pending.blocks) = 1
      BY <1>4, PendingType DEF Pending, Writing
    <3>2. MetaBlock(call.slot, call.idx) \in Int
      BY <1>3, <1>4, <2>1
    <3> QED
      BY <3>1, <3>2 DEF Target
  <2>3. Concerns(call.slot)
    BY <1>4, <2>1 DEF Concerns
  <2> QED
    BY <1>a, <1>3, <1>4, <2>1, <2>2, <2>3
<1>5. CASE call.at \in {"meta", "page"}
  <2>1. PICK h \in Handles : h = call.h
    BY <1>5 DEF TypeInv, CallShape
  <2> DEFINE f == file[h]
  <2>2. f.mode = "write" /\ InItsSlot(f) /\ f.slot \in Slots
    BY <1>5, <2>1 DEF PlaceInv, CallInv, FilesInv, InItsSlot
  <2>3. a \in PagesOf(f.slot)
    <3>1. CASE call.at = "meta"
      <4>1. Pending.at = MetaBlock(f.slot, call.idx) /\ Len(Pending.blocks) = 1
        BY <2>1, <3>1, PendingType DEF Pending, Writing
      <4>2. MetaBlock(f.slot, call.idx) \in Int
        BY <1>3, <2>2
      <4>3. a = MetaBlock(f.slot, call.idx)
        BY <4>1, <4>2 DEF Target
      <4> QED
        BY <1>a, <1>3, <2>2, <4>3
    <3>2. CASE call.at = "page"
      <4>1. f.cursor \in Nat
        BY <2>1, FileFields DEF TypeInv
      <4>2. f.cursor < SlotSize \/ (f.cursor = SlotSize /\ PageOffset(f.cursor) > 0)
        BY <2>1, <3>2, PageBeforeEnd
      <4>3. /\ Pending.at = PageAddress(SlotStart(f.slot), f.cursor)
            /\ Len(Pending.blocks) = PageBlocks
        BY <2>1, <2>2, <3>2, PendingType DEF Pending, InItsSlot, Writing
      <4>4. a \in PageAddress(SlotStart(f.slot), f.cursor)
                      .. PageAddress(SlotStart(f.slot), f.cursor) + PageBlocks - 1
        BY <4>3 DEF Target
      <4> HIDE DEF f
      <4> QED
        BY <2>2, <4>1, <4>2, <4>4, PageInPages
    <3> QED
      BY <1>5, <3>1, <3>2
  <2>4. Concerns(f.slot)
    BY <2>1, <2>2 DEF Concerns, IsOpen
  <2> QED
    BY <2>2, <2>3, <2>4
<1> QED
  BY <1>1, <1>4, <1>5 DEF Writing

(* What these steps leave as it is.                                        *)
LEMMA ReadLoopFrame ==
    ASSUME ReadLoop
    PROVE  call.at = "fetch" /\ UNCHANGED <<disk, mounted, lock_counters, written, acked, seen>>
<1>1. call.at = "fetch" /\ UNCHANGED <<disk, mounted, lock_counters, history>>
  BY Zenon DEF ReadLoop
<1> QED
  BY <1>1 DEF history

LEMMA SyncFrame ==
    ASSUME Sync
    PROVE  call.at = "sync" /\ UNCHANGED <<disk, mounted, lock_counters, written, acked, seen>>
<1>1. call.at = "sync" /\ UNCHANGED <<disk, mounted, lock_counters, history>>
  BY Zenon DEF Sync
<1> QED
  BY <1>1 DEF history

(* A step of the system changes the device by such a write only.           *)
LEMMA DiskSteps ==
    ASSUME [Next]_vars, disk' # disk
    PROVE  /\ call.at \in Writing
           /\ WriteOk \/ disk' \in CutShort \/ (\E kind : WriteFails(kind))
<1>1. CASE Step
  <2>1. CASE FormatConfig \/ FormatMeta \/ CreateMeta \/ WritePage \/ SyncMeta
    BY <2>1 DEF FormatConfig, FormatMeta, CreateMeta, WritePage, SyncMeta, Writing
  <2>2. CASE WriteLoop \/ Advance
    <3>1. WriteLoop => UNCHANGED <<disk, mounted, lock_counters, faults, history>>
      BY Zenon DEF WriteLoop
    <3>2. Advance => UNCHANGED <<disk, mounted, lock_counters, rc, faults, acked, seen>>
      BY Zenon DEF Advance
    <3> QED
      BY <2>2, <3>1, <3>2
  <2> QED
    BY <1>1, <2>1, <2>2, SyncFrame, ReadLoopFrame DEF Step
<1>2. CASE Call
  BY <1>2 DEF Call, SfsInit, SfsFormat, SfsDeinit, OpenRead, OpenWrite, Write, Flush,
              Close, Allocate, Seek, Read
<1>3. CASE PowerLoss
  BY <1>3 DEF PowerLoss, Writing
<1>4. CASE UNCHANGED vars
  BY <1>4 DEF vars
<1> QED
  BY <1>1, <1>2, <1>3, <1>4 DEF Next

(* A step changes a block only in a call about a slot whose pages hold it. *)
THEOREM PagesStep ==
    ASSUME Careful, TypeInv, PlaceInv, [Next]_vars,
           NEW a \in Addresses, disk'[a] # disk[a]
    PROVE  \/ a = ConfigBlock /\ call.op \in {"init", "format"}
           \/ \E slot \in Slots : Concerns(slot) /\ a \in PagesOf(slot)
<1>1. a \in Target
  BY DiskSteps, WriteInTarget
<1> QED
  BY <1>1, DiskSteps, TargetConcerns

(* However slots and pages divide the device, and whatever fails or is cut *)
(* short: a block changes only in a call about a slot whose pages cover    *)
(* it.  The page at a slot's end, written whole (slotfs.cpp:304, :336), is *)
(* all that reaches behind the slot, by less than a page, and no metadata  *)
(* of other slots is ever hit.                                             *)
THEOREM WritesAreBounded ==
    ASSUME Careful
    PROVE  Spec => WritesStayInPages
<1>1. Init => TypeInv /\ PlaceInv
  BY TypeInit, PlaceInit
<1>2. TypeInv /\ PlaceInv /\ [Next]_vars => (TypeInv /\ PlaceInv)'
  BY TypeStep, PlaceStep
<1>3. TypeInv /\ PlaceInv /\ [Next]_vars =>
          [\A a \in Addresses : disk'[a] # disk[a] =>
              \/ a = ConfigBlock /\ call.op \in {"init", "format"}
              \/ \E slot \in Slots : Concerns(slot) /\ a \in PagesOf(slot)]_vars
  BY PagesStep
<1> QED
  BY <1>1, <1>2, <1>3, PTL DEF Spec, WritesStayInPages

(* With slots of whole pages, or a single slot, what changes in a slot is  *)
(* changed by a call about it.                                             *)
LEMMA IsolatedStep ==
    ASSUME Careful, SlotSize % PageBlocks = 0 \/ SlotCount = 1,
           TypeInv, PlaceInv, [Next]_vars, NEW slot \in Slots,
           \E a \in SlotBlocks(slot) : disk'[a] # disk[a]
    PROVE  Concerns(slot)
<1>1. PICK a \in SlotBlocks(slot) : disk'[a] # disk[a]
  OBVIOUS
<1>2. a \in Addresses /\ a # ConfigBlock
  <2>1. \A idx \in {0, 1} : MetaBlock(slot, idx) \in Nat /\ 0 < MetaBlock(slot, idx)
        /\ SlotStart(slot) \in Nat /\ SlotMax(slot) \in Nat /\ 0 < SlotStart(slot)
    BY MetaBeforeData, Constants DEF Slots
  <2>2. a # ConfigBlock
    BY <2>1 DEF SlotBlocks, ConfigBlock
  <2> QED
    BY <2>2, BlocksOnDevice, Constants DEF Addresses
<1>3. PICK s \in Slots : Concerns(s) /\ a \in PagesOf(s)
  BY <1>1, <1>2, PagesStep
<1>4. s = slot
  BY <1>3, PagesApart
<1> QED
  BY <1>3, <1>4

(* "N equal size slots" (slotfs.h:126) keep apart if pages divide them,    *)
(* which the code does not ask for, or if there is one slot only.          *)
THEOREM Isolation ==
    ASSUME Careful, SlotSize % PageBlocks = 0 \/ SlotCount = 1
    PROVE  Spec => SlotsAreIsolated
<1>1. Init => TypeInv /\ PlaceInv
  BY TypeInit, PlaceInit
<1>2. TypeInv /\ PlaceInv /\ [Next]_vars => (TypeInv /\ PlaceInv)'
  BY TypeStep, PlaceStep
<1>3. TypeInv /\ PlaceInv /\ [Next]_vars =>
          [\A slot \in Slots :
              (\E a \in SlotBlocks(slot) : disk'[a] # disk[a]) => Concerns(slot)]_vars
  BY IsolatedStep
<1> QED
  BY <1>1, <1>2, <1>3, PTL DEF Spec, SlotsAreIsolated

=============================================================================
