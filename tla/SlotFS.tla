------------------------------- MODULE SlotFS -------------------------------
(***************************************************************************)
(* lib_slotfs: a file system of fixed slots on a block device, one file    *)
(* per slot.  One thread calls it; every device write is a step of its own *)
(* that may succeed, fail or be cut short by a power loss, so an API call  *)
(* is an in-flight record `call' that its steps carry forward.             *)
(*                                                                         *)
(* Data is counted in blocks: an element of Data is what an application    *)
(* puts in one block.  A block write is atomic for data; a metadata block  *)
(* carries a CRC because its write may be torn.                            *)
(***************************************************************************)
EXTENDS SlotLayout, Sequences, FiniteSets, SequencesExt

CONSTANTS Handles,     \* the SlotFS::File objects of the application
          NoHandle,    \* no file: the call works on the file system
          Data,        \* contents of a data block
          Blank,       \* a block never written
          Garbled,     \* a block whose CRC does not match
          Config,      \* the configuration block of this file system
          NoFile,      \* no content is promised for, or found in, a slot
          RevMod,      \* 2^8: MetaDataBlock.revision is a uint8_t
          Faults,      \* what may go wrong: "data", "meta", "read", "power"
          Careful,     \* the application respects ClientMay* below
          MaxWrite,    \* bound: blocks in one sfs_file_write
          FlushLimit,  \* bound: no explicit flush at this revision or later
          MaxFaults    \* bound: failed device operations and power faults

(* struct MetaDataBlock.                                                   *)
Meta == [start : Nat, max : Nat, size : Nat, rev : 0 .. RevMod - 1]

ASSUME SlotFSAssumption ==
    /\ NoHandle \notin Handles
    /\ IsFiniteSet(Handles)
    /\ \A b \in Data \cup {Blank, Garbled, Config} : b \notin Meta
    /\ RevMod \in Nat \ {0, 1, 2}
    /\ Faults \subseteq {"data", "meta", "read", "power"}
    /\ Careful \in BOOLEAN
    /\ NoFile \notin Seq(Data \cup {Blank, Garbled, Config} \cup Meta)
    /\ MaxWrite \in Nat \ {0}
    /\ FlushLimit \in Nat
    /\ MaxFaults \in Nat

VARIABLES disk,           \* the block device
          mounted,        \* sfs_init has succeeded
          lock_counters,  \* SlotFS::lock_counters
          file,           \* the SlotFS::File of every handle
          call,           \* the API call in flight
          rc,             \* the Result of the last call
          faults,         \* failed device operations and power faults so far
          written,        \* history: blocks the writer of a slot was told are written
          acked,          \* history: content a successful flush promised for a slot
          seen            \* history: content of a reader's file when it was opened

vars == <<disk, mounted, lock_counters, file, call, rc, faults, written, acked, seen>>
history == <<written, acked, seen>>

-----------------------------------------------------------------------------
(* Blocks.  The device is one page longer than the file system, so that a  *)
(* page written past end_address has somewhere to land.                    *)

Block == Data \cup {Blank, Garbled, Config} \cup Meta

Addresses == 0 .. EndBlock + PageBlocks - 1

(* Lock counters and metadata of slot SlotCount exist too: sfs_file_open   *)
(* lets that number through.                                               *)
SlotNumbers == 0 .. SlotCount

FreshMeta(slot, rev) ==
    [start |-> SlotStart(slot), max |-> SlotMax(slot), size |-> 0, rev |-> rev]

ZeroMeta == [start |-> 0, max |-> 0, size |-> 0, rev |-> 0]

ValidIdx(slot) == {idx \in {0, 1} : disk[MetaBlock(slot, idx)] \in Meta}

Fault(kind) == kind \in Faults /\ faults < MaxFaults /\ faults' = faults + 1

(* What read_meta_data_block returns: a failing read hides a block.        *)
ReadsAs(slot, readable) ==
    \/ readable = ValidIdx(slot) /\ UNCHANGED faults
    \/ readable # ValidIdx(slot) /\ Fault("read")

Abs(n) == IF n < 0 THEN -n ELSE n

(* lock_counters is an array of int8_t.                                    *)
Int8(n) == ((n + 128) % 256) - 128

(* most_recent_meta_data_block on revisions: is A the current one?         *)
IsCurrentA(a, b) == IF Abs(a - b) > 1 THEN a < b ELSE a >= b

MostRecentIdx(slot, readable) ==
    IF readable = {0, 1}
    THEN IF IsCurrentA(disk[MetaBlock(slot, 0)].rev, disk[MetaBlock(slot, 1)].rev)
         THEN 0 ELSE 1
    ELSE IF 0 \in readable THEN 0 ELSE 1

(* A bug the checks must see: the most recent block is written over.       *)
MutOtherIdxSame(slot, readable) == MostRecentIdx(slot, readable)

(* The block an update goes to: never the most recent one.                 *)
OtherIdx(slot, readable) == (MostRecentIdx(slot, readable) + 1) % 2

ReadMeta(slot, readable) == disk[MetaBlock(slot, MostRecentIdx(slot, readable))]

(* Data areas at the end of the device are read as Blank beyond it.        *)
Content(md) == [i \in 1 .. md.size |-> IF md.start + i - 1 \in Addresses
                                       THEN disk[md.start + i - 1] ELSE Blank]

-----------------------------------------------------------------------------
ClosedFile == [mode |-> "closed", slot |-> 0, md |-> ZeroMeta, cursor |-> 0,
               page |-> [i \in 1 .. PageBlocks |-> Blank], off |-> 0, failed |-> FALSE]

OpenedFile(slot, mode, md) ==
    [ClosedFile EXCEPT !.mode = mode, !.slot = slot, !.md = md]

Idle == [op |-> "none", at |-> "idle", h |-> NoHandle, slot |-> 0, idx |-> 0,
         n |-> 0, rest |-> <<>>]

Start(op, at, h) == [Idle EXCEPT !.op = op, !.at = at, !.h = h]

Return(result) == call' = Idle /\ rc' = result

Ready == mounted /\ call = Idle

(* The device write the call in flight is about to make.                   *)
Pending ==
    LET f == file[call.h] IN
    IF call.at = "config" THEN [at |-> ConfigBlock, blocks |-> <<Config>>]
    ELSE IF call.at = "page"
    THEN [at |-> PageAddress(f.md.start, f.cursor), blocks |-> f.page]
    ELSE IF call.at = "meta"
    THEN [at |-> MetaBlock(f.slot, call.idx), blocks |-> <<f.md>>]
    ELSE [at |-> MetaBlock(call.slot, call.idx),
          blocks |-> <<FreshMeta(call.slot, IF call.at = "format" THEN 0 ELSE 1)>>]

(* The device after the first n blocks of a write.                         *)
Stored(w, n) == [a \in Addresses |-> IF a \in w.at .. w.at + n - 1
                                     THEN w.blocks[a - w.at + 1] ELSE disk[a]]

WriteOk == disk' = Stored(Pending, Len(Pending.blocks)) /\ UNCHANGED faults

WriteFails(kind) == Fault(kind) /\ UNCHANGED disk

-----------------------------------------------------------------------------
(* sfs_init, sfs_format, sfs_deinit                                        *)

NoneOpen == \A h \in Handles : file[h].mode = "closed"

Init == /\ disk = [a \in Addresses |-> Blank]
        /\ mounted = FALSE
        /\ lock_counters = [s \in SlotNumbers |-> 0]
        /\ file = [h \in Handles |-> ClosedFile]
        /\ call = Idle
        /\ rc = "Success"
        /\ faults = 0
        /\ written = [s \in SlotNumbers |-> <<>>]
        /\ acked = [s \in SlotNumbers |-> NoFile]
        /\ seen = [h \in Handles |-> <<>>]

(* A careful application closes its files before sfs_format and            *)
(* sfs_deinit, which do not ask.                                           *)
ClientMayUnmount == Careful => NoneOpen

(* A device with another configuration is formatted.                       *)
SfsInit ==
    /\ ~mounted /\ call = Idle
    /\ lock_counters' = [s \in SlotNumbers |-> 0]
    /\ \/ Fault("read") /\ rc' = "ErrorRead" /\ UNCHANGED <<mounted, call, acked>>
       \/ /\ disk[ConfigBlock] = Config
          /\ mounted' = TRUE
          /\ rc' = "Success"
          /\ UNCHANGED <<call, acked, faults>>
       \/ /\ disk[ConfigBlock] # Config
          /\ call' = Start("init", "config", NoHandle)
          /\ acked' = [s \in SlotNumbers |-> NoFile]
          /\ UNCHANGED <<mounted, rc, faults>>
    /\ UNCHANGED <<disk, file, written, seen>>

SfsFormat ==
    /\ Ready /\ ClientMayUnmount
    /\ call' = Start("format", "config", NoHandle)
    /\ acked' = [s \in SlotNumbers |-> NoFile]
    /\ UNCHANGED <<disk, mounted, lock_counters, file, rc, faults, written, seen>>

FormatConfig ==
    /\ call.at = "config"
    /\ \/ WriteOk /\ call' = [call EXCEPT !.at = "format"] /\ UNCHANGED rc
       \/ WriteFails("meta") /\ Return("ErrorWrite")
    /\ UNCHANGED <<mounted, lock_counters, file, history>>

(* The result of writing a slot's metadata is ignored.                     *)
FormatMeta ==
    /\ call.at = "format"
    /\ WriteOk \/ WriteFails("meta")
    /\ \/ call.idx = 0 /\ call' = [call EXCEPT !.idx = 1] /\ UNCHANGED <<mounted, rc>>
       \/ /\ call.idx = 1 /\ call.slot + 1 < SlotCount
          /\ call' = [call EXCEPT !.idx = 0, !.slot = @ + 1]
          /\ UNCHANGED <<mounted, rc>>
       \/ call.idx = 1 /\ call.slot + 1 = SlotCount /\ mounted' = TRUE /\ Return("Success")
    /\ UNCHANGED <<lock_counters, file, history>>

SfsDeinit ==
    /\ Ready /\ ClientMayUnmount
    /\ mounted' = FALSE
    /\ rc' = "Success"
    /\ UNCHANGED <<disk, lock_counters, file, call, faults, history>>

-----------------------------------------------------------------------------
(* What a careful application does not do although the code lets it: write *)
(* through a file opened for reading, or again after a write failed; move  *)
(* the end of a file that has content, or to the middle of a page; use     *)
(* slot number SlotCount.                                                  *)

ClientSlots == IF Careful THEN Slots ELSE SlotNumbers

ClientMayWrite(h) == Careful => file[h].mode = "write" /\ ~file[h].failed

ClientMayAllocate(h, size) ==
    Careful => /\ file[h].cursor = 0 /\ file[h].off = 0
               /\ PageOffset(size) = 0 /\ size <= SlotSize

-----------------------------------------------------------------------------
(* sfs_file_open                                                           *)

OpenRead(h, slot) ==
    /\ Ready /\ file[h].mode = "closed"
    /\ \E readable \in SUBSET ValidIdx(slot) :
          LET md == ReadMeta(slot, readable) IN
          /\ ReadsAs(slot, readable)
          /\ \/ /\ readable # {} /\ md.rev # 0
                /\ file' = [file EXCEPT ![h] = OpenedFile(slot, "read", md)]
                /\ lock_counters' = [lock_counters EXCEPT ![slot] = Int8(@ + 1)]
                /\ seen' = [seen EXCEPT ![h] = Content(md)]
                /\ rc' = "Success"
             \/ /\ readable # {} /\ md.rev = 0
                /\ rc' = "ErrorFileNotFound"
                /\ UNCHANGED <<file, lock_counters, seen>>
             \/ /\ readable = {}
                /\ rc' = "ErrorCorruptData"
                /\ UNCHANGED <<file, lock_counters, seen>>
    /\ UNCHANGED <<disk, mounted, call, written, acked>>

(* A bug the checks must see: readers do not keep a writer out.            *)
MutUnlocked(slot) == lock_counters[slot] <= 1

Unlocked(slot) == lock_counters[slot] = 0

(* Mode_WriteCreate starts the file over: both metadata blocks are         *)
(* rewritten.  An open slot is refused.                                    *)
OpenWrite(h, slot) ==
    /\ Ready /\ file[h].mode = "closed"
    /\ \/ ~Unlocked(slot) /\ rc' = "ErrorAssert" /\ UNCHANGED <<call, acked>>
       \/ /\ Unlocked(slot)
          /\ call' = [Start("open", "create", h) EXCEPT !.slot = slot]
          /\ acked' = [acked EXCEPT ![slot] = NoFile]
          /\ UNCHANGED rc
    /\ UNCHANGED <<disk, mounted, lock_counters, file, faults, written, seen>>

CreateMeta ==
    /\ call.at = "create"
    /\ \/ /\ WriteOk /\ call.idx = 0
          /\ call' = [call EXCEPT !.idx = 1]
          /\ UNCHANGED <<lock_counters, file, rc, written, acked>>
       \/ /\ WriteOk /\ call.idx = 1
          /\ file' = [file EXCEPT ![call.h] =
                          OpenedFile(call.slot, "write", FreshMeta(call.slot, 1))]
          /\ lock_counters' = [lock_counters EXCEPT ![call.slot] = Int8(@ + 1)]
          /\ written' = [written EXCEPT ![call.slot] = <<>>]
          /\ acked' = [acked EXCEPT ![call.slot] = <<>>]
          /\ Return("Success")
       \/ /\ WriteFails("meta")
          /\ Return("ErrorWrite")
          /\ UNCHANGED <<lock_counters, file, written, acked>>
    /\ UNCHANGED <<mounted, seen>>

-----------------------------------------------------------------------------
(* sfs_file_write: fill the page; a full page goes to the device, is       *)
(* cleared and the metadata is brought up to the cursor BEFORE this chunk. *)

FileSpace(f) == f.md.max - f.md.start - f.cursor

(* A bug the checks must see: one block too many fits.                     *)
MutFits(f, n) == n <= FileSpace(f) + 1

(* remaining_file_space is a uint64_t: below zero it is huge.              *)
Fits(f, n) == FileSpace(f) < 0 \/ n <= FileSpace(f)

Write(h, blocks) ==
    /\ Ready /\ file[h].mode # "closed" /\ ClientMayWrite(h)
    /\ call' = [Start("write", "loop", h) EXCEPT !.rest = blocks]
    /\ UNCHANGED <<disk, mounted, lock_counters, file, rc, faults, history>>

WriteLoop ==
    /\ call.at = "loop"
    /\ LET h == call.h
           f == file[h]
           avail == PageBlocks - f.off
           n == IF Len(call.rest) < avail THEN Len(call.rest) ELSE avail
       IN
       \/ call.rest = <<>> /\ Return("Success") /\ UNCHANGED file
       \/ /\ call.rest # <<>> /\ ~Fits(f, Len(call.rest))
          /\ Return("ErrorWrite") /\ UNCHANGED file
       \/ /\ call.rest # <<>> /\ Fits(f, Len(call.rest))
          /\ file' = [file EXCEPT
                 ![h].page = [i \in 1 .. PageBlocks |-> IF i \in f.off + 1 .. f.off + n
                                                       THEN call.rest[i - f.off] ELSE @[i]],
                 ![h].off = f.off + n]
          /\ call' = [call EXCEPT !.n = n,
                                  !.at = IF f.off + n = PageBlocks THEN "page" ELSE "advance"]
          /\ UNCHANGED rc
    /\ UNCHANGED <<disk, mounted, lock_counters, faults, history>>

(* BlockPage::clear: what is in the page counts no more.                   *)
Cleared(f) == [f EXCEPT !.off = 0]

(* The page goes to the device, in sfs_file_write (which clears it) and in *)
(* sfs_file_flush (which keeps it).  sfs_file_flush does nothing for a     *)
(* file not opened for writing, and sfs_file_write ignores that.           *)
WritePage ==
    /\ call.at = "page"
    /\ \/ /\ WriteOk /\ call.op = "write"
          /\ file' = [file EXCEPT ![call.h] = Cleared(@)]
          /\ call' = [call EXCEPT !.at = IF file[call.h].mode = "write"
                                         THEN "sync" ELSE "advance"]
          /\ UNCHANGED rc
       \/ /\ WriteOk /\ call.op # "write"
          /\ call' = [call EXCEPT !.at = "sync"]
          /\ UNCHANGED <<file, rc>>
       \/ /\ WriteFails("data")
          /\ file' = [file EXCEPT ![call.h].failed = @ \/ call.op = "write"]
          /\ Return("ErrorWrite")
    /\ UNCHANGED <<mounted, lock_counters, history>>

(* The cursor moves after the page write.                                  *)
Advance ==
    /\ call.at = "advance"
    /\ LET h == call.h
           f == file[h]
           n == call.n
       IN
       /\ file' = [file EXCEPT ![h].cursor = @ + n]
       /\ written' = IF f.mode = "write"
                     THEN [written EXCEPT ![f.slot] = @ \o SubSeq(call.rest, 1, n)]
                     ELSE written
       /\ call' = [call EXCEPT !.at = "loop", !.n = 0,
                               !.rest = SubSeq(@, n + 1, Len(@))]
    /\ UNCHANGED <<disk, mounted, lock_counters, rc, faults, acked, seen>>

-----------------------------------------------------------------------------
(* sfs_file_flush, and sfs_file_allocate and sfs_file_close that end in it *)

(* A bug the checks must see: a page that is not full is never written.    *)
MutFlushPoint(h) == "sync"

(* A page with something in it is written before the metadata.             *)
FlushPoint(h) == IF file[h].off > 0 THEN "page" ELSE "sync"

Flush(h) ==
    /\ Ready /\ file[h].mode = "write"
    /\ file[h].md.rev < FlushLimit
    /\ call' = Start("flush", FlushPoint(h), h)
    /\ UNCHANGED <<disk, mounted, lock_counters, file, rc, faults, history>>

(* The cursor is put where the file is to end; pending data is dropped.    *)
Allocate(h, size) ==
    /\ Ready /\ file[h].mode = "write" /\ ClientMayAllocate(h, size)
    /\ file[h].md.rev < FlushLimit
    /\ file' = [file EXCEPT ![h] = [Cleared(@) EXCEPT !.cursor = size]]
    /\ call' = Start("allocate", "sync", h)
    /\ written' = [written EXCEPT ![file[h].slot] =
                       Content([file[h].md EXCEPT !.size = size])]
    /\ UNCHANGED <<disk, mounted, lock_counters, rc, faults, acked, seen>>

(* A file opened for reading is closed without touching the device.        *)
Close(h) ==
    /\ Ready /\ file[h].mode # "closed"
    /\ \/ /\ file[h].mode = "write"
          /\ call' = Start("close", FlushPoint(h), h)
          /\ UNCHANGED <<file, lock_counters, rc, seen>>
       \/ /\ file[h].mode = "read"
          /\ lock_counters' = [lock_counters EXCEPT ![file[h].slot] = Int8(@ - 1)]
          /\ file' = [file EXCEPT ![h] = ClosedFile]
          /\ seen' = [seen EXCEPT ![h] = <<>>]
          /\ rc' = "Success"
          /\ UNCHANGED call
    /\ UNCHANGED <<disk, mounted, faults, written, acked>>

(* The file's metadata moves to the cursor and to the next revision in     *)
(* memory, before it is known whether it can be stored; the block that is  *)
(* not the most recent one is to be overwritten.                           *)
Sync ==
    /\ call.at = "sync"
    /\ LET h == call.h IN
       /\ file' = [file EXCEPT ![h].md.size = file[h].cursor,
                               ![h].md.rev = (@ + 1) % RevMod]
       /\ \E readable \in SUBSET ValidIdx(file[h].slot) :
          /\ ReadsAs(file[h].slot, readable)
          /\ \/ /\ readable # {}
                /\ call' = [call EXCEPT !.at = "meta",
                                !.idx = OtherIdx(file[h].slot, readable)]
                /\ UNCHANGED rc
             \/ readable = {} /\ call.op # "write" /\ Return("ErrorCorruptData")
             \/ readable = {} /\ call.op = "write"
                /\ call' = [call EXCEPT !.at = "advance"] /\ UNCHANGED rc
    /\ UNCHANGED <<disk, mounted, lock_counters, history>>

(* The result of the write is dropped: sfs_file_flush answers Success.     *)
SyncMeta ==
    /\ call.at = "meta"
    /\ WriteOk \/ WriteFails("meta")
    /\ LET h == call.h
           slot == file[h].slot
       IN
       \/ /\ call.op = "write"
          /\ call' = [call EXCEPT !.at = "advance"]
          /\ UNCHANGED <<lock_counters, file, rc, acked>>
       \/ /\ call.op \in {"flush", "allocate"}
          /\ acked' = [acked EXCEPT ![slot] = written[slot]]
          /\ Return("Success")
          /\ UNCHANGED <<lock_counters, file>>
       \/ /\ call.op = "close"
          /\ lock_counters' = [lock_counters EXCEPT ![slot] = Int8(@ - 1)]
          /\ file' = [file EXCEPT ![h] = ClosedFile]
          /\ acked' = [acked EXCEPT ![slot] = written[slot]]
          /\ Return("Success")
    /\ UNCHANGED <<mounted, written, seen>>

-----------------------------------------------------------------------------
(* sfs_file_seek, sfs_file_read                                            *)

Seek(h, offset) ==
    /\ Ready /\ file[h].mode = "read" /\ offset < file[h].md.size
    /\ file' = [file EXCEPT ![h] = [Cleared(@) EXCEPT !.cursor = offset]]
    /\ rc' = "Success"
    /\ UNCHANGED <<disk, mounted, lock_counters, call, faults, history>>

Read(h, n) ==
    /\ Ready /\ file[h].mode = "read"
    /\ call' = [Start("read", "fetch", h) EXCEPT !.n = n]
    /\ UNCHANGED <<disk, mounted, lock_counters, file, rc, faults, history>>

(* A bug the checks must see: one turn too many at the end of the file.    *)
MutAtEnd(f) == f.cursor > f.md.size

AtEnd(f) == f.cursor >= f.md.size

(* One turn of the loop: load the page when none is loaded or it is used   *)
(* up, then copy what it, the file and the request have in common.         *)
ReadLoop ==
    /\ call.at = "fetch"
    /\ LET h == call.h
           f == file[h]
           load == f.off = 0 \/ f.off = PageBlocks
           at == PageAddress(f.md.start, f.cursor)
           off == IF load THEN PageOffset(f.cursor) ELSE f.off
           n == CHOOSE k \in {call.n, f.md.size - f.cursor, PageBlocks - off} :
                    k <= call.n /\ k <= f.md.size - f.cursor /\ k <= PageBlocks - off
           page == IF load THEN [i \in 1 .. PageBlocks |-> disk[at + i - 1]] ELSE f.page
       IN
       \/ call.n = 0 /\ Return("Success") /\ UNCHANGED <<file, faults>>
       \/ /\ call.n > 0 /\ AtEnd(f)
          /\ Return("SuccessEof") /\ UNCHANGED <<file, faults>>
       \/ /\ call.n > 0 /\ ~AtEnd(f)
          /\ load
          /\ \/ Fault("read")
             \/ at + PageBlocks - 1 \notin Addresses /\ UNCHANGED faults
          /\ Return("ErrorRead") /\ UNCHANGED file
       \/ /\ call.n > 0 /\ ~AtEnd(f)
          /\ load => at + PageBlocks - 1 \in Addresses
          /\ file' = [file EXCEPT ![h].page = page, ![h].off = off + n, ![h].cursor = @ + n]
          /\ call' = [call EXCEPT !.n = @ - n,
                                  !.rest = @ \o SubSeq(page, off + 1, off + n)]
          /\ UNCHANGED <<rc, faults>>
    /\ UNCHANGED <<disk, mounted, lock_counters, history>>

-----------------------------------------------------------------------------
(* Power loss: what is in memory is gone.  Of the write in flight any      *)
(* number of leading blocks was stored; a metadata block may be garbled.   *)

CutShort ==
    {Stored(Pending, n) : n \in 0 .. Len(Pending.blocks) - 1}
      \cup (IF call.at = "page" THEN {} ELSE {[disk EXCEPT ![Pending.at] = Garbled]})

PowerLoss ==
    /\ Fault("power")
    /\ IF call.at \in {"config", "format", "create", "meta", "page"}
       THEN disk' \in CutShort ELSE UNCHANGED disk
    /\ mounted' = FALSE
    /\ lock_counters' = [s \in SlotNumbers |-> 0]
    /\ file' = [h \in Handles |-> ClosedFile]
    /\ seen' = [h \in Handles |-> <<>>]
    /\ call' = Idle
    /\ rc' = "Success"
    /\ UNCHANGED <<written, acked>>

-----------------------------------------------------------------------------
Requests == UNION {[1 .. n -> Data] : n \in 1 .. MaxWrite}

(* A call of the application.                                              *)
Call == \/ SfsInit \/ SfsFormat \/ SfsDeinit
        \/ \E h \in Handles :
             \/ \E slot \in ClientSlots : OpenRead(h, slot) \/ OpenWrite(h, slot)
             \/ \E blocks \in Requests : Write(h, blocks)
             \/ Flush(h) \/ Close(h)
             \/ \E size \in 0 .. SlotSize + 1 : Allocate(h, size)
             \/ \E offset \in 0 .. SlotSize : Seek(h, offset)
             \/ \E n \in 1 .. SlotSize : Read(h, n)

(* A step of the call in flight.                                           *)
Step == \/ FormatConfig \/ FormatMeta \/ CreateMeta
        \/ WriteLoop \/ WritePage \/ Advance
        \/ Sync \/ SyncMeta \/ ReadLoop

Next == Call \/ Step \/ PowerLoss

Spec == Init /\ [][Next]_vars

(* The thread that makes a call runs it to its end.                        *)
FairSpec == Spec /\ WF_vars(Step)

-----------------------------------------------------------------------------
(* Properties                                                              *)

CallPoints == {"idle", "config", "format", "create", "loop", "page", "sync", "meta",
               "advance", "fetch"}

FileType == [mode : {"closed", "read", "write"}, slot : SlotNumbers, md : Meta,
             cursor : Nat, page : [1 .. PageBlocks -> Block],
             off : 0 .. PageBlocks, failed : BOOLEAN]

CallType == [op : {"none", "init", "format", "open", "write", "flush", "allocate",
                   "close", "read"},
             at : CallPoints, h : Handles \cup {NoHandle}, slot : SlotNumbers,
             idx : {0, 1}, n : Nat, rest : Seq(Block)]

(* The variables have the shape the code's types give them.                *)
TypeOK ==
    /\ disk \in [Addresses -> Block]
    /\ mounted \in BOOLEAN
    /\ lock_counters \in [SlotNumbers -> (-128) .. 127]
    /\ file \in [Handles -> FileType]
    /\ call \in CallType
    /\ faults \in 0 .. MaxFaults

IsOpen(h) == file[h].mode # "closed"

(* What a new sfs_init, open for reading and read to the end would find.   *)
OnDisk(slot) ==
    IF ValidIdx(slot) = {} \/ ReadMeta(slot, ValidIdx(slot)).rev = 0
    THEN NoFile
    ELSE Content(ReadMeta(slot, ValidIdx(slot)))

(* sfs_file_flush, slotfs.h:198: "All pending data is written and the      *)
(* metadatablock updated", and slotfs.h:128: a power loss loses no more    *)
(* than the last update.  At every moment the device holds what the last   *)
(* successful flush or close covered, and no block that was not written.   *)
FlushedIsDurable ==
    \A slot \in Slots :
        acked[slot] # NoFile =>
            /\ OnDisk(slot) # NoFile
            /\ IsPrefix(acked[slot], OnDisk(slot))
            /\ IsPrefix(OnDisk(slot), written[slot])

(* slotfs.h:137: "every read increases the counter for a slot. Only for    *)
(* readers=0 can a file we opened for writing": the counter of a slot is   *)
(* the number of its open files, and no two of them write.  (The counter   *)
(* is an int8_t: it is so as long as there are no more than 127 files.)    *)
LocksCountOpenFiles ==
    \A slot \in SlotNumbers :
        /\ lock_counters[slot] = Cardinality({h \in Handles : IsOpen(h) /\ file[h].slot = slot})
        /\ \A g, h \in Handles :
              file[g].mode = "write" /\ file[h].mode = "write" /\ file[g].slot = file[h].slot
                  => g = h

(* A file open for reading keeps the content it was opened with, whatever  *)
(* is written through other files, the same slot's included.               *)
ReadersKeepTheirContent ==
    \A h \in Handles : file[h].mode = "read" => Content(file[h].md) = seen[h]

(* sfs_file_read delivers the file's blocks in order from the cursor,      *)
(* across page loads, partial reads and seeks.                             *)
ReadsAreExact ==
    call.op = "read" =>
        call.rest = SubSeq(seen[call.h], file[call.h].cursor - Len(call.rest) + 1,
                           file[call.h].cursor)

Concerns(slot) ==
    \/ call.op \in {"init", "format"}
    \/ call.op = "open" /\ call.slot = slot
    \/ call.h \in Handles /\ IsOpen(call.h) /\ file[call.h].slot = slot

(* Whatever the sizes of slots and pages, and whatever of a write reaches  *)
(* the device: a block changes only in a call about a slot whose pages     *)
(* cover it.  What a page that is written whole can hit behind its slot is *)
(* less than a page, and never anybody's metadata.                         *)
WritesStayInPages ==
    [][\A a \in Addresses : disk'[a] # disk[a] =>
          \/ a = ConfigBlock /\ call.op \in {"init", "format"}
          \/ \E slot \in Slots : Concerns(slot) /\ a \in PagesOf(slot)]_vars

(* A slot's metadata and data change only in a call about that slot        *)
(* (slotfs.h:126, "N equal size slots"; slotfs.h:70, max_address).  That   *)
(* is so if slots are whole numbers of pages, and not otherwise: the page  *)
(* at the end of a slot is written whole (slotfs.cpp:304, :336).           *)
SlotsAreIsolated ==
    [][\A slot \in Slots :
          (\E a \in SlotBlocks(slot) : disk'[a] # disk[a]) => Concerns(slot)]_vars

(* An update of a file's metadata leaves the most recent valid block of    *)
(* the slot as it is (slotfs.h:127-128, A/B redundancy), unless the file   *)
(* is being created.                                                       *)
MostRecentSurvives ==
    [][\A slot \in Slots :
          ValidIdx(slot) # {} /\ call.op \notin {"init", "format", "open"} =>
              LET a == MetaBlock(slot, MostRecentIdx(slot, ValidIdx(slot)))
              IN disk'[a] = disk[a]]_vars

(* "The block with the most current revision is the active one"            *)
(* (slotfs.h:65): a metadata block that an update has stored is the one    *)
(* found from then on.                                                     *)
StoredIsCurrent ==
    [][\A h \in Handles, slot \in Slots, idx \in {0, 1} :
          call.at = "meta" /\ call.h = h /\ call.idx = idx /\ mounted'
          /\ file[h].slot = slot /\ disk'[MetaBlock(slot, idx)] = file[h].md
              => MostRecentIdx(slot, ValidIdx(slot))' = idx]_vars

(* Whatever device operation fails, what is found of a file that was       *)
(* created are its first blocks: an update that fails leaves the one       *)
(* before it (slotfs.h:128, "the previous version of the MetaBlock can be  *)
(* recovered").                                                            *)
FoundIsWritten ==
    \A slot \in Slots :
        acked[slot] # NoFile =>
            OnDisk(slot) # NoFile /\ IsPrefix(OnDisk(slot), written[slot])

(* Every call that is begun returns: the loops of sfs_file_write and       *)
(* sfs_file_read end, also after a device error.                           *)
CallsReturn == call # Idle ~> call = Idle

-----------------------------------------------------------------------------
(* SlotFS implements SlotStore: slot by slot its content is OnDisk, and a  *)
(* slot is renewed from OpenWrite or a format until that call ends.        *)
Renewing == IF call.op \in {"init", "format"} THEN Slots
            ELSE IF call.op = "open" THEN {call.slot} \cap Slots ELSE {}

Store == INSTANCE SlotStore WITH
             content <- [slot \in Slots |-> OnDisk(slot)],
             renewed <- Renewing

ImplementsSlotStore == Store!StoreSpec

=============================================================================
