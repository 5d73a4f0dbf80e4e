----------------------------- MODULE SlotLayout -----------------------------
(***************************************************************************)
(* Where lib_slotfs puts things on a block device, counted in blocks of    *)
(* kBlockSize bytes from Config.start_address: one configuration block,    *)
(* two metadata blocks (A/B) for every slot, then SlotCount data areas of  *)
(* equal size.  A BlockPage is PageBlocks consecutive blocks.              *)
(***************************************************************************)
EXTENDS Integers

CONSTANTS SlotCount,   \* Config.slot_count
          EndBlock,    \* Config.end_address, in blocks
          PageBlocks   \* blocks of a BlockPage (4 in sfs_file_open)

DataStart == 1 + 2 * SlotCount

SlotSize == (EndBlock - DataStart) \div SlotCount

(* Every slot has room for at least one block, and every slot number one   *)
(* of the kMaxSlots = 128 lock counters.                                   *)
ASSUME LayoutAssumption ==
    /\ SlotCount \in 1 .. 127
    /\ PageBlocks \in Nat \ {0}
    /\ EndBlock \in Nat
    /\ SlotSize \in Nat \ {0}

Slots == 0 .. SlotCount - 1

ConfigBlock == 0

(* The address of metadata block idx (0 = A, 1 = B) of a slot. *)
MetaBlock(slot, idx) == 2 * slot + 1 + idx

SlotStart(slot) == DataStart + SlotSize * slot

SlotMax(slot) == SlotStart(slot) + SlotSize

(* A bug the checks must see: the page begins at the cursor.               *)
MutPageAddress(start, cursor) == start + cursor

(* page_block_address: the page that holds a cursor, and the place in it.  *)
PageAddress(start, cursor) == start + (cursor \div PageBlocks) * PageBlocks

(* A bug the checks must see: reading starts at the head of the page.      *)
MutPageOffset(cursor) == 0

PageOffset(cursor) == cursor % PageBlocks

(* The blocks of one slot: its two metadata blocks and its data area. *)
SlotBlocks(slot) == {MetaBlock(slot, 0), MetaBlock(slot, 1)}
                        \cup (SlotStart(slot) .. SlotMax(slot) - 1)

(* What the pages of a slot cover: its blocks and, if they are no whole    *)
(* number of pages, what lies behind them up to the end of the last page.  *)
PagesOf(slot) ==
    LET last == ((SlotSize - 1) \div PageBlocks) * PageBlocks IN
    SlotBlocks(slot) \cup (SlotStart(slot) .. SlotStart(slot) + last + PageBlocks - 1)

=============================================================================
