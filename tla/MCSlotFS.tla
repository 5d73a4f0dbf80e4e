------------------------------ MODULE MCSlotFS ------------------------------
(* Small instances of SlotFS for TLC.                                      *)
EXTENDS SlotFS, TLC

Interchangeable == Permutations(Handles)

=============================================================================
