------------------------------ MODULE SlotStore ------------------------------
(***************************************************************************)
(* What SlotFS promises about its slots across power losses, without       *)
(* blocks, pages or revisions: content[s] is what a reader would find in   *)
(* slot s if the device lost power now.  While a slot is created anew      *)
(* nothing is promised of it - an older content may even come back -, but  *)
(* from then on it only ever grows at its end.                             *)
(***************************************************************************)
EXTENDS Sequences, SequencesExt

CONSTANTS Slots, NoFile

VARIABLES content,   \* per slot, NoFile or a sequence of blocks
          renewed    \* the slots that are being created anew

StoreInit == content = [s \in Slots |-> NoFile] /\ renewed = {}

(* The application starts one slot over, or formats them all.              *)
Renew == renewed = {} /\ UNCHANGED content /\ renewed' \in SUBSET Slots

Grown(old, new) == old # NoFile /\ new # NoFile /\ IsPrefix(old, new)

(* Settled slots keep what they have or grow, one at a time.               *)
Change ==
    /\ renewed' \in {renewed, {}}
    /\ \/ \A s \in Slots \ renewed : content'[s] = content[s]
       \/ \E s \in Slots \ renewed :
             /\ Grown(content[s], content'[s])
             /\ content' = [content EXCEPT ![s] = content'[s]]

StoreSpec == StoreInit /\ [][Renew \/ Change]_<<content, renewed>>

=============================================================================
