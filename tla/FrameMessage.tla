----------------------------- MODULE FrameMessage -----------------------------
(***************************************************************************)
(* lib_message's FrameMessageBuilder and get_frame_message_data.  Every    *)
(* feature has its place in the buffer; finish closes the gaps of those    *)
(* that were not added.  The buffer is counted in units of 4 bytes, of     *)
(* which the header and every feature are multiples.                       *)
(***************************************************************************)
EXTENDS Naturals, Sequences

CONSTANTS Data,        \* what a feature can contain
          BufferSize,  \* of m_buffer, 128
          MaxSize      \* bound: the size up to which features are added

(* all_feature_sizes, in the order of the feature ids: meta data,          *)
(* timestamp, low noise, high range, extreme range, barometer,             *)
(* magnetometer, fusion, battery.                                          *)
feature_sizes == <<2, 2, 6, 6, 3, 2, 3, 4, 1>>

Features == DOMAIN feature_sizes

HeaderSize == 1

(* FrameMessageOffset.                                                     *)
Offset[f \in Features] ==
    IF f = 1 THEN HeaderSize ELSE Offset[f - 1] + feature_sizes[f - 1]

ASSUME FrameAssumption ==
    /\ MaxSize \in Nat /\ BufferSize \in Nat
    /\ \A f \in Features : Offset[f] + feature_sizes[f] <= BufferSize

VARIABLES mask,      \* m_feature_mask
          size,      \* m_size
          buffer,    \* m_buffer
          finished,  \* m_finished
          latest     \* history: what was added of a feature, a set of one

frameVars == <<mask, size, buffer, finished, latest>>

Zero == <<>>

(* The units of a feature with the content d.                              *)
Units(f, d) == [k \in 1 .. feature_sizes[f] |-> <<f, d, k>>]

FrameInit == /\ mask = {} /\ size = HeaderSize /\ finished = FALSE
             /\ buffer = [i \in 1 .. BufferSize |-> Zero]
             /\ latest = [f \in Features |-> {}]

-----------------------------------------------------------------------------
(* Nothing is added after finish.  A feature may be added again.           *)
Add(f, d) ==
    /\ ~finished /\ size + feature_sizes[f] <= MaxSize
    /\ mask' = mask \cup {f}
    /\ size' = size + feature_sizes[f]
    /\ buffer' = [i \in 1 .. BufferSize |->
                     IF i - Offset[f] \in 1 .. feature_sizes[f]
                     THEN Units(f, d)[i - Offset[f]] ELSE buffer[i]]
    /\ latest' = [latest EXCEPT ![f] = {d}]
    /\ UNCHANGED finished

(* A bug the checks must see: only as much is moved as the gap is long.    *)
MutMoved(b, to, from) ==
    [i \in 1 .. BufferSize |-> IF i \in to + 1 .. from THEN b[i + from - to] ELSE b[i]]

(* memmove of everything behind the offset `from'.                         *)
Moved(b, to, from) ==
    [i \in 1 .. BufferSize |->
        IF i \in to + 1 .. BufferSize - (from - to) THEN b[i + from - to] ELSE b[i]]

Compacting(acc, f) ==
    IF f \in mask THEN [acc EXCEPT !.at = @ + feature_sizes[f]]
    ELSE [acc EXCEPT !.buffer = Moved(@, acc.at, acc.at + feature_sizes[f])]

Compacted ==
    LET after[f \in 0 .. Len(feature_sizes)] ==
            IF f = 0 THEN [at |-> HeaderSize, buffer |-> buffer]
            ELSE Compacting(after[f - 1], f)
    IN  after[Len(feature_sizes)].buffer

Finish ==
    /\ ~finished
    /\ buffer' = [Compacted EXCEPT ![1] = <<mask, size>>]
    /\ finished' = TRUE
    /\ UNCHANGED <<mask, size, latest>>

ClearMessage ==
    /\ mask' = {} /\ size' = HeaderSize /\ finished' = FALSE
    /\ buffer' = [i \in 1 .. BufferSize |-> Zero]
    /\ latest' = [f \in Features |-> {}]

FrameNext == Finish \/ ClearMessage \/ \E f \in Features, d \in Data : Add(f, d)

FrameSpec == FrameInit /\ [][FrameNext]_frameVars

-----------------------------------------------------------------------------
(* get_frame_message_data in a message of n units: where the feature is.   *)
Place(msg, feature) ==
    LET buffer_ptr[f \in Features] ==
            IF f = 1 THEN HeaderSize
            ELSE buffer_ptr[f - 1] + (IF f - 1 \in msg[1][1] THEN feature_sizes[f - 1] ELSE 0)
    IN  buffer_ptr[feature]

Get(msg, n, f) ==
    IF f \in msg[1][1] /\ Place(msg, f) < n
    THEN {SubSeq(msg, Place(msg, f) + 1, Place(msg, f) + feature_sizes[f])} ELSE {}

(* The message that is sent has what was added last of every feature, in   *)
(* whatever order and however often it was added, and no feature that was  *)
(* not (message_frame.t.cpp:63-80).  A feature added again is counted      *)
(* again in the size (message_frame.h:213): what the message is longer     *)
(* than its features is nothing that a reader looks at.                    *)
ReadsBack ==
    finished => \A f \in Features :
        /\ Get(buffer, size, f) = {Units(f, d) : d \in latest[f]}
        /\ latest[f] # {} => Place(buffer, f) + feature_sizes[f] <= size

=============================================================================
