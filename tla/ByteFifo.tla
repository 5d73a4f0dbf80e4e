------------------------------- MODULE ByteFifo -------------------------------
(***************************************************************************)
(* What SequentialBufferT promises, without pointers, free counts or       *)
(* locks: a queue of bytes.  The consumer is shown a beginning of it (its  *)
(* view) and takes bytes off; what it was shown stays as it is.            *)
(***************************************************************************)
EXTENDS Integers, Sequences, SequencesExt

CONSTANT Bytes

VARIABLES queue,  \* the bytes written and not yet committed
          view    \* the bytes the consumer may look at

Drop(s, n) == SubSeq(s, n + 1, Len(s))

FifoInit == queue = <<>> /\ view = <<>>

(* Bytes are put behind the others.                                        *)
Put == /\ IsPrefix(queue, queue') /\ queue' \in Seq(Bytes)
       /\ UNCHANGED view

(* Reads are idempotent: asking again shows the same bytes, or more.       *)
Look == /\ UNCHANGED queue
        /\ IsPrefix(view, view') /\ IsPrefix(view', queue)
        /\ queue # <<>> => view' # <<>>

Take == \E n \in 1 .. Len(view) : queue' = Drop(queue, n) /\ view' = Drop(view, n)

Forget == view = <<>> /\ queue' = <<>> /\ UNCHANGED view

FifoSpec == FifoInit /\ [][Put \/ Look \/ Take \/ Forget]_<<queue, view>>

=============================================================================
