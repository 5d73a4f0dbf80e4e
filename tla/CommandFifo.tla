------------------------------ MODULE CommandFifo ------------------------------
(***************************************************************************)
(* What CommandQueueT promises to one calling thread, without contexts,    *)
(* reference counts, numbers in queues or a clock: a fifo of commands and  *)
(* a set of delayed ones, from which the worker takes them one at a time.  *)
(* A command is refused only when Size of them are in use, and one that is *)
(* not refused is called, put back or skipped, and skipped only when it    *)
(* was cancelled.                                                          *)
(***************************************************************************)
EXTENDS Naturals, Sequences, FiniteSets

CONSTANTS Calls,  \* what is asked of the queue
          Size    \* commands it can hold

VARIABLES asked,      \* by call: "none", "now", "later", "interval" or "refused"
          cancelled,  \* calls for which cancel was asked
          fifo,       \* calls to be called at once
          delayed,    \* calls to be called later
          taken,      \* the call the worker has, or Nothing
          called      \* by call: how often its function was called

fifoVars == <<asked, cancelled, fifo, delayed, taken, called>>

Nothing == [call |-> 0, done |-> FALSE]

InUse == Len(fifo) + Cardinality(delayed) + (IF taken = Nothing THEN 0 ELSE 1)

FifoInit == /\ asked = [k \in Calls |-> "none"] /\ cancelled = {}
            /\ fifo = <<>> /\ delayed = {} /\ taken = Nothing
            /\ called = [k \in Calls |-> 0]

Accept(k, kind) ==
    /\ asked[k] = "none" /\ InUse < Size
    /\ asked' = [asked EXCEPT ![k] = kind]
    /\ IF kind = "now" THEN fifo' = Append(fifo, k) /\ UNCHANGED delayed
                       ELSE delayed' = delayed \cup {k} /\ UNCHANGED fifo
    /\ UNCHANGED <<cancelled, taken, called>>

Refuse(k) ==
    /\ asked[k] = "none" /\ InUse >= Size
    /\ asked' = [asked EXCEPT ![k] = "refused"]
    /\ UNCHANGED <<cancelled, fifo, delayed, taken, called>>

(* Asked while the answer to the call may still be out.                    *)
Cancel == /\ cancelled \subseteq cancelled' /\ cancelled' \subseteq Calls
          /\ UNCHANGED <<asked, fifo, delayed, taken, called>>

(* A delayed command is due.                                               *)
Promote(k) ==
    /\ k \in delayed
    /\ delayed' = delayed \ {k} /\ fifo' = Append(fifo, k)
    /\ UNCHANGED <<asked, cancelled, taken, called>>

Take == /\ taken = Nothing /\ fifo # <<>>
        /\ taken' = [call |-> Head(fifo), done |-> FALSE]
        /\ fifo' = Tail(fifo)
        /\ UNCHANGED <<asked, cancelled, delayed, called>>

Skip == /\ taken.call \in cancelled /\ ~taken.done
        /\ taken' = Nothing
        /\ UNCHANGED <<asked, cancelled, fifo, delayed, called>>

Call == /\ taken # Nothing /\ ~taken.done
        /\ called' = [called EXCEPT ![taken.call] = @ + 1]
        /\ taken' = [taken EXCEPT !.done = TRUE]
        /\ UNCHANGED <<asked, cancelled, fifo, delayed>>

(* An interval command goes back among the delayed ones.                   *)
Finish == /\ taken.done
          /\ delayed' = IF asked[taken.call] = "interval" THEN delayed \cup {taken.call}
                        ELSE delayed
          /\ taken' = Nothing
          /\ UNCHANGED <<asked, cancelled, fifo, called>>

FifoNext ==
    \/ \E k \in Calls : \/ Refuse(k) \/ Promote(k)
                        \/ \E kind \in {"now", "later", "interval"} : Accept(k, kind)
    \/ Cancel \/ Take \/ Skip \/ Call \/ Finish

FifoSpec == FifoInit /\ [][FifoNext]_fifoVars

=============================================================================
