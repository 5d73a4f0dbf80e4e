--------------------------- MODULE SequentialBuffer ---------------------------
(***************************************************************************)
(* lib_util/sequential_buffer.h: a ring of bytes between one producer and  *)
(* one consumer thread, with a watermark event the consumer may wait for.  *)
(* What a method does under its lock is one step; what it reads without    *)
(* the lock (the free count in write, the size in request_read) is a step  *)
(* of its own, before it.                                                  *)
(***************************************************************************)
EXTENDS Integers, Sequences

CONSTANTS Capacity,   \* the size given to the constructor
          Bytes,      \* byte values
          Unwritten,  \* a byte of the fresh, uninitialized array
          Watermark,  \* set_watermark, called before the threads start
          Drains,     \* the consumer waits only after a read that found nothing
          MaxWrite    \* bound: bytes of one write

ASSUME BufferAssumption ==
    /\ Capacity \in Nat \ {0}
    /\ Unwritten \notin Bytes
    /\ Watermark \in Nat
    /\ Drains \in BOOLEAN
    /\ MaxWrite \in Nat

VARIABLES data,       \* m_data
          read_ptr,   \* m_read_ptr, counted from m_data
          write_ptr,  \* m_write_ptr
          m_free,     \* m_free
          event,      \* m_watermark_event
          producer,   \* where the producer is, and the chunk it writes
          consumer    \* where the consumer is, the bytes it was granted, and
                      \* whether its last read found nothing

bufferVars == <<data, read_ptr, write_ptr, m_free, event, producer, consumer>>
ring == <<data, read_ptr, write_ptr, m_free>>

Positions == 0 .. Capacity - 1

Size == Capacity - m_free

(* A pointer that reaches m_data_end continues at m_data.                  *)
Wrapped(p) == IF p >= Capacity THEN p - Capacity ELSE p

(* How many bytes lie from position p to position a, round the end.        *)
RingDistance(p, a) == IF a >= p THEN a - p ELSE a - p + Capacity

BufferInit == /\ data = [p \in Positions |-> Unwritten]
              /\ read_ptr = 0 /\ write_ptr = 0
              /\ m_free = Capacity
              /\ event = FALSE
              /\ producer = [at |-> "idle", chunk |-> <<>>]
              /\ consumer = [at |-> "idle", granted |-> 0, drained |-> FALSE]

-----------------------------------------------------------------------------
(* The producer: write                                                     *)

(* A bug the checks must see: one byte too many is accepted.               *)
MutRefused(n) == n = 0 \/ m_free + 1 < n

(* Tested before the lock is taken.                                        *)
Refused(n) == n = 0 \/ m_free < n

Write(chunk) ==
    /\ producer.at = "idle"
    /\ \/ Refused(Len(chunk)) /\ event' = TRUE /\ UNCHANGED producer
       \/ /\ ~Refused(Len(chunk))
          /\ producer' = [at |-> "copy", chunk |-> chunk]
          /\ UNCHANGED event
    /\ UNCHANGED <<ring, consumer>>

(* A bug the checks must see: the watermark itself does not count.         *)
MutReached(n) == n > Watermark

Reached(n) == n >= Watermark

(* The writer in front of the reader goes round the end; behind it, it     *)
(* copies straight on.                                                     *)
Copy ==
    /\ producer.at = "copy"
    /\ LET chunk == producer.chunk
           n == Len(chunk)
       IN
       /\ data' = [p \in Positions |->
                      IF RingDistance(write_ptr, p) < n
                      THEN chunk[RingDistance(write_ptr, p) + 1] ELSE data[p]]
       /\ \/ write_ptr >= read_ptr /\ write_ptr' = Wrapped(write_ptr + n)
          \/ write_ptr < read_ptr /\ write_ptr' = write_ptr + n
       /\ m_free' = m_free - n
       /\ event' = (event \/ Reached(Size + n))
    /\ producer' = [at |-> "idle", chunk |-> <<>>]
    /\ UNCHANGED <<read_ptr, consumer>>

-----------------------------------------------------------------------------
(* The consumer: request_read and commit_read                              *)

RequestNow ==
    /\ consumer.at = "idle"
    /\ consumer' = [consumer EXCEPT !.at = "lock"]
    /\ UNCHANGED <<ring, event, producer>>

RequestWait ==
    /\ consumer.at = "idle" /\ consumer.granted = 0
    /\ Drains => consumer.drained
    /\ consumer' = [consumer EXCEPT !.at = "wait"]
    /\ UNCHANGED <<ring, event, producer>>

(* EventFlagStatus::wait_for takes the flag it waited for.                 *)
WaitOk ==
    /\ consumer.at = "wait" /\ event
    /\ event' = FALSE
    /\ consumer' = [consumer EXCEPT !.at = "lock"]
    /\ UNCHANGED <<ring, producer>>

TimedOut ==
    /\ consumer.at = "wait" /\ ~event
    /\ consumer' = [consumer EXCEPT !.at = "check"]
    /\ UNCHANGED <<ring, event, producer>>

(* After a timeout the size is read without the lock.                      *)
CheckSize ==
    /\ consumer.at = "check"
    /\ consumer' = [consumer EXCEPT !.at = IF Size = 0 THEN "idle" ELSE "lock"]
    /\ UNCHANGED <<ring, event, producer>>

(* A bug the checks must see: an empty buffer is taken for a full one.     *)
MutAvailable ==
    IF read_ptr < write_ptr THEN write_ptr - read_ptr ELSE Capacity - read_ptr

(* A bug the checks must see: a full buffer is taken for an empty one.     *)
MutAvailableFull ==
    IF read_ptr <= write_ptr THEN write_ptr - read_ptr
    ELSE IF Size > 0 THEN Capacity - read_ptr ELSE 0

(* Up to the writer, or to the end of the array if it went round.          *)
Available ==
    IF read_ptr < write_ptr THEN write_ptr - read_ptr
    ELSE IF Size > 0 THEN Capacity - read_ptr ELSE 0

HandOut ==
    /\ consumer.at = "lock"
    /\ consumer' = [at |-> "idle", granted |-> Available, drained |-> Available = 0]
    /\ UNCHANGED <<ring, event, producer>>

(* The consumer commits no more than it was handed out.                    *)
CommitRead(n) ==
    /\ consumer.at = "idle" /\ n <= consumer.granted
    /\ read_ptr' = Wrapped(read_ptr + n)
    /\ m_free' = m_free + n
    /\ consumer' = [consumer EXCEPT !.granted = @ - n]
    /\ UNCHANGED <<data, write_ptr, event, producer>>

(* clear, while the consumer holds no bytes.                               *)
Clear ==
    /\ consumer.at = "idle" /\ consumer.granted = 0
    /\ read_ptr' = 0 /\ write_ptr' = 0
    /\ m_free' = Capacity
    /\ UNCHANGED <<data, event, producer, consumer>>

-----------------------------------------------------------------------------
Chunks == UNION {[1 .. n -> Bytes] : n \in 0 .. MaxWrite}

BufferNext == \/ \E chunk \in Chunks : Write(chunk)
              \/ Copy
              \/ RequestNow \/ RequestWait \/ WaitOk \/ TimedOut \/ CheckSize \/ HandOut
              \/ \E n \in 1 .. Capacity : CommitRead(n)
              \/ Clear

BufferSpec == BufferInit /\ [][BufferNext]_bufferVars

(* The consumer keeps reading: it finishes the calls it makes, asks when   *)
(* it holds nothing and commits what it holds.                             *)
Reading == \/ consumer.granted = 0 /\ RequestNow
           \/ WaitOk \/ TimedOut \/ CheckSize \/ HandOut
           \/ CommitRead(consumer.granted) /\ consumer.granted > 0

FairSpec == BufferSpec /\ WF_bufferVars(Reading)

-----------------------------------------------------------------------------
(* Properties                                                              *)

(* The variables have the shape the code's types give them; pointers stay  *)
(* in the array.                                                           *)
TypeOK ==
    /\ data \in [Positions -> Bytes \cup {Unwritten}]
    /\ read_ptr \in Positions /\ write_ptr \in Positions
    /\ m_free \in Int
    /\ event \in BOOLEAN
    /\ producer \in [at : {"idle", "copy"}, chunk : Seq(Bytes)]
    /\ consumer \in [at : {"idle", "wait", "check", "lock"}, granted : Nat,
                     drained : BOOLEAN]

(* The assertions of size (line 96) and write (line 145), and what the     *)
(* memory safety of both sides rests on: the free count the producer read  *)
(* without the lock still covers its chunk when it copies, and the bytes   *)
(* handed out are there.                                                   *)
AssertionsHold ==
    /\ 0 <= m_free /\ m_free <= Capacity
    /\ producer.at = "copy" =>
           /\ Len(producer.chunk) <= m_free
           /\ write_ptr < read_ptr => write_ptr + Len(producer.chunk) <= read_ptr
    /\ consumer.granted <= Size /\ read_ptr + consumer.granted <= Capacity

(* request_read "optionally waits for reached watermark" (line 39): the    *)
(* consumer does not sleep while the watermark is reached.                 *)
NoSleepOnWatermark ==
    consumer.at = "wait" /\ ~event => Size = 0 \/ Size < Watermark

(* What is in the buffer is handed out, if the consumer keeps reading and  *)
(* the buffer is not cleared.                                              *)
WrittenIsRead == Size > 0 ~> consumer.granted > 0 \/ Size = 0

-----------------------------------------------------------------------------
(* SequentialBuffer implements ByteFifo: the queue starts at the read      *)
(* pointer and goes round the end.                                         *)
Contents == [i \in 1 .. Size |-> data[Wrapped(read_ptr + i - 1)]]

View == [i \in 1 .. consumer.granted |-> data[read_ptr + i - 1]]

Fifo == INSTANCE ByteFifo WITH queue <- Contents, view <- View

ImplementsByteFifo == Fifo!FifoSpec

=============================================================================
