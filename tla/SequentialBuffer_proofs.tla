----------------------- MODULE SequentialBuffer_proofs -----------------------
(***************************************************************************)
(* Proofs about SequentialBuffer for every capacity, watermark, set of     *)
(* bytes and length of writes.                                             *)
(***************************************************************************)
EXTENDS SequentialBuffer, SequenceTheorems, TLAPS

-----------------------------------------------------------------------------
(* The inductive invariant: the writer is Size bytes ahead of the reader,  *)
(* all of them written, and the free count covers the chunk in flight.     *)

Written == \A i \in 1 .. Size : data[Wrapped(read_ptr + i - 1)] \in Bytes

RingInv ==
    /\ TypeOK
    /\ m_free \in 0 .. Capacity
    /\ write_ptr = Wrapped(read_ptr + Size)
    /\ Written
    /\ producer.at = "copy" => Len(producer.chunk) > 0 /\ Len(producer.chunk) <= m_free
    /\ consumer.granted <= Size /\ read_ptr + consumer.granted <= Capacity

LEMMA CapacityType == Capacity \in Nat /\ Capacity > 0
BY BufferAssumption

LEMMA RingFields ==
    ASSUME RingInv
    PROVE  /\ read_ptr \in 0 .. Capacity - 1 /\ write_ptr \in 0 .. Capacity - 1
           /\ m_free \in 0 .. Capacity /\ Size \in 0 .. Capacity
           /\ producer.chunk \in Seq(Bytes) /\ Len(producer.chunk) \in Nat
           /\ consumer.granted \in Nat
           /\ producer.at \in {"idle", "copy"}
           /\ consumer.at \in {"idle", "wait", "check", "lock"}
           /\ consumer.drained \in BOOLEAN
<1>1. producer.chunk \in Seq(Bytes)
  BY DEF RingInv, TypeOK
<1> QED
  BY <1>1, CapacityType DEF RingInv, TypeOK, Positions, Size

(* Going round the end of the array.                                       *)
LEMMA WrappedType ==
    ASSUME NEW p \in 0 .. 2 * Capacity - 1
    PROVE  Wrapped(p) \in Positions
BY CapacityType DEF Wrapped, Positions

LEMMA RingInit == BufferInit => RingInv
<1> SUFFICES ASSUME BufferInit PROVE RingInv
  OBVIOUS
<1>1. Size = 0 /\ Wrapped(0) = 0
  BY CapacityType DEF BufferInit, Size, Wrapped
<1>2. TypeOK
  <2>1. data \in [Positions -> Bytes \cup {Unwritten}]
    BY DEF BufferInit
  <2>2. producer \in [at : {"idle", "copy"}, chunk : Seq(Bytes)]
    BY DEF BufferInit
  <2> QED
    BY <2>1, <2>2, CapacityType DEF BufferInit, TypeOK, Positions
<1> QED
  BY <1>1, <1>2, CapacityType DEF BufferInit, RingInv, Written

(* The chunk is refused, or what the producer read covers it until it      *)
(* copies.                                                                 *)
LEMMA RingWrite ==
    ASSUME RingInv, NEW chunk \in Chunks, Write(chunk)
    PROVE  RingInv'
<1>1. chunk \in Seq(Bytes) /\ Len(chunk) \in Nat
  BY BufferAssumption DEF Chunks
<1>2. m_free' = m_free /\ Size' = Size /\ Written'
  BY DEF Write, ring, Size, RingInv, Written
<1>3. producer' \in [at : {"idle", "copy"}, chunk : Seq(Bytes)]
  BY <1>1 DEF Write, RingInv, TypeOK
<1>4. producer'.at = "copy" => Len(producer'.chunk) > 0 /\ Len(producer'.chunk) <= m_free
  BY <1>1, CapacityType DEF Write, Refused, RingInv, TypeOK
<1>5. event' \in BOOLEAN
  BY DEF Write, RingInv, TypeOK
<1> QED
  BY <1>2, <1>3, <1>4, <1>5 DEF Write, ring, RingInv, TypeOK

(* Positions and offsets from the writer.                                  *)
LEMMA BehindWriter ==
    ASSUME RingInv, NEW n \in Nat, n <= m_free, NEW i \in 1 .. Size + n
    PROVE  /\ Wrapped(read_ptr + i - 1) \in Positions
           /\ i <= Size => RingDistance(write_ptr, Wrapped(read_ptr + i - 1)) >= n
           /\ i > Size => RingDistance(write_ptr, Wrapped(read_ptr + i - 1)) = i - Size - 1
<1> DEFINE r == read_ptr
           w == write_ptr
           k == Size
           p == Wrapped(r + i - 1)
<1>1. /\ r \in 0 .. Capacity - 1 /\ w \in 0 .. Capacity - 1 /\ k \in 0 .. Capacity
      /\ Capacity \in Nat /\ Capacity > 0 /\ n <= Capacity - k
      /\ w = IF r + k >= Capacity THEN r + k - Capacity ELSE r + k
      /\ p = IF r + i - 1 >= Capacity THEN r + i - 1 - Capacity ELSE r + i - 1
      /\ i \in 1 .. k + n
  BY RingFields, CapacityType DEF RingInv, Wrapped, Size
<1> HIDE DEF r, w, k, p
<1>2. p \in 0 .. Capacity - 1
  BY <1>1
<1>3. i <= k => RingDistance(w, p) >= n
  BY <1>1 DEF RingDistance
<1>4. i > k => RingDistance(w, p) = i - k - 1
  BY <1>1 DEF RingDistance
<1> QED
  BY <1>2, <1>3, <1>4 DEF r, w, k, p, Positions

LEMMA CopyData ==
    ASSUME RingInv, Copy, NEW i \in 1 .. Size + Len(producer.chunk)
    PROVE  data'[Wrapped(read_ptr + i - 1)] =
               IF i <= Size THEN data[Wrapped(read_ptr + i - 1)]
                            ELSE producer.chunk[i - Size]
<1> DEFINE n == Len(producer.chunk)
           p == Wrapped(read_ptr + i - 1)
<1>1. n \in Nat /\ n <= m_free /\ Size \in Nat
  BY RingFields, CapacityType DEF Copy, RingInv
<1>2. /\ p \in Positions
      /\ i <= Size => RingDistance(write_ptr, p) >= n
      /\ i > Size => RingDistance(write_ptr, p) = i - Size - 1
  BY <1>1, BehindWriter
<1>3. data'[p] = IF RingDistance(write_ptr, p) < n
                 THEN producer.chunk[RingDistance(write_ptr, p) + 1] ELSE data[p]
  BY <1>2 DEF Copy
<1> HIDE DEF p, n
<1>4. CASE i <= Size
  <2>1. RingDistance(write_ptr, p) \in Int
    BY <1>2, RingFields, CapacityType DEF RingDistance, Positions
  <2> QED
    BY <1>1, <1>2, <1>3, <1>4, <2>1 DEF p
<1>5. CASE i > Size
  <2>1. RingDistance(write_ptr, p) = i - Size - 1 /\ i - Size - 1 < n /\ i - Size - 1 + 1 = i - Size
    BY <1>1, <1>2, <1>5 DEF n
  <2> QED
    BY <1>1, <1>3, <1>5, <2>1 DEF p
<1> QED
  BY <1>1, <1>4, <1>5

LEMMA RingCopy ==
    ASSUME RingInv, Copy
    PROVE  RingInv'
<1> DEFINE n == Len(producer.chunk)
<1>1. /\ n \in Nat /\ n > 0 /\ n <= m_free
      /\ producer.chunk \in Seq(Bytes)
  BY RingFields DEF Copy, RingInv
<1>2. Size' = Size + n /\ m_free' \in 0 .. Capacity
  <2>1. m_free' = m_free - n
    BY DEF Copy
  <2> HIDE DEF n
  <2> QED
    BY <1>1, <2>1, RingFields, CapacityType DEF Size
<1>3. write_ptr' = Wrapped(read_ptr + Size + n) /\ write_ptr' \in Positions
  <2> DEFINE r == read_ptr
             w == write_ptr
             k == Size
  <2>1. /\ r \in 0 .. Capacity - 1 /\ w \in 0 .. Capacity - 1 /\ k \in 0 .. Capacity
        /\ Capacity \in Nat /\ Capacity > 0 /\ n <= Capacity - k
        /\ w = IF r + k >= Capacity THEN r + k - Capacity ELSE r + k
    BY <1>1, RingFields, CapacityType DEF RingInv, Wrapped, Size
  <2>2. \/ w >= r /\ write_ptr' = Wrapped(w + n)
        \/ w < r /\ write_ptr' = w + n
    BY DEF Copy
  <2> HIDE DEF r, w, k, n
  <2>3. write_ptr' = Wrapped(r + k + n) /\ write_ptr' \in 0 .. Capacity - 1
    BY <1>1, <2>1, <2>2 DEF Wrapped
  <2> QED
    BY <2>3 DEF r, k, Positions
<1>4. data' \in [Positions -> Bytes \cup {Unwritten}]
  <2> SUFFICES ASSUME NEW p \in Positions
               PROVE  (IF RingDistance(write_ptr, p) < n
                       THEN producer.chunk[RingDistance(write_ptr, p) + 1] ELSE data[p])
                          \in Bytes \cup {Unwritten}
    BY DEF Copy
  <2>1. RingDistance(write_ptr, p) \in Nat
    BY RingFields, CapacityType DEF RingDistance, Positions
  <2>2. CASE RingDistance(write_ptr, p) < n
    BY <1>1, <2>1, <2>2
  <2>3. CASE ~(RingDistance(write_ptr, p) < n)
    BY <2>3 DEF RingInv, TypeOK
  <2> QED
    BY <2>2, <2>3
<1>5. Written'
  <2> SUFFICES ASSUME NEW i \in 1 .. Size + n
               PROVE  data'[Wrapped(read_ptr + i - 1)] \in Bytes
    BY <1>2 DEF Written, Copy
  <2>1. i <= Size => i \in 1 .. Size
    BY RingFields
  <2>2. i > Size => i - Size \in 1 .. n
    BY <1>1, RingFields
  <2>3. CASE i <= Size
    <3>1. data'[Wrapped(read_ptr + i - 1)] = data[Wrapped(read_ptr + i - 1)]
      BY <2>3, CopyData
    <3> QED
      BY <2>1, <2>3, <3>1 DEF RingInv, Written
  <2>4. CASE i > Size
    <3>1. ~(i <= Size)
      BY <2>4, RingFields
    <3>2. data'[Wrapped(read_ptr + i - 1)] = producer.chunk[i - Size]
      BY <3>1, CopyData
    <3> QED
      BY <1>1, <2>2, <2>4, <3>2
  <2> QED
    BY <2>3, <2>4, RingFields
<1>6. /\ producer' = [at |-> "idle", chunk |-> <<>>] /\ UNCHANGED <<read_ptr, consumer>>
      /\ event' \in BOOLEAN
  BY DEF Copy, RingInv, TypeOK
<1>7. TypeOK'
  BY <1>2, <1>3, <1>4, <1>6, CapacityType DEF RingInv, TypeOK
<1>8. read_ptr + Size + n = read_ptr' + Size'
  BY <1>1, <1>2, <1>6, RingFields
<1> QED
  BY <1>1, <1>2, <1>3, <1>5, <1>6, <1>7, <1>8, RingFields DEF RingInv

(* Steps of the consumer that leave the ring and what it holds alone.      *)
ConsumerMoves == RequestNow \/ RequestWait \/ WaitOk \/ TimedOut \/ CheckSize

LEMMA RingMoves ==
    ASSUME RingInv, ConsumerMoves
    PROVE  /\ RingInv'
           /\ UNCHANGED <<data, read_ptr, write_ptr, m_free, producer>>
           /\ consumer'.granted = consumer.granted
           /\ consumer'.drained = consumer.drained
<1>1. UNCHANGED <<data, read_ptr, write_ptr, m_free, producer>> /\ event' \in BOOLEAN
  BY DEF ConsumerMoves, RequestNow, RequestWait, WaitOk, TimedOut, CheckSize, ring,
         RingInv, TypeOK
<1>2. \E a \in {"idle", "wait", "check", "lock"} : consumer' = [consumer EXCEPT !.at = a]
  BY DEF ConsumerMoves, RequestNow, RequestWait, WaitOk, TimedOut, CheckSize
<1>3. /\ consumer' \in [at : {"idle", "wait", "check", "lock"}, granted : Nat, drained : BOOLEAN]
      /\ consumer'.granted = consumer.granted
      /\ consumer'.drained = consumer.drained
  BY <1>2 DEF RingInv, TypeOK
<1>4. Size' = Size /\ Written'
  BY <1>1 DEF Size, Written, RingInv
<1> QED
  BY <1>1, <1>3, <1>4 DEF RingInv, TypeOK

(* What is handed out lies before the writer and before the array's end,   *)
(* is nothing only if there is nothing, and covers what was handed out.    *)
LEMMA AvailableBytes ==
    ASSUME RingInv
    PROVE  /\ Available \in Nat /\ Available <= Size /\ read_ptr + Available <= Capacity
           /\ Available = 0 => Size = 0
           /\ consumer.granted <= Available
<1> DEFINE r == read_ptr
           w == write_ptr
           k == Size
<1>1. /\ r \in 0 .. Capacity - 1 /\ w \in 0 .. Capacity - 1 /\ k \in 0 .. Capacity
      /\ Capacity \in Nat /\ Capacity > 0
      /\ w = IF r + k >= Capacity THEN r + k - Capacity ELSE r + k
      /\ Available = IF r < w THEN w - r ELSE IF k > 0 THEN Capacity - r ELSE 0
      /\ consumer.granted \in Nat /\ consumer.granted <= k /\ r + consumer.granted <= Capacity
  BY RingFields, CapacityType DEF RingInv, Wrapped, Available
<1> HIDE DEF r, w, k
<1> QED
  <2>1. /\ Available \in Nat /\ Available <= k /\ r + Available <= Capacity
        /\ Available = 0 => k = 0
        /\ consumer.granted <= Available
    BY <1>1
  <2> QED
    BY <2>1 DEF r, k

LEMMA RingHandOut ==
    ASSUME RingInv, HandOut
    PROVE  RingInv'
<1>1. UNCHANGED <<data, read_ptr, write_ptr, m_free, producer, event>>
  BY DEF HandOut, ring
<1>2. /\ consumer' \in [at : {"idle", "wait", "check", "lock"}, granted : Nat, drained : BOOLEAN]
      /\ consumer'.granted = Available
  BY AvailableBytes DEF HandOut
<1>3. Size' = Size /\ Written'
  BY <1>1 DEF Size, Written, RingInv
<1> QED
  BY <1>1, <1>2, <1>3, AvailableBytes DEF RingInv, TypeOK

(* What remains after n bytes are committed is what followed them.         *)
LEMMA CommittedRing ==
    ASSUME RingInv, NEW n \in 1 .. Capacity, CommitRead(n)
    PROVE  /\ Size' = Size - n /\ Size' \in Nat /\ read_ptr' \in Positions
           /\ write_ptr = Wrapped(read_ptr' + Size')
           /\ \A i \in 1 .. Size' : Wrapped(read_ptr' + i - 1) = Wrapped(read_ptr + n + i - 1)
           /\ consumer'.granted = consumer.granted - n
           /\ n <= consumer.granted
           /\ consumer'.granted > 0 => read_ptr' = read_ptr + n
<1> DEFINE r == read_ptr
           w == write_ptr
           k == Size
           g == consumer.granted
<1>1. /\ r \in 0 .. Capacity - 1 /\ w \in 0 .. Capacity - 1 /\ k \in 0 .. Capacity
      /\ Capacity \in Nat /\ Capacity > 0
      /\ w = IF r + k >= Capacity THEN r + k - Capacity ELSE r + k
      /\ g \in Nat /\ g <= k /\ r + g <= Capacity /\ n <= g
      /\ read_ptr' = IF r + n >= Capacity THEN r + n - Capacity ELSE r + n
  BY RingFields, CapacityType DEF RingInv, Wrapped, CommitRead
<1>2. k' = k - n /\ g' = g - n
  <2>1. m_free' = m_free + n
    BY DEF CommitRead
  <2>2. consumer'.granted = consumer.granted - n
    BY DEF CommitRead, RingInv, TypeOK
  <2> QED
    BY <2>1, <2>2, RingFields, CapacityType DEF Size
<1> DEFINE q == read_ptr'
           l == k'
           h == g'
<1>3. q = (IF r + n >= Capacity THEN r + n - Capacity ELSE r + n) /\ l = k - n /\ h = g - n
  BY <1>1, <1>2
<1> HIDE DEF r, w, k, g, q, l, h
<1>4. l \in Nat /\ q \in 0 .. Capacity - 1 /\ (h > 0 => q = r + n)
  BY <1>1, <1>3
<1>5. w = Wrapped(q + l)
  BY <1>1, <1>3 DEF Wrapped
<1>6. \A i \in 1 .. l : Wrapped(q + i - 1) = Wrapped(r + n + i - 1)
  BY <1>1, <1>3 DEF Wrapped
<1> QED
  BY <1>1, <1>3, <1>4, <1>5, <1>6 DEF r, w, k, g, q, l, h, Positions

LEMMA RingCommit ==
    ASSUME RingInv, NEW n \in 1 .. Capacity, CommitRead(n)
    PROVE  RingInv'
<1>0. /\ Size' = Size - n /\ Size' \in Nat /\ read_ptr' \in Positions
      /\ write_ptr = Wrapped(read_ptr' + Size')
      /\ \A i \in 1 .. Size' : Wrapped(read_ptr' + i - 1) = Wrapped(read_ptr + n + i - 1)
      /\ consumer'.granted = consumer.granted - n
      /\ n <= consumer.granted
      /\ consumer'.granted > 0 => read_ptr' = read_ptr + n
  BY CommittedRing
<1>1. /\ UNCHANGED <<data, write_ptr, producer, event>>
      /\ m_free' = m_free + n
  BY DEF CommitRead
<1>2. /\ consumer' \in [at : {"idle", "wait", "check", "lock"}, granted : Nat, drained : BOOLEAN]
  <2>1. consumer.granted - n \in Nat
    BY RingFields, CapacityType DEF CommitRead
  <2> QED
    BY <2>1 DEF CommitRead, RingInv, TypeOK
<1>3. m_free' \in 0 .. Capacity /\ Size' = Size - n /\ Size \in Nat
  <2>1. /\ m_free \in 0 .. Capacity /\ Capacity \in Nat
        /\ consumer.granted \in Nat /\ consumer.granted <= Size /\ n <= consumer.granted
    BY <1>0, RingFields, CapacityType DEF RingInv
  <2> QED
    BY <1>0, <1>1, <2>1 DEF Size
<1>4. Written'
  <2> SUFFICES ASSUME NEW i \in 1 .. Size'
               PROVE  data[Wrapped(read_ptr' + i - 1)] \in Bytes
    BY <1>1 DEF Written
  <2>1. /\ Wrapped(read_ptr' + i - 1) = Wrapped(read_ptr + (n + i) - 1)
        /\ n + i \in 1 .. Size
    <3>1. read_ptr + n + i - 1 = read_ptr + (n + i) - 1
      BY RingFields, <1>0
    <3>2. n + i \in 1 .. Size
      BY <1>3
    <3> QED
      BY <3>1, <3>2, <1>0
  <2> QED
    BY <2>1 DEF RingInv, Written
<1>5. producer.at = "copy" => Len(producer.chunk) <= m_free'
  BY <1>1, RingFields DEF RingInv
<1>6. consumer'.granted <= Size' /\ read_ptr' + consumer'.granted <= Capacity
  <2>1. consumer.granted <= Size /\ read_ptr + consumer.granted <= Capacity
    BY DEF RingInv
  <2>2. CASE consumer'.granted > 0
    <3>1. read_ptr \in Int /\ consumer.granted \in Int /\ n \in Int
      BY RingFields, CapacityType
    <3>2. /\ (read_ptr + n) + (consumer.granted - n) <= Capacity
          /\ consumer.granted - n <= Size - n
      BY <2>1, <3>1, <1>3, CapacityType
    <3>3. read_ptr' = read_ptr + n /\ consumer'.granted = consumer.granted - n
      BY <2>2, <1>0
    <3> QED
      BY <3>2, <3>3, <1>3
  <2>3. CASE ~(consumer'.granted > 0)
    <3>1. consumer'.granted = 0
      BY <1>2, <2>3
    <3>2. Size' \in Nat /\ read_ptr' \in 0 .. Capacity - 1
      BY <1>0 DEF Positions
    <3>3. 0 <= Size' /\ read_ptr' <= Capacity /\ read_ptr' \in Nat
      BY <3>2, CapacityType
    <3>4. \A p \in Nat : p + 0 = p
      OBVIOUS
    <3>5. read_ptr' + consumer'.granted = read_ptr'
      BY <3>1, <3>3, <3>4, Zenon
    <3> QED
      BY <3>1, <3>3, <3>5, Zenon
  <2> QED
    BY <2>2, <2>3
<1> QED
  BY <1>1, <1>2, <1>3, <1>4, <1>5, <1>6, <1>0, CapacityType DEF RingInv, TypeOK

LEMMA RingClear ==
    ASSUME RingInv, Clear
    PROVE  RingInv'
<1>1. /\ UNCHANGED <<data, event, producer, consumer>>
      /\ read_ptr' = 0 /\ write_ptr' = 0 /\ m_free' = Capacity /\ consumer.granted = 0
  BY DEF Clear
<1>2. Size' = 0 /\ Wrapped(0) = 0
  BY <1>1, CapacityType DEF Size, Wrapped
<1>3. Written'
  BY <1>2 DEF Written
<1>4. producer.at = "copy" => Len(producer.chunk) > 0 /\ Len(producer.chunk) <= Capacity
  BY RingFields, CapacityType DEF RingInv
<1> QED
  BY <1>1, <1>2, <1>3, <1>4, CapacityType DEF RingInv, TypeOK, Positions

LEMMA RingStep == RingInv /\ [BufferNext]_bufferVars => RingInv'
<1> SUFFICES ASSUME RingInv, [BufferNext]_bufferVars PROVE RingInv'
  OBVIOUS
<1>1. ASSUME NEW chunk \in Chunks, Write(chunk) PROVE RingInv'
  BY <1>1, RingWrite
<1>2. CASE Copy
  BY <1>2, RingCopy
<1>3. CASE ConsumerMoves
  BY <1>3, RingMoves
<1>4. CASE HandOut
  BY <1>4, RingHandOut
<1>5. ASSUME NEW n \in 1 .. Capacity, CommitRead(n) PROVE RingInv'
  BY <1>5, RingCommit
<1>6. CASE Clear
  BY <1>6, RingClear
<1>7. CASE UNCHANGED bufferVars
  BY <1>7 DEF bufferVars, RingInv, TypeOK, Written, Size
<1> QED
  BY <1>1, <1>2, <1>3, <1>4, <1>5, <1>6, <1>7 DEF BufferNext, ConsumerMoves

(* In every reachable state the writer is Size bytes ahead of the reader,  *)
(* every one of them written: whatever the capacity and the interleaving.  *)
THEOREM RingInvariant == BufferSpec => []RingInv
<1> QED
  BY RingInit, RingStep, PTL DEF BufferSpec

(* The variables keep the shape the code's types give them: both pointers  *)
(* stay in the array.                                                      *)
THEOREM BufferTypes == BufferSpec => []TypeOK
<1>1. RingInv => TypeOK
  BY DEF RingInv
<1> QED
  BY <1>1, RingInvariant, PTL

(* The assertions of size and write hold, and the free count that write    *)
(* read before it took the lock covers the chunk when it is copied.        *)
THEOREM BufferAssertions == BufferSpec => []AssertionsHold
<1>1. ASSUME RingInv PROVE AssertionsHold
  <2> DEFINE r == read_ptr
             w == write_ptr
             k == Size
             n == Len(producer.chunk)
  <2>1. /\ r \in 0 .. Capacity - 1 /\ w \in 0 .. Capacity - 1 /\ k \in 0 .. Capacity
        /\ w = (IF r + k >= Capacity THEN r + k - Capacity ELSE r + k)
        /\ m_free = Capacity - k /\ n \in Nat
    BY <1>1, RingFields, CapacityType DEF RingInv, Wrapped, Size
  <2> HIDE DEF r, w, k, n
  <2>2. w < r /\ n <= m_free => w + n <= r
    BY <2>1, CapacityType
  <2> QED
    BY <1>1, <2>2, RingFields DEF RingInv, AssertionsHold, r, w, n
<1> QED
  BY <1>1, RingInvariant, PTL

-----------------------------------------------------------------------------
(* The watermark event: while a consumer that drains the buffer waits,     *)
(* whoever made the buffer reach the watermark has left the event set.     *)

WaitInv ==
    /\ consumer.at = "wait" => consumer.drained
    /\ consumer.drained => consumer.granted = 0
    /\ consumer.at \in {"idle", "wait"} /\ consumer.drained /\ ~event =>
           Size = 0 \/ ~Reached(Size)

LEMMA WaitInit == BufferInit => WaitInv
BY CapacityType DEF BufferInit, WaitInv, Size

LEMMA WaitStep ==
    ASSUME Drains, RingInv, WaitInv, [BufferNext]_bufferVars
    PROVE  WaitInv'
<1>1. ASSUME NEW chunk \in Chunks, Write(chunk) PROVE WaitInv'
  <2>1. UNCHANGED <<m_free, consumer>> /\ (event' = TRUE \/ event' = event)
    BY <1>1 DEF Write, ring
  <2> QED
    BY <2>1 DEF WaitInv, Size, Reached
<1>2. CASE Copy
  <2>1. Size' = Size + Len(producer.chunk) /\ UNCHANGED consumer
    BY <1>2, RingFields, CapacityType DEF Copy, Size
  <2>2. event' = (event \/ Reached(Size + Len(producer.chunk)))
    BY <1>2 DEF Copy
  <2> QED
    BY <2>1, <2>2 DEF WaitInv, Reached
<1>3. CASE ConsumerMoves
  <2>1. /\ UNCHANGED m_free
        /\ consumer'.granted = consumer.granted /\ consumer'.drained = consumer.drained
    BY <1>3, RingMoves
  <2>2. consumer'.at \in {"idle", "wait"} /\ ~event' =>
            ~event /\ (consumer.at = "idle" \/ Size = 0)
    BY <1>3 DEF ConsumerMoves, RequestNow, RequestWait, WaitOk, TimedOut, CheckSize,
                RingInv, TypeOK
  <2>3. consumer'.at = "wait" => consumer.drained
    BY <1>3 DEF ConsumerMoves, RequestNow, RequestWait, WaitOk, TimedOut, CheckSize,
                RingInv, TypeOK
  <2> QED
    BY <2>1, <2>2, <2>3 DEF WaitInv, Size, Reached
<1>4. CASE HandOut
  <2>1. /\ UNCHANGED m_free
        /\ consumer' = [at |-> "idle", granted |-> Available, drained |-> Available = 0]
    BY <1>4 DEF HandOut, ring
  <2>2. Available = 0 => Size = 0
    BY AvailableBytes
  <2> QED
    BY <2>1, <2>2 DEF WaitInv, Size
<1>5. ASSUME NEW n \in 1 .. Capacity, CommitRead(n) PROVE WaitInv'
  <2>1. ~consumer.drained /\ consumer'.at = "idle" /\ consumer'.drained = consumer.drained
    BY <1>5, RingFields DEF CommitRead, WaitInv, RingInv, TypeOK
  <2> QED
    BY <2>1 DEF WaitInv
<1>6. CASE Clear
  <2>1. Size' = 0 /\ UNCHANGED consumer
    BY <1>6, CapacityType DEF Clear, Size
  <2> QED
    BY <2>1 DEF WaitInv
<1>7. CASE UNCHANGED bufferVars
  BY <1>7 DEF bufferVars, WaitInv, Size, Reached
<1> QED
  BY <1>1, <1>2, <1>3, <1>4, <1>5, <1>6, <1>7 DEF BufferNext, ConsumerMoves

(* A consumer that waits only after a read that found nothing never sleeps *)
(* while the watermark is reached.                                         *)
THEOREM NoLostWatermark == ASSUME Drains PROVE BufferSpec => []NoSleepOnWatermark
<1>1. RingInv /\ WaitInv /\ [BufferNext]_bufferVars => WaitInv'
  BY WaitStep
<1>2. RingInv /\ WaitInv => NoSleepOnWatermark
  <2> SUFFICES ASSUME RingInv, WaitInv PROVE NoSleepOnWatermark
    OBVIOUS
  <2> QED
    BY RingFields, CapacityType, BufferAssumption DEF WaitInv, NoSleepOnWatermark, Reached
<1> QED
  BY <1>1, <1>2, WaitInit, RingInvariant, PTL DEF BufferSpec

-----------------------------------------------------------------------------
(* The ring implements the queue of bytes.                                 *)

(* Beginnings and ends of sequences, element by element.                   *)
LEMMA PrefixByElement ==
    ASSUME NEW S, NEW s \in Seq(S), NEW t \in Seq(S), Len(s) <= Len(t),
           \A i \in 1 .. Len(s) : s[i] = t[i]
    PROVE  Fifo!IsPrefix(s, t)
<1>1. SubSeq(s, 1, Len(s)) = s
  BY SubSeqFull
<1>2. SubSeq(t, 1, Len(s)) \in Seq(S) /\ Len(SubSeq(t, 1, Len(s))) = Len(s)
  BY SMT
<1>3. \A i \in 1 .. Len(s) : SubSeq(t, 1, Len(s))[i] = s[i]
  BY SMT
<1>4. SubSeq(t, 1, Len(s)) = s
  BY <1>2, <1>3, SeqEqual
<1> QED
  BY <1>1, <1>4 DEF Fifo!IsPrefix

LEMMA DropByElement ==
    ASSUME NEW S, NEW s \in Seq(S), NEW t \in Seq(S), NEW n \in 0 .. Len(s),
           Len(t) = Len(s) - n, \A i \in 1 .. Len(t) : t[i] = s[n + i]
    PROVE  t = Fifo!Drop(s, n)
<1>1. /\ SubSeq(s, n + 1, Len(s)) \in Seq(S)
      /\ Len(SubSeq(s, n + 1, Len(s))) = Len(t)
  BY SMT
<1>2. \A i \in 1 .. Len(t) : SubSeq(s, n + 1, Len(s))[i] = t[i]
  BY SMT
<1> QED
  BY <1>1, <1>2, SeqEqual DEF Fifo!Drop

(* The queue and the view, element by element.                             *)
QueueFacts ==
    /\ Contents \in Seq(Bytes) /\ Len(Contents) = Size
    /\ View \in Seq(Bytes) /\ Len(View) = consumer.granted
    /\ \A i \in 1 .. Size : Contents[i] = data[Wrapped(read_ptr + i - 1)]
    /\ \A i \in 1 .. consumer.granted : View[i] = Contents[i]

LEMMA ContentsAndView == RingInv => QueueFacts
<1> SUFFICES ASSUME RingInv PROVE QueueFacts
  OBVIOUS
<1>1. Size \in Nat /\ consumer.granted \in Nat /\ consumer.granted <= Size
  BY RingFields, CapacityType DEF RingInv
<1>2. \A i \in 1 .. consumer.granted : Wrapped(read_ptr + i - 1) = read_ptr + i - 1
  BY <1>1, RingFields, CapacityType DEF RingInv, Wrapped
<1>3. Contents \in [1 .. Size -> Bytes]
  BY DEF Contents, RingInv, Written
<1>4. View \in [1 .. consumer.granted -> Bytes]
  BY <1>1, <1>2 DEF View, RingInv, Written
<1>5. \A i \in 1 .. consumer.granted : View[i] = Contents[i]
  BY <1>1, <1>2 DEF View, Contents
<1>6. Contents \in Seq(Bytes) /\ Len(Contents) = Size
  BY <1>1, <1>3, SMT
<1>7. View \in Seq(Bytes) /\ Len(View) = consumer.granted
  BY <1>1, <1>4, SMT
<1> QED
  BY <1>5, <1>6, <1>7 DEF Contents, QueueFacts

LEMMA ContentsAndViewNext == RingInv' => QueueFacts'
BY ContentsAndView, PTL

LEMMA FifoStarts == BufferInit => Fifo!FifoInit
<1> SUFFICES ASSUME BufferInit PROVE Fifo!FifoInit
  OBVIOUS
<1>1. Size = 0 /\ consumer.granted = 0
  BY CapacityType DEF BufferInit, Size
<1>2. RingInv
  BY RingInit
<1> QED
  BY <1>1, <1>2, ContentsAndView, EmptySeq DEF QueueFacts, Fifo!FifoInit

LEMMA CopyPuts ==
    ASSUME RingInv, RingInv', Copy
    PROVE  Fifo!Put
<1> DEFINE n == Len(producer.chunk)
<1>1. Size' = Size + n /\ n \in Nat /\ Size \in Nat /\ UNCHANGED <<read_ptr, consumer>>
  BY RingFields, CapacityType DEF Copy, Size
<1>2. \A i \in 1 .. Size : Contents'[i] = Contents[i]
  <2> TAKE i \in 1 .. Size
  <2>1. i \in 1 .. Size + Len(producer.chunk) /\ i \in 1 .. Size' /\ i <= Size
    BY <1>1
  <2>2. data'[Wrapped(read_ptr + i - 1)] = data[Wrapped(read_ptr + i - 1)]
    BY <2>1, CopyData
  <2> QED
    BY <1>1, <2>1, <2>2 DEF Contents, Wrapped
<1>3. Contents' \in Seq(Bytes) /\ Len(Contents') = Size' /\ View' \in Seq(Bytes)
      /\ Len(View') = consumer.granted
      /\ \A i \in 1 .. consumer.granted : View'[i] = Contents'[i]
  BY <1>1, ContentsAndViewNext DEF QueueFacts
<1>4. Fifo!IsPrefix(Contents, Contents')
  <2>1. Contents \in Seq(Bytes) /\ Len(Contents) = Size
    BY ContentsAndView DEF QueueFacts
  <2>2. Contents' \in Seq(Bytes) /\ Len(Contents) <= Len(Contents')
    BY <1>1, <1>3, <2>1
  <2>3. \A i \in 1 .. Len(Contents) : Contents[i] = Contents'[i]
    BY <1>2, <2>1
  <2> QED
    BY <2>1, <2>2, <2>3, PrefixByElement
<1>5. View' = View
  <2>1. consumer.granted \in Nat /\ consumer.granted <= Size
    BY RingFields DEF RingInv
  <2>2. \A i \in 1 .. consumer.granted : View'[i] = View[i]
    BY <1>1, <1>2, <1>3, <2>1, ContentsAndView DEF QueueFacts
  <2> QED
    BY <1>3, <2>2, ContentsAndView, SeqEqual DEF QueueFacts
<1> QED
  BY <1>3, <1>4, <1>5 DEF Fifo!Put

LEMMA HandOutLooks ==
    ASSUME RingInv, RingInv', HandOut
    PROVE  Fifo!Look
<1>1. /\ UNCHANGED <<data, read_ptr, m_free>>
      /\ consumer'.granted = Available
  BY DEF HandOut, ring
<1>2. Size' = Size /\ Size \in Nat /\ consumer.granted \in Nat
  BY <1>1, RingFields DEF Size
<1>3. Contents' = Contents
  BY <1>1, <1>2 DEF Contents, Wrapped
<1>4. /\ View' \in Seq(Bytes) /\ Len(View') = Available
      /\ \A i \in 1 .. Available : View'[i] = Contents[i]
  BY <1>1, <1>2, <1>3, AvailableBytes, ContentsAndViewNext DEF QueueFacts
<1>a. /\ Available \in Nat /\ Available <= Size /\ consumer.granted <= Available
      /\ Contents \in Seq(Bytes) /\ Len(Contents) = Size
      /\ View \in Seq(Bytes) /\ Len(View) = consumer.granted
      /\ \A i \in 1 .. consumer.granted : View[i] = Contents[i]
  BY AvailableBytes, ContentsAndView DEF QueueFacts
<1>5. Fifo!IsPrefix(View, View')
  <2>1. Len(View) <= Len(View') /\ \A i \in 1 .. Len(View) : View[i] = View'[i]
    BY <1>2, <1>4, <1>a
  <2> QED
    BY <1>4, <1>a, <2>1, PrefixByElement
<1>6. Fifo!IsPrefix(View', Contents)
  <2>1. Len(View') <= Len(Contents) /\ \A i \in 1 .. Len(View') : View'[i] = Contents[i]
    BY <1>4, <1>a
  <2> QED
    BY <1>4, <1>a, <2>1, PrefixByElement
<1>7. Contents # <<>> => View' # <<>>
  BY <1>4, AvailableBytes, ContentsAndView, EmptySeq DEF QueueFacts
<1> QED
  BY <1>3, <1>5, <1>6, <1>7 DEF Fifo!Look

LEMMA CommitTakes ==
    ASSUME RingInv, RingInv', NEW n \in 1 .. Capacity, CommitRead(n)
    PROVE  Fifo!Take
<1>1. /\ n \in Nat /\ n <= consumer.granted /\ consumer.granted \in Nat
      /\ Size \in Nat /\ consumer.granted <= Size
      /\ read_ptr \in Nat /\ data' = data
      /\ Size' = Size - n /\ consumer'.granted = consumer.granted - n
  BY RingFields, CommittedRing, CapacityType DEF RingInv, CommitRead
<1>2. \A i \in 1 .. Size' : Contents'[i] = Contents[n + i]
  <2> TAKE i \in 1 .. Size'
  <2>1. Contents'[i] = data[Wrapped(read_ptr' + i - 1)]
    BY <1>1, ContentsAndViewNext DEF QueueFacts
  <2>2. Wrapped(read_ptr' + i - 1) = Wrapped(read_ptr + n + i - 1)
    BY CommittedRing
  <2>3. n + i \in 1 .. Size /\ read_ptr + n + i - 1 = read_ptr + (n + i) - 1
    BY <1>1
  <2>4. Contents[n + i] = data[Wrapped(read_ptr + (n + i) - 1)]
    BY <2>3, ContentsAndView DEF QueueFacts
  <2> QED
    BY <2>1, <2>2, <2>3, <2>4
<1>3. /\ Contents' \in Seq(Bytes) /\ Len(Contents') = Size'
      /\ View' \in Seq(Bytes) /\ Len(View') = consumer'.granted
      /\ \A i \in 1 .. consumer'.granted : View'[i] = Contents'[i]
  BY ContentsAndViewNext DEF QueueFacts
<1>4. Contents' = Fifo!Drop(Contents, n)
  <2>1. Contents \in Seq(Bytes) /\ Len(Contents) = Size /\ n \in 0 .. Len(Contents)
    BY <1>1, ContentsAndView DEF QueueFacts
  <2>2. Contents' \in Seq(Bytes) /\ Len(Contents') = Len(Contents) - n
    BY <1>1, <1>3, <2>1
  <2>3. \A i \in 1 .. Len(Contents') : Contents'[i] = Contents[n + i]
    BY <1>2, <1>3
  <2> QED
    BY <2>1, <2>2, <2>3, DropByElement
<1>5. View' = Fifo!Drop(View, n)
  <2>1. \A i \in 1 .. consumer'.granted : View'[i] = View[n + i]
    <3> TAKE i \in 1 .. consumer'.granted
    <3>1. n + i \in 1 .. consumer.granted /\ i \in 1 .. Size'
      BY <1>1
    <3>2. View'[i] = Contents[n + i]
      BY <3>1, <1>2, <1>3
    <3>3. View[n + i] = Contents[n + i]
      BY <3>1, ContentsAndView DEF QueueFacts
    <3> QED
      BY <3>2, <3>3
  <2>2. View \in Seq(Bytes) /\ Len(View) = consumer.granted
    BY ContentsAndView DEF QueueFacts
  <2>3. n \in 0 .. Len(View) /\ Len(View') = Len(View) - n
    BY <1>1, <1>3, <2>2
  <2>4. \A i \in 1 .. Len(View') : View'[i] = View[n + i]
    BY <1>3, <2>1
  <2> QED
    BY <1>3, <2>2, <2>3, <2>4, DropByElement
<1>6. n \in 1 .. Len(View)
  BY <1>1, ContentsAndView DEF QueueFacts
<1> QED
  BY <1>4, <1>5, <1>6 DEF Fifo!Take

LEMMA ClearForgets ==
    ASSUME RingInv, RingInv', Clear
    PROVE  Fifo!Forget
<1>1. Size' = 0 /\ consumer.granted = 0 /\ consumer'.granted = 0
  BY CapacityType DEF Clear, Size
<1>2. View = <<>> /\ View' = <<>> /\ Contents' = <<>>
  BY <1>1, ContentsAndView, ContentsAndViewNext, EmptySeq DEF QueueFacts
<1> QED
  BY <1>2 DEF Fifo!Forget

(* The steps that change neither the bytes nor what the consumer holds.    *)
LEMMA QuietStep ==
    ASSUME UNCHANGED <<data, read_ptr, m_free>>, consumer'.granted = consumer.granted
    PROVE  UNCHANGED <<Contents, View>>
<1>1. Size' = Size
  BY DEF Size
<1> QED
  BY <1>1 DEF Contents, View, Wrapped

(* Every step of the buffer is a step of the byte queue or changes neither *)
(* its bytes nor the consumer's view: nothing is lost, doubled or reordered*)
(* and what request_read handed out stays as it was.                       *)
THEOREM BufferIsFifo == BufferSpec => ImplementsByteFifo
<1> DEFINE FifoNext == Fifo!Put \/ Fifo!Look \/ Fifo!Take \/ Fifo!Forget
<1>1. RingInv /\ RingInv' /\ [BufferNext]_bufferVars => [FifoNext]_<<Contents, View>>
  <2> SUFFICES ASSUME RingInv, RingInv', [BufferNext]_bufferVars
               PROVE  [FifoNext]_<<Contents, View>>
    OBVIOUS
  <2>1. ASSUME NEW chunk \in Chunks, Write(chunk) PROVE UNCHANGED <<Contents, View>>
    BY <2>1, QuietStep DEF Write, ring
  <2>2. CASE Copy
    BY <2>2, CopyPuts
  <2>3. CASE ConsumerMoves
    BY <2>3, RingMoves, QuietStep
  <2>4. CASE HandOut
    BY <2>4, HandOutLooks
  <2>5. ASSUME NEW n \in 1 .. Capacity, CommitRead(n) PROVE FifoNext
    BY <2>5, CommitTakes
  <2>6. CASE Clear
    BY <2>6, ClearForgets
  <2>7. CASE UNCHANGED bufferVars
    BY <2>7, QuietStep DEF bufferVars
  <2> QED
    BY <2>1, <2>2, <2>3, <2>4, <2>5, <2>6, <2>7 DEF BufferNext, ConsumerMoves
<1> QED
  BY <1>1, FifoStarts, RingInvariant, PTL DEF BufferSpec, ImplementsByteFifo, Fifo!FifoSpec

=============================================================================
