--------------------------- MODULE Utilities_proofs ---------------------------
(***************************************************************************)
(* Proofs about small components: EventTrace, PacketSync, HttpRoutes,      *)
(* FrameMessage and HttpRequest, for any threads, packets, routes,         *)
(* features, requests and bounds.                                          *)
(***************************************************************************)
EXTENDS EventTrace, PacketSync, HttpRoutes, FrameMessage, HttpRequest,
        SequenceTheorems, FiniteSetTheorems, WellFoundedInduction, TLAPS

-----------------------------------------------------------------------------
(* Least numbers, and recursion over numbers                               *)

LEMMA LeastIs ==
    ASSUME NEW S \in SUBSET Nat, S # {}
    PROVE  Min(S) \in S /\ \A y \in S : Min(S) <= y
<1>0. S \subseteq Nat
  OBVIOUS
<1>1. PICK x \in S : \A y \in S : ~ (<<y, x>> \in OpToRel(<, Nat))
  BY <1>0, WFMin, NatLessThanWellFounded, Zenon
<1>2. \A y \in S : ~ (y < x)
  BY <1>1, Zenon DEF OpToRel
<1>3. \A y \in S : x <= y
  BY <1>2
<1> QED
  BY <1>3 DEF Min

(* Induction, for a property given as the set of numbers that have it.     *)
LEMMA ByInduction ==
    ASSUME NEW P \in SUBSET Nat, 0 \in P, \A n \in P : n + 1 \in P
    PROVE  P = Nat
<1>1. ASSUME NEW others \in SUBSET Nat, others = Nat \ P, others # {}
      PROVE  FALSE
  <2>1. PICK n \in others : \A k \in others : n <= k
    BY <1>1, LeastIs
  <2>2. n # 0 /\ n \in Nat
    BY <1>1, <2>1
  <2>3. n - 1 \in Nat /\ ~(n <= n - 1)
    BY <2>2
  <2>4. n - 1 \in P
    BY <1>1, <2>1, <2>3
  <2>5. (n - 1) + 1 = n
    BY <2>2
  <2> QED
    BY <1>1, <2>1, <2>4, <2>5
<1> QED
  BY <1>1

(* What a loop of n rounds computes, of which round i turns v into         *)
(* F[<<v, i>>].                                                            *)
Computes(g, n, start, F) ==
    /\ g[0] = start
    /\ \A i \in 1 .. n : g[i] = F[<<g[i - 1], i>>]

LEMMA LoopExists ==
    ASSUME NEW V, NEW start \in V, NEW F \in [V \X Nat -> V], NEW n \in Nat
    PROVE  \E g \in [0 .. n -> V] : Computes(g, n, start, F)
<1> DEFINE P == {k \in Nat : \E g \in [0 .. k -> V] : Computes(g, k, start, F)}
<1>1. 0 \in P
  <2>1. [i \in 0 .. 0 |-> start] \in [0 .. 0 -> V]
    OBVIOUS
  <2>2. Computes([i \in 0 .. 0 |-> start], 0, start, F)
    BY DEF Computes
  <2> QED
    BY <2>1, <2>2
<1>2. ASSUME NEW k \in P
      PROVE  k + 1 \in P
  <2>1. PICK g \in [0 .. k -> V] : Computes(g, k, start, F)
    BY <1>2
  <2>2. k \in Nat /\ k + 1 \in Nat /\ k \in 0 .. k
    BY <1>2
  <2>3. g[k] \in V
    BY <2>1, <2>2
  <2>4. PICK next \in V : next = F[<<g[k], k + 1>>]
    BY <2>2, <2>3
  <2>5. PICK h : h = [i \in 0 .. k + 1 |-> IF i \in 0 .. k THEN g[i] ELSE next]
    OBVIOUS
  <2>6. h \in [0 .. k + 1 -> V]
    BY <2>1, <2>4, <2>5
  <2>7. h[0] = start
    BY <2>1, <2>2, <2>5 DEF Computes
  <2>8. ASSUME NEW i \in 1 .. k + 1
        PROVE  h[i] = F[<<h[i - 1], i>>]
    <3>1. i - 1 \in 0 .. k /\ i \in 0 .. k + 1 /\ i - 1 \in 0 .. k + 1
      BY <2>2
    <3>2. h[i - 1] = g[i - 1]
      BY <2>5, <3>1
    <3>3. CASE i \in 1 .. k
      <4>1. g[i] = F[<<g[i - 1], i>>] /\ i \in 0 .. k
        BY <2>1, <2>2, <3>3 DEF Computes
      <4>2. h[i] = g[i]
        BY <2>5, <3>1, <4>1
      <4> QED
        BY <3>2, <4>1, <4>2
    <3>4. CASE i = k + 1
      <4>1. h[i] = next /\ i - 1 = k
        BY <2>2, <2>5, <3>1, <3>4
      <4> QED
        BY <2>4, <3>2, <3>4, <4>1
    <3> QED
      BY <2>2, <3>3, <3>4
  <2> QED
    BY <2>2, <2>6, <2>7, <2>8 DEF Computes
<1>3. P \in SUBSET Nat
  OBVIOUS
<1>4. P = Nat
  <2> HIDE DEF P
  <2> QED
    BY <1>1, <1>2, <1>3, ByInduction
<1> QED
  BY <1>4

-----------------------------------------------------------------------------
(* EventTrace: the memory of the events                                    *)

Phases == {"B", "E"}

EventIds == 0 .. 254

LEMMA IdIs ==
    ASSUME NEW t \in Threads
    PROVE  Id(t) \in EventIds
  BY TraceAssumption DEF Id, EventIds

(* The vector has memory for its events; it never reaches the sizes at     *)
(* which capacity() - 1 wraps, but at 0.                                   *)
MemoryInv ==
    /\ capacity \in 0 .. WordSize - 1
    /\ events \in Seq(EventIds \X Phases)
    /\ Len(events) <= capacity
    /\ enabled \in BOOLEAN

LEMMA LargerOfTwo ==
    ASSUME NEW a \in Nat, NEW b \in Nat
    PROVE  Max({a, b}) \in {a, b} /\ Max({a, b}) >= a /\ Max({a, b}) >= b
<1>1. \E x \in {a, b} : \A y \in {a, b} : x >= y
  OBVIOUS
<1> QED
  BY <1>1 DEF Max

LEMMA OneLess ==
    ASSUME NEW c \in Nat \ {0}, NEW w \in Nat, c < w
    PROVE  (c + w - 1) % w = c - 1
  OBVIOUS

(* A step that records leaves the vector where it is, if it has memory.    *)
LEMMA RecordedInPlace ==
    ASSUME MemoryInv, NEW t \in Threads, NEW phase \in Phases, AddEventTrace(t, phase)
    PROVE  /\ capacity' # capacity => capacity = 0 /\ events = <<>>
           /\ capacity' \in 0 .. WordSize - 1 /\ Len(events') <= capacity'
           /\ events' \in Seq(EventIds \X Phases)
<1>1. CASE enabled /\ HasRoom
  <2>1. /\ events' = Append(events, <<Id(t), phase>>) /\ capacity' = Grown
        /\ <<Id(t), phase>> \in EventIds \X Phases
    BY <1>1, IdIs DEF AddEventTrace
  <2>2. /\ events' \in Seq(EventIds \X Phases) /\ Len(events') = Len(events) + 1
        /\ Len(events) \in Nat
    BY <2>1, AppendProperties, LenProperties DEF MemoryInv
  <2>3. capacity \in Nat /\ capacity < WordSize /\ WordSize \in Nat \ {0}
    BY TraceAssumption DEF MemoryInv
  <2>4. CASE capacity = 0
    <3>1. Len(events) = 0
      BY <2>2, <2>4 DEF MemoryInv
    <3>2. events = <<>>
      BY <3>1, EmptySeq DEF MemoryInv
    <3>3. (0 + WordSize - 1) % WordSize = WordSize - 1
      BY <2>3
    <3>4. WordSize > 1
      BY <1>1, <2>3, <2>4, <3>1, <3>3 DEF HasRoom
    <3>5. capacity' = 1
      BY <2>1, <2>4, <3>1, LargerOfTwo DEF Grown
    <3> QED
      BY <2>2, <2>3, <2>4, <3>1, <3>2, <3>4, <3>5
  <2>5. CASE capacity # 0
    <3>1. (capacity + WordSize - 1) % WordSize = capacity - 1
      BY <2>3, <2>5, OneLess
    <3>2. Len(events) < capacity - 1
      BY <1>1, <3>1 DEF HasRoom
    <3>3. capacity' = capacity
      BY <2>1, <2>2, <2>3, <3>2 DEF Grown
    <3> QED
      BY <2>2, <2>3, <3>2, <3>3
  <2> QED
    BY <2>4, <2>5
<1>2. CASE ~(enabled /\ HasRoom)
  BY <1>2 DEF AddEventTrace, MemoryInv
<1> QED
  BY <1>1, <1>2

LEMMA MemoryInit ==
    ASSUME TraceInit
    PROVE  MemoryInv
<1>1. capacity \in 0 .. WordSize - 1 /\ enabled = FALSE
  BY TraceAssumption DEF TraceInit
<1>2. events \in Seq(EventIds \X Phases) /\ Len(events) = 0 /\ capacity = 0
  BY DEF TraceInit
<1>3. Len(events) <= capacity
  BY <1>2
<1> QED
  BY Zenon, <1>1, <1>2, <1>3 DEF MemoryInv

LEMMA MemoryEnable ==
    ASSUME MemoryInv, NEW n \in Reservations, Enable(n)
    PROVE  MemoryInv'
<1>1. n \in Nat /\ n < WordSize
  BY TraceAssumption
<1>2. capacity' \in {capacity, n}
  BY <1>1, LargerOfTwo DEF Enable, MemoryInv
<1>3. events' = <<>> /\ Len(<<>>) = 0 /\ <<>> \in Seq(EventIds \X Phases)
  BY DEF Enable
<1> QED
  BY <1>1, <1>2, <1>3, TraceAssumption DEF Enable, MemoryInv

LEMMA MemoryNext ==
    ASSUME MemoryInv, [TraceNext]_traceVars
    PROVE  MemoryInv'
<1>1. CASE \E n \in Reservations : Enable(n)
  BY <1>1, MemoryEnable
<1>2. CASE Disable
  BY <1>2 DEF Disable, MemoryInv
<1>3. ASSUME NEW t \in Threads, NEW n \in 1 .. MaxNested, Begin(t, n) \/ End(t, n)
      PROVE  MemoryInv'
  <2>1. \E phase \in Phases : AddEventTrace(t, phase)
    BY <1>3 DEF Begin, End, Phases
  <2>2. enabled' = enabled
    BY <1>3 DEF Begin, End
  <2> QED
    BY <2>1, <2>2, RecordedInPlace DEF MemoryInv
<1>4. CASE Create \/ GetReadPtr \/ (\E n \in 1 .. 3 : CommitEvents(n)) \/ UNCHANGED traceVars
  BY <1>4 DEF Create, GetReadPtr, CommitEvents, traceVars, log, MemoryInv
<1> QED
  BY <1>1, <1>2, <1>3, <1>4 DEF TraceNext

(* For any reservations, none included, the events never outgrow the       *)
(* memory of the vector, and capacity() - 1 (lw_event_trace.cpp:56) wraps  *)
(* only while there are none.                                              *)
THEOREM MemoryInvariant == TraceSpec => []MemoryInv
<1>1. TraceInit => MemoryInv
  BY MemoryInit
<1>2. MemoryInv /\ [TraceNext]_traceVars => MemoryInv'
  BY MemoryNext
<1> QED
  BY <1>1, <1>2, PTL DEF TraceSpec

(* Recording never moves the events ("pre-allocate to avoid any stalls",   *)
(* lw_event_trace.cpp:32): only enable, which clears them, gives the       *)
(* vector new memory, and the first event of a trace that has none.        *)
THEOREM InPlace == TraceSpec => EventsStayInPlace
<1> DEFINE Stays == capacity' # capacity /\ events' # <<>> => capacity = 0 /\ events = <<>>
<1>1. MemoryInv /\ [TraceNext]_traceVars => Stays
  <2> SUFFICES ASSUME MemoryInv, [TraceNext]_traceVars
               PROVE  Stays
    OBVIOUS
  <2>1. CASE \E n \in Reservations : Enable(n)
    BY <2>1 DEF Enable
  <2>2. ASSUME NEW t \in Threads, NEW n \in 1 .. MaxNested, Begin(t, n) \/ End(t, n)
        PROVE  Stays
    <3>1. \E phase \in Phases : AddEventTrace(t, phase)
      BY <2>2 DEF Begin, End, Phases
    <3> QED
      BY <3>1, RecordedInPlace
  <2>3. CASE Disable \/ Create \/ GetReadPtr \/ (\E n \in 1 .. 3 : CommitEvents(n))
             \/ UNCHANGED traceVars
    BY <2>3 DEF Disable, Create, GetReadPtr, CommitEvents, traceVars, log
  <2> QED
    BY <2>1, <2>2, <2>3 DEF TraceNext
<1> QED
  BY <1>1, MemoryInvariant, PTL DEF TraceSpec, EventsStayInPlace

-----------------------------------------------------------------------------
(* EventTrace: scopes                                                      *)

ScopesInv ==
    /\ events \in Seq(EventIds \X Phases)
    /\ IsFiniteSet(open) /\ IsFiniteSet(before)
    /\ ScopesBalance

LEMMA OfIdIs ==
    ASSUME NEW S, IsFiniteSet(S), NEW id, NEW s, s \notin S
    PROVE  /\ OfId(S, id) \in Nat
           /\ OfId(S \cup {s}, id) = OfId(S, id) + (IF Id(s[1]) = id THEN 1 ELSE 0)
<1> DEFINE Of(X) == {r \in X : Id(r[1]) = id}
<1>1. IsFiniteSet(Of(S)) /\ Cardinality(Of(S)) \in Nat
  BY FS_Subset, FS_CardinalityType
<1>2. CASE Id(s[1]) = id
  <2>1. Of(S \cup {s}) = Of(S) \cup {s} /\ s \notin Of(S)
    BY <1>2
  <2>2. Cardinality(Of(S) \cup {s}) = Cardinality(Of(S)) + 1
    BY <1>1, <2>1, FS_AddElement
  <2> QED
    BY <1>1, <1>2, <2>1, <2>2 DEF OfId
<1>3. CASE Id(s[1]) # id
  <2>1. Of(S \cup {s}) = Of(S)
    BY <1>3
  <2>2. OfId(S, id) \in Nat /\ OfId(S \cup {s}, id) = OfId(S, id)
    BY Zenon, <1>1, <2>1 DEF OfId
  <2> QED
    BY <1>3, <2>2
<1> QED
  BY <1>2, <1>3

LEMMA CountType ==
    ASSUME NEW k \in Nat, NEW id, NEW phase
    PROVE  IsFiniteSet({i \in 1 .. k : events[i] = <<id, phase>>}) /\ Count(k, id, phase) \in Nat
<1>1. IsFiniteSet(1 .. k)
  BY FS_Interval
<1>2. IsFiniteSet({i \in 1 .. k : events[i] = <<id, phase>>})
  BY <1>1, FS_Subset
<1> QED
  BY <1>2, FS_CardinalityType DEF Count

(* One more event counts for itself only.                                  *)
LEMMA CountGrows ==
    ASSUME events \in Seq(EventIds \X Phases), NEW e \in EventIds \X Phases,
           events' = Append(events, e), NEW n, n = Len(events), NEW id, NEW phase
    PROVE  /\ \A k \in 0 .. n : Count(k, id, phase)' = Count(k, id, phase)
           /\ Count(n + 1, id, phase)'
                 = Count(n, id, phase) + (IF e = <<id, phase>> THEN 1 ELSE 0)
<1> DEFINE Of(k) == {i \in 1 .. k : events[i] = <<id, phase>>}
           Now(k) == {i \in 1 .. k : events'[i] = <<id, phase>>}
<1>1. /\ n \in Nat /\ Len(events') = n + 1 /\ events'[n + 1] = e
      /\ \A i \in 1 .. n : events'[i] = events[i]
  BY AppendProperties, LenProperties
<1>2. \A k \in 0 .. n : Now(k) = Of(k)
  BY <1>1
<1>3. \A k : Count(k, id, phase) = Cardinality(Of(k)) /\ Count(k, id, phase)' = Cardinality(Now(k))
  BY DEF Count
<1>4. IsFiniteSet(Of(n)) /\ n + 1 \notin Of(n) /\ Count(n, id, phase) \in Nat
  <2>1. n + 1 \notin Of(n)
    BY <1>1
  <2>2. n \in Nat
    BY <1>1
  <2>3. IsFiniteSet(1 .. n)
    BY <2>2, FS_Interval
  <2>4. IsFiniteSet(Of(n))
    BY <2>3, FS_Subset
  <2> QED
    BY <2>1, <2>4, FS_CardinalityType DEF Count
<1>5. Now(n + 1) = IF e = <<id, phase>> THEN Of(n) \cup {n + 1} ELSE Of(n)
  BY <1>1
<1> HIDE DEF Of, Now
<1>6. \A k \in 0 .. n : Count(k, id, phase)' = Count(k, id, phase)
  BY Zenon, <1>2, <1>3
<1>7. CASE e = <<id, phase>>
  <2>1. Cardinality(Now(n + 1)) = Cardinality(Of(n)) + 1
    BY <1>4, <1>5, <1>7, FS_AddElement
  <2>2. Count(n + 1, id, phase)' = Count(n, id, phase) + 1
    BY Zenon, <1>3, <2>1
  <2> QED
    BY Zenon, <1>6, <1>7, <2>2
<1>8. CASE e # <<id, phase>>
  <2>1. Count(n + 1, id, phase)' = Count(n, id, phase)
    BY Zenon, <1>3, <1>5, <1>8
  <2>2. Count(n, id, phase) = Count(n, id, phase) + 0
    BY <1>4
  <2> QED
    BY Zenon, <1>6, <1>8, <2>1, <2>2
<1> QED
  BY <1>7, <1>8

LEMMA ScopesInit ==
    ASSUME TraceInit
    PROVE  ScopesInv
<1>1. events = <<>> /\ open = {} /\ before = {} /\ enabled = FALSE /\ DOMAIN events = {}
  BY DEF TraceInit
<1> QED
  BY <1>1, FS_EmptySet DEF ScopesInv, ScopesBalance

(* The events are cleared when the trace is enabled.                       *)
LEMMA ScopesEnable ==
    ASSUME ScopesInv, NEW n, Enable(n)
    PROVE  ScopesInv'
<1>1. events' = <<>> /\ before' = open /\ open' = open
  BY DEF Enable
<1>2. Len(events') = 0 /\ DOMAIN events' = {} /\ events' \in Seq(EventIds \X Phases)
  BY <1>1
<1>3. \A id, phase : Count(Len(events), id, phase)' = 0
  <2>1. \A id, phase : {i \in 1 .. Len(events') : events'[i] = <<id, phase>>} = {}
    BY <1>2
  <2> QED
    BY <2>1, FS_EmptySet DEF Count
<1> QED
  BY <1>1, <1>2, <1>3 DEF ScopesInv, ScopesBalance

(* A scope that begins or ends is counted among those open, and in the     *)
(* events unless they are full or not recorded.                            *)
LEMMA ScopesLogged ==
    ASSUME ScopesInv, NEW t \in Threads, NEW n, Begin(t, n) \/ End(t, n)
    PROVE  ScopesInv'
<1>1. PICK s : s = <<t, n>>
  OBVIOUS
<1>2. PICK phase \in Phases :
          /\ AddEventTrace(t, phase)
          /\ phase = "B" => s \notin open /\ open' = open \cup {s}
          /\ phase = "E" => s \in open /\ open' = open \ {s}
          /\ enabled' = enabled /\ before' = before
  <2>1. CASE Begin(t, n)
    BY <1>1, <2>1 DEF Begin, Phases
  <2>2. CASE End(t, n)
    BY <1>1, <2>2 DEF End, Phases
  <2> QED
    BY <2>1, <2>2
<1>3. s[1] = t
  BY <1>1
<1>4. /\ IsFiniteSet(open) /\ IsFiniteSet(before) /\ IsFiniteSet(open')
      /\ events \in Seq(EventIds \X Phases)
  BY <1>2, FS_AddElement, FS_RemoveElement DEF ScopesInv, Phases
<1>5. \A id : /\ OfId(open, id) \in Nat /\ OfId(open', id) \in Nat /\ OfId(before, id) \in Nat
              /\ phase = "B" => OfId(open', id) = OfId(open, id) + (IF Id(t) = id THEN 1 ELSE 0)
              /\ phase = "E" => OfId(open, id) = OfId(open', id) + (IF Id(t) = id THEN 1 ELSE 0)
  <2> TAKE id
  <2>1. OfId(before, id) \in Nat
    <3>1. IsFiniteSet({r \in before : Id(r[1]) = id})
      BY <1>4, FS_Subset
    <3> QED
      BY <3>1, FS_CardinalityType DEF OfId
  <2>2. CASE phase = "B"
    <3>1. /\ OfId(open, id) \in Nat
          /\ OfId(open \cup {s}, id) = OfId(open, id) + (IF Id(s[1]) = id THEN 1 ELSE 0)
      BY <1>2, <1>4, <2>2, OfIdIs
    <3> QED
      BY <1>2, <1>3, <2>1, <2>2, <3>1
  <2>3. CASE phase = "E"
    <3>1. s \notin open' /\ open = open' \cup {s}
      BY <1>2, <2>3
    <3>2. /\ OfId(open', id) \in Nat
          /\ OfId(open' \cup {s}, id) = OfId(open', id) + (IF Id(s[1]) = id THEN 1 ELSE 0)
      BY <1>4, <3>1, OfIdIs
    <3> QED
      BY <1>3, <2>1, <2>3, <3>1, <3>2
  <2> QED
    BY <1>2, <2>2, <2>3 DEF Phases
<1>6. CASE enabled /\ HasRoom
  <2>1. events' = Append(events, <<Id(t), phase>>) /\ <<Id(t), phase>> \in EventIds \X Phases
    BY <1>2, <1>6, IdIs DEF AddEventTrace
  <2>0. PICK m : m = Len(events)
    OBVIOUS
  <2>2. m \in Nat /\ events' \in Seq(EventIds \X Phases) /\ DOMAIN events = 1 .. m
        /\ Len(events') = m + 1 /\ DOMAIN events' = 1 .. m + 1
    BY <1>4, <2>0, <2>1, AppendProperties, LenProperties
  <2>3. ASSUME NEW u \in Threads
        PROVE  LET id == Id(u) IN
               /\ \A k \in DOMAIN events' :
                     Count(k, id, "E")' <= OfId(before', id) + Count(k, id, "B")'
               /\ OfId(before', id) + Count(Len(events), id, "B")'
                     = OfId(open', id) + Count(Len(events), id, "E")'
    <3> DEFINE id == Id(u)
    <3>1. /\ \A k \in DOMAIN events : Count(k, id, "E") <= OfId(before, id) + Count(k, id, "B")
          /\ OfId(before, id) + Count(m, id, "B") = OfId(open, id) + Count(m, id, "E")
      BY <1>6, <2>0 DEF ScopesInv, ScopesBalance
    <3>2. /\ \A k \in 0 .. m : /\ Count(k, id, "B")' = Count(k, id, "B")
                               /\ Count(k, id, "E")' = Count(k, id, "E")
          /\ Count(m + 1, id, "B")' = Count(m, id, "B")
                                       + (IF <<Id(t), phase>> = <<id, "B">> THEN 1 ELSE 0)
          /\ Count(m + 1, id, "E")' = Count(m, id, "E")
                                       + (IF <<Id(t), phase>> = <<id, "E">> THEN 1 ELSE 0)
      <4>1. PICK x \in EventIds \X Phases : x = <<Id(t), phase>>
        BY <2>1
      <4>2. events' = Append(events, x)
        BY <2>1, <4>1
      <4>3. \A p : /\ \A k \in 0 .. m : Count(k, id, p)' = Count(k, id, p)
                   /\ Count(m + 1, id, p)'
                         = Count(m, id, p) + (IF x = <<id, p>> THEN 1 ELSE 0)
        <5>1. events \in Seq(EventIds \X Phases)
          BY <1>4
        <5> QED
          BY <2>0, <4>1, <4>2, <5>1, CountGrows
      <4> QED
        BY Zenon, <4>1, <4>3
    <3>3. Count(m, id, "B") \in Nat /\ Count(m, id, "E") \in Nat
      BY <2>2, CountType
    <3>4. PICK b, e, c, d, f, g :
              /\ b = Count(m, id, "B") /\ e = Count(m, id, "E") /\ c = OfId(open, id)
              /\ d = OfId(open', id) /\ f = Count(m + 1, id, "B")' /\ g = Count(m + 1, id, "E")'
      OBVIOUS
    <3>5. PICK a : a = OfId(before, id)
      OBVIOUS
    <3>6. /\ a \in Nat /\ b \in Nat /\ c \in Nat /\ d \in Nat /\ e \in Nat /\ a + b = c + e
          /\ OfId(before', id) = a
      BY <1>2, <1>5, <3>1, <3>3, <3>4, <3>5
    <3>7. g <= a + f /\ a + f = d + g
      <4>1. CASE phase = "B" /\ Id(t) = id
        <5>1. <<Id(t), phase>> = <<id, "B">> /\ ~(<<Id(t), phase>> = <<id, "E">>)
          BY <4>1
        <5>2. f = b + 1 /\ g = e + 0
          BY Zenon, <3>2, <3>4, <5>1
        <5>3. d = c + 1
          BY Zenon, <1>5, <3>4, <4>1
        <5> QED
          BY <3>6, <5>2, <5>3
      <4>2. CASE phase = "E" /\ Id(t) = id
        <5>1. <<Id(t), phase>> = <<id, "E">> /\ ~(<<Id(t), phase>> = <<id, "B">>)
          BY <4>2
        <5>2. f = b + 0 /\ g = e + 1
          BY Zenon, <3>2, <3>4, <5>1
        <5>3. c = d + 1
          BY Zenon, <1>5, <3>4, <4>2
        <5> QED
          BY <3>6, <5>2, <5>3
      <4>3. CASE Id(t) # id
        <5>1. f = b /\ g = e /\ c = d
          BY <1>2, <1>5, <3>2, <3>4, <3>6, <4>3 DEF Phases
        <5> QED
          BY <3>6, <5>1
      <4> QED
        BY <1>2, <4>1, <4>2, <4>3 DEF Phases
    <3>8. ASSUME NEW k \in DOMAIN events'
          PROVE  Count(k, id, "E")' <= OfId(before', id) + Count(k, id, "B")'
      <4>1. CASE k = m + 1
        <5>1. Count(k, id, "E")' = Count(m + 1, id, "E")' /\ Count(k, id, "B")' = Count(m + 1, id, "B")'
          BY Zenon, <4>1 DEF Count
        <5> QED
          BY Zenon, <3>4, <3>6, <3>7, <5>1
      <4>2. CASE k # m + 1
        <5>1. k \in 0 .. m /\ k \in DOMAIN events
          BY <2>2, <4>2
        <5> QED
          BY <3>1, <3>2, <3>5, <3>6, <5>1
      <4> QED
        BY <4>1, <4>2
    <3>9. Count(Len(events), id, "B")' = f /\ Count(Len(events), id, "E")' = g
      BY Zenon, <2>2, <3>4 DEF Count
    <3> QED
      BY Zenon, <3>4, <3>6, <3>7, <3>8, <3>9
  <2> QED
    BY <1>4, <1>2, <2>2, <2>3 DEF ScopesInv, ScopesBalance
<1>7. CASE ~(enabled /\ HasRoom)
  <2>1. events' = events /\ capacity' = capacity
    BY <1>2, <1>7 DEF AddEventTrace
  <2>2. ~(enabled' /\ HasRoom')
    BY <1>2, <1>7, <2>1 DEF HasRoom
  <2>3. \A u \in Threads, k \in DOMAIN events :
            Count(k, Id(u), "E")' <= OfId(before', Id(u)) + Count(k, Id(u), "B")'
    BY <1>2, <2>1 DEF ScopesInv, ScopesBalance, Count
  <2> QED
    BY <1>2, <1>4, <2>1, <2>2, <2>3 DEF ScopesInv, ScopesBalance
<1> QED
  BY <1>6, <1>7

LEMMA ScopesNext ==
    ASSUME ScopesInv, [TraceNext]_traceVars
    PROVE  ScopesInv'
<1>1. ASSUME UNCHANGED <<capacity, events, open, before>>, enabled' => enabled
      PROVE  ScopesInv'
  <2>1. HasRoom' = HasRoom /\ \A k, id, phase : Count(k, id, phase)' = Count(k, id, phase)
    BY <1>1 DEF HasRoom, Count
  <2> QED
    BY <1>1, <2>1 DEF ScopesInv, ScopesBalance
<1>2. ASSUME NEW t \in Threads, NEW n \in 1 .. MaxNested, Begin(t, n) \/ End(t, n)
      PROVE  ScopesInv'
  BY <1>2, ScopesLogged
<1>3. CASE \E n \in Reservations : Enable(n)
  BY <1>3, ScopesEnable
<1>4. CASE Disable \/ Create \/ GetReadPtr \/ (\E n \in 1 .. 3 : CommitEvents(n))
           \/ UNCHANGED traceVars
  BY <1>1, <1>4 DEF Disable, Create, GetReadPtr, CommitEvents, traceVars, log
<1> QED
  BY <1>2, <1>3, <1>4 DEF TraceNext

(* Whatever is recorded, dropped and cleared in the middle of scopes, the  *)
(* events replayed from the scopes open at enable never end one that is    *)
(* not open, and lead to those open now while there is room.               *)
THEOREM ScopesAreBalanced == TraceSpec => []ScopesBalance
<1>1. ScopesInv => ScopesBalance
  BY DEF ScopesInv
<1> QED
  BY <1>1, ScopesInit, ScopesNext, PTL DEF TraceSpec

-----------------------------------------------------------------------------
(* EventTrace: what a download delivers                                    *)

Unit == (EventIds \X Phases) \cup {<<"open">>, <<"comma">>, <<"close">>}

PayloadType == [text : Seq(Unit), cursor : Nat, index : Nat]

Delivered == body \o Rest(payload)

(* What was committed and what the payload still holds are the events up   *)
(* to the index; without new events only the last is followed by "close".      *)
Fetching ==
    /\ payload \in PayloadType /\ payload.cursor <= Len(payload.text)
    /\ since # "cleared" => payload.index <= Len(events) /\ IsJson(Delivered, payload.index)
    /\ since = "quiet" =>
           \A k \in 1 .. payload.index :
               Delivered[2 * k + 1] = <<IF k = Len(events) THEN "close" ELSE "comma">>

DownloadInv ==
    /\ events \in Seq(EventIds \X Phases) /\ body \in Seq(Unit)
    /\ since \in {"quiet", "grown", "cleared"}
    /\ payload # NoPayload => Fetching
    /\ payload = NoPayload /\ since = "quiet" /\ body # <<>> => IsDocument(body)

LEMMA PayloadIsRecord ==
    ASSUME NEW p \in PayloadType
    PROVE  p # NoPayload
<1>1. "text" \in DOMAIN p
  BY DEF PayloadType
<1>2. "text" \notin DOMAIN <<>>
  OBVIOUS
<1> QED
  BY <1>1, <1>2 DEF NoPayload

LEMMA PartOf ==
    ASSUME NEW T, NEW x \in Seq(T), NEW c \in Nat, NEW d \in Nat, d <= Len(x)
    PROVE  /\ SubSeq(x, c + 1, d) \in Seq(T)
           /\ Len(SubSeq(x, c + 1, d)) = IF c <= d THEN d - c ELSE 0
           /\ \A i \in 1 .. d - c : SubSeq(x, c + 1, d)[i] = x[c + i]
<1>1. \A i \in c + 1 .. d : x[i] \in T
  BY LenProperties, ElementOfSeq
<1>2. Len(x) \in Nat
  BY LenProperties
<1> QED
  BY <1>1, <1>2, SubSeqProperties

LEMMA JoinedIs ==
    ASSUME NEW T, NEW u \in Seq(T), NEW v \in Seq(T)
    PROVE  /\ u \o v \in Seq(T) /\ Len(u \o v) = Len(u) + Len(v)
           /\ \A i \in 1 .. Len(u) : (u \o v)[i] = u[i]
           /\ \A i \in 1 .. Len(v) : (u \o v)[Len(u) + i] = v[i]
<1>1. Len(u) \in Nat /\ Len(v) \in Nat
  BY LenProperties
<1>2. /\ u \o v \in Seq(T) /\ Len(u \o v) = Len(u) + Len(v)
      /\ \A i \in 1 .. Len(u) + Len(v) :
             (u \o v)[i] = IF i <= Len(u) THEN u[i] ELSE v[i - Len(u)]
  BY ConcatProperties
<1>3. \A i \in 1 .. Len(v) : /\ Len(u) + i \in 1 .. Len(u) + Len(v)
                             /\ ~(Len(u) + i <= Len(u)) /\ Len(u) + i - Len(u) = i
  BY <1>1
<1>4. \A i \in 1 .. Len(v) : (u \o v)[Len(u) + i] = v[i]
  BY <1>2, <1>3
<1> QED
  BY <1>1, <1>2, <1>4

LEMMA ThreeAre ==
    ASSUME NEW T, NEW o \in T, NEW tail \in Seq(T), Len(tail) = 2
    PROVE  /\ <<o>> \o tail \in Seq(T) /\ Len(<<o>> \o tail) = 3
           /\ (<<o>> \o tail)[1] = o /\ (<<o>> \o tail)[2] = tail[1]
           /\ (<<o>> \o tail)[3] = tail[2]
<1>1. PICK first : first = <<o>>
  OBVIOUS
<1>2. first \in Seq(T) /\ Len(first) = 1 /\ first[1] = o
  BY <1>1
<1>3. /\ first \o tail \in Seq(T) /\ Len(first \o tail) = Len(first) + Len(tail)
      /\ \A i \in 1 .. Len(first) : (first \o tail)[i] = first[i]
      /\ \A i \in 1 .. Len(tail) : (first \o tail)[Len(first) + i] = tail[i]
  BY <1>2, JoinedIs
<1>4. /\ first \o tail \in Seq(T) /\ Len(first \o tail) = 3
      /\ (first \o tail)[1] = o /\ (first \o tail)[1 + 1] = tail[1]
      /\ (first \o tail)[1 + 2] = tail[2]
  BY <1>2, <1>3
<1> QED
  BY <1>1, <1>4

(* A commit moves data from the payload to what was delivered.             *)
LEMMA CommitMoves ==
    ASSUME NEW T, NEW b \in Seq(T), NEW x \in Seq(T), NEW c \in Nat, NEW n \in Nat,
           c + n <= Len(x)
    PROVE  /\ b \o SubSeq(x, c + 1, c + n) \in Seq(T)
           /\ (b \o SubSeq(x, c + 1, c + n)) \o SubSeq(x, c + n + 1, Len(x))
                = b \o SubSeq(x, c + 1, Len(x))
<1>1. PICK front : front = SubSeq(x, c + 1, c + n)
  OBVIOUS
<1>2. PICK back : back = SubSeq(x, c + n + 1, Len(x))
  OBVIOUS
<1>3. PICK all : all = SubSeq(x, c + 1, Len(x))
  OBVIOUS
<1>4. Len(x) \in Nat
  BY LenProperties
<1>5. /\ front \in Seq(T) /\ Len(front) = n /\ \A i \in 1 .. n : front[i] = x[c + i]
      /\ back \in Seq(T) /\ Len(back) = Len(x) - c - n
      /\ \A i \in 1 .. Len(x) - (c + n) : back[i] = x[c + n + i]
      /\ all \in Seq(T) /\ Len(all) = Len(x) - c
      /\ \A i \in 1 .. Len(x) - c : all[i] = x[c + i]
  <2>1. PICK k : k = c + n
    OBVIOUS
  <2>2. k \in Nat /\ k <= Len(x) /\ c <= k /\ k - c = n /\ Len(x) \in Nat
    BY <1>4, <2>1
  <2>3. front \in Seq(T) /\ Len(front) = n /\ \A i \in 1 .. n : front[i] = x[c + i]
    <3>1. front = SubSeq(x, c + 1, k)
      BY <1>1, <2>1
    <3> QED
      BY <2>2, <3>1, PartOf
  <2>4. /\ back \in Seq(T) /\ Len(back) = Len(x) - c - n
        /\ \A i \in 1 .. Len(x) - k : back[i] = x[k + i]
    <3>1. back = SubSeq(x, k + 1, Len(x))
      BY <1>2, <2>1
    <3>2. /\ back \in Seq(T) /\ Len(back) = Len(x) - k
          /\ \A i \in 1 .. Len(x) - k : back[i] = x[k + i]
      BY <2>2, <3>1, PartOf
    <3> QED
      BY <2>1, <2>2, <3>2
  <2>5. /\ all \in Seq(T) /\ Len(all) = Len(x) - c
        /\ \A i \in 1 .. Len(x) - c : all[i] = x[c + i]
    BY <1>3, <2>2, PartOf
  <2> QED
    BY <2>1, <2>3, <2>4, <2>5
<1>6. /\ front \o back \in Seq(T) /\ Len(front \o back) = Len(x) - c
      /\ \A i \in 1 .. Len(x) - c :
             (front \o back)[i] = IF i <= n THEN front[i] ELSE back[i - n]
  <2>1. /\ front \o back \in Seq(T) /\ Len(front \o back) = Len(front) + Len(back)
        /\ \A i \in 1 .. Len(front) + Len(back) :
               (front \o back)[i] = IF i <= Len(front) THEN front[i] ELSE back[i - Len(front)]
    BY <1>5, ConcatProperties
  <2>2. Len(front) = n /\ Len(front) + Len(back) = Len(x) - c
    BY <1>4, <1>5
  <2> QED
    BY <2>1, <2>2, Zenon
<1>7. ASSUME NEW i \in 1 .. Len(x) - c
      PROVE  (front \o back)[i] = all[i]
  <2>1. CASE i <= n
    <3>1. i \in 1 .. n
      BY <1>4, <2>1
    <3>2. (front \o back)[i] = front[i]
      BY <1>6, <2>1
    <3> QED
      BY <1>5, <3>1, <3>2
  <2>2. CASE ~(i <= n)
    <3>1. i - n \in 1 .. Len(x) - (c + n) /\ c + n + (i - n) = c + i
      BY <1>4, <2>2
    <3> QED
      BY <1>5, <1>6, <2>2, <3>1
  <2> QED
    BY <2>1, <2>2
<1>8. front \o back = all
  BY <1>5, <1>6, <1>7, SeqEqual
<1>9. b \o front \in Seq(T)
  BY <1>5, ConcatProperties
<1>10. (b \o front) \o back = b \o (front \o back)
  BY <1>5, ConcatAssociative
<1> QED
  BY <1>1, <1>2, <1>3, <1>8, <1>9, <1>10, Zenon

LEMMA UnitTypes ==
    /\ \A close \in {"comma", "close"} : <<close>> \in Unit
    /\ <<"open">> \in Unit
    /\ events \in Seq(EventIds \X Phases) =>
           \A k \in 1 .. Len(events) : events[k] \in Unit
<1>1. events \in Seq(EventIds \X Phases) =>
          \A k \in 1 .. Len(events) : events[k] \in EventIds \X Phases
  BY ElementOfSeq
<1> QED
  BY <1>1 DEF Unit

(* The JSON of the next event.                                             *)
LEMMA NextEventIs ==
    ASSUME events \in Seq(EventIds \X Phases), NEW b \in Seq(Unit), NEW n \in Nat,
           n < Len(events), IsJson(b, n), NEW close \in {"comma", "close"}
    PROVE  LET d == b \o Json(n + 1, n = 0, close) IN
           /\ Json(n + 1, n = 0, close) \in Seq(Unit)
           /\ d \in Seq(Unit) /\ IsJson(d, n + 1)
           /\ d[2 * (n + 1) + 1] = <<close>>
           /\ \A k \in 1 .. n : d[2 * k + 1] = b[2 * k + 1]
<1>0. PICK d : d = b \o Json(n + 1, n = 0, close)
  OBVIOUS
<1>1. Len(events) \in Nat /\ n + 1 \in 1 .. Len(events) /\ Len(b) \in Nat
  BY LenProperties
<1>2. PICK e, c, o : e = events[n + 1] /\ c = <<close>> /\ o = <<"open">>
  OBVIOUS
<1>3. e \in Unit /\ c \in Unit /\ o \in Unit /\ c \in {<<"comma">>, <<"close">>}
  BY <1>1, <1>2, UnitTypes
<1>4. PICK tail : tail = <<e, c>>
  OBVIOUS
<1>5. tail \in Seq(Unit) /\ Len(tail) = 2 /\ tail[1] = e /\ tail[2] = c
  BY <1>3, <1>4
<1>6. CASE n = 0
  <2>1. PICK text : text = <<o>> \o tail
    OBVIOUS
  <2>3. /\ text \in Seq(Unit) /\ Len(text) = 3
        /\ text[1] = o /\ text[2] = e /\ text[3] = c
    <3>1. /\ <<o>> \o tail \in Seq(Unit) /\ Len(<<o>> \o tail) = 3
          /\ (<<o>> \o tail)[1] = o /\ (<<o>> \o tail)[2] = tail[1]
          /\ (<<o>> \o tail)[3] = tail[2]
      BY <1>3, <1>5, ThreeAre
    <3> QED
      BY <1>5, <2>1, <3>1
  <2>4. Json(n + 1, n = 0, close) = text
    BY <1>2, <1>4, <1>6, <2>1 DEF Json
  <2>5. Len(b) = 0
    BY <1>6 DEF IsJson
  <2>6. b = <<>>
    BY <1>1, <2>5, EmptySeq
  <2>7. d = text
    BY <1>0, <2>3, <2>4, <2>6, ConcatEmptySeq
  <2> QED
    BY <1>0, <1>2, <1>3, <1>6, <2>3, <2>4, <2>7 DEF IsJson
<1>7. CASE n # 0
  <2>0. Len(b) = 2 * n + 1
    BY <1>7 DEF IsJson
  <2>1. Json(n + 1, n = 0, close) = tail
    BY <1>2, <1>4, <1>5, <1>7, ConcatEmptySeq DEF Json
  <2>2. /\ d \in Seq(Unit) /\ Len(d) = 2 * n + 3
        /\ \A i \in 1 .. 2 * n + 1 : d[i] = b[i]
        /\ d[2 * n + 2] = tail[1] /\ d[2 * n + 3] = tail[2]
    <3>0. tail \in Seq(Unit)
      BY <1>5
    <3>1. b \o tail \in Seq(Unit) /\ Len(b \o tail) = Len(b) + Len(tail)
      BY <3>0, JoinedIs
    <3>2. \A i \in 1 .. Len(b) : (b \o tail)[i] = b[i]
      BY <3>0, JoinedIs
    <3>3. \A i \in 1 .. Len(tail) : (b \o tail)[Len(b) + i] = tail[i]
      BY <3>0, JoinedIs
    <3>4. d = b \o tail
      BY Zenon, <1>0, <2>1
    <3>5. /\ d \in Seq(Unit) /\ Len(d) = Len(b) + Len(tail)
          /\ \A i \in 1 .. Len(b) : d[i] = b[i]
          /\ \A i \in 1 .. Len(tail) : d[Len(b) + i] = tail[i]
      BY Zenon, <3>1, <3>2, <3>3, <3>4
    <3>6. /\ Len(b) + Len(tail) = 2 * n + 3
          /\ Len(b) + 1 = 2 * n + 2 /\ Len(b) + 2 = 2 * n + 3
          /\ 1 \in 1 .. Len(tail) /\ 2 \in 1 .. Len(tail)
      BY <1>5, <2>0
    <3>7. d[Len(b) + 1] = tail[1] /\ d[Len(b) + 2] = tail[2]
      BY Zenon, <3>5, <3>6
    <3> QED
      BY Zenon, <2>0, <3>5, <3>6, <3>7
  <2>3. Len(d) = 2 * n + 3 /\ \A i \in 1 .. 2 * n + 1 : d[i] = b[i]
    BY <2>2
  <2>4. d[2 * n + 2] = e /\ d[2 * n + 3] = c
    BY <1>5, <2>2
  <2>5. \A k \in 1 .. n : 2 * k \in 1 .. 2 * n + 1 /\ 2 * k + 1 \in 1 .. 2 * n + 1
    OBVIOUS
  <2>6. d[1] = <<"open">>
    BY <1>7, <2>3 DEF IsJson
  <2>7. \A k \in 1 .. n : d[2 * k] = events[k] /\ d[2 * k + 1] \in {<<"comma">>, <<"close">>}
                          /\ d[2 * k + 1] = b[2 * k + 1]
    BY <2>3, <2>5 DEF IsJson
  <2>8. 2 * (n + 1) = 2 * n + 2 /\ 2 * (n + 1) + 1 = 2 * n + 3 /\ n + 1 # 0
        /\ \A k \in 1 .. n + 1 : k \in 1 .. n \/ k = n + 1
    OBVIOUS
  <2>9. IsJson(d, n + 1)
    BY <1>2, <1>3, <2>3, <2>4, <2>6, <2>7, <2>8 DEF IsJson
  <2> QED
    BY <1>0, <1>2, <1>5, <2>1, <2>2, <2>4, <2>7, <2>8, <2>9
<1> QED
  BY <1>6, <1>7

LEMMA RestIs ==
    ASSUME NEW p \in PayloadType
    PROVE  /\ Rest(p) \in Seq(Unit)
           /\ p.cursor = Len(p.text) => Rest(p) = <<>>
           /\ p.cursor = 0 => Rest(p) = p.text
<1>1. p.text \in Seq(Unit) /\ p.cursor \in Nat /\ p.index \in Nat
  BY DEF PayloadType
<1>2. Len(p.text) \in Nat
  BY <1>1, LenProperties
<1>3. Rest(p) \in Seq(Unit)
  BY <1>1, <1>2, PartOf DEF Rest
<1>4. p.cursor = Len(p.text) => Rest(p) = <<>>
  BY <1>1, <1>2, SubSeqEmpty DEF Rest
<1>5. p.cursor = 0 => Rest(p) = p.text
  BY <1>1, SubSeqFull DEF Rest
<1> QED
  BY <1>3, <1>4, <1>5

LEMMA DownloadInit ==
    ASSUME TraceInit
    PROVE  DownloadInv
  BY DEF TraceInit, DownloadInv, NoPayload

(* The logger's operations: new events follow those delivered.             *)
LEMMA DownloadLogged ==
    ASSUME DownloadInv, UNCHANGED payload,
           \/ events' = <<>> /\ since' = "cleared" /\ body' = <<>>
           \/ UNCHANGED <<events, since, body>>
           \/ /\ \E id \in EventIds, phase \in Phases : events' = Append(events, <<id, phase>>)
              /\ since' = (IF since = "cleared" THEN since ELSE "grown")
              /\ UNCHANGED body
    PROVE  DownloadInv'
<1>1. CASE events' = <<>> /\ since' = "cleared" /\ body' = <<>>
  BY <1>1 DEF DownloadInv, Fetching
<1>2. CASE UNCHANGED <<events, since, body>>
  BY <1>2 DEF DownloadInv, Fetching, Delivered, Rest, IsJson, IsDocument
<1>3. ASSUME NEW id \in EventIds, NEW phase \in Phases, events' = Append(events, <<id, phase>>),
             since' = (IF since = "cleared" THEN since ELSE "grown"), UNCHANGED body
      PROVE  DownloadInv'
  <2>0. since' # "quiet" /\ since' \in {"quiet", "grown", "cleared"}
        /\ (since' # "cleared" => since # "cleared")
    BY <1>3 DEF DownloadInv
  <2>1. /\ events' \in Seq(EventIds \X Phases) /\ Len(events') = Len(events) + 1
        /\ Len(events) \in Nat /\ \A k \in 1 .. Len(events) : events'[k] = events[k]
    BY <1>3, AppendProperties, LenProperties DEF DownloadInv
  <2>2. ASSUME payload' # NoPayload
        PROVE  Fetching'
    <3>1. Fetching /\ payload.index \in Nat
      BY <2>2 DEF DownloadInv, Fetching, PayloadType
    <3>2. Delivered' = Delivered
      BY <1>3 DEF Delivered, Rest
    <3>3. ASSUME since' # "cleared"
          PROVE  payload'.index <= Len(events') /\ IsJson(Delivered, payload.index)'
      <4>1. payload.index <= Len(events) /\ IsJson(Delivered, payload.index)
        BY <2>0, <3>1, <3>3 DEF Fetching
      <4>2. \A k \in 1 .. payload.index : k \in 1 .. Len(events)
        BY <2>1, <3>1, <4>1
      <4> QED
        BY <2>1, <3>1, <3>2, <4>1, <4>2 DEF IsJson
    <3> QED
      BY <2>0, <3>1, <3>3 DEF Fetching
  <2> QED
    BY <1>3, <2>0, <2>1, <2>2 DEF DownloadInv
<1> QED
  BY <1>1, <1>2, <1>3

LEMMA DownloadCreate ==
    ASSUME DownloadInv, Create
    PROVE  DownloadInv'
<1>1. <<>> \in Seq(Unit) /\ Len(<<>>) = 0 /\ <<>> \o <<>> = <<>>
  BY EmptySeq, ConcatEmptySeq
<1>2. payload' \in PayloadType /\ payload'.cursor = 0 /\ payload'.index = 0 /\ payload'.text = <<>>
  BY <1>1 DEF Create, PayloadType
<1>3. payload' # NoPayload /\ Rest(payload') = <<>>
  BY <1>2, PayloadIsRecord, RestIs
<1>4. Delivered' = <<>>
  BY <1>1, <1>3 DEF Delivered, Rest, Create
<1>5. Len(events') \in Nat
  BY LenProperties DEF DownloadInv, Create, log
<1>6. Fetching'
  BY <1>1, <1>2, <1>4, <1>5 DEF Fetching, IsJson
<1> QED
  BY <1>1, <1>3, <1>6 DEF DownloadInv, Create, log

(* The next event is fetched when all of the one before is committed.      *)
LEMMA DownloadGetReadPtr ==
    ASSUME DownloadInv, GetReadPtr
    PROVE  DownloadInv'
<1>0. /\ payload # NoPayload /\ payload \in PayloadType /\ Fetching
      /\ UNCHANGED <<events, body, since>> /\ payload' = Fetched(payload)
      /\ payload.text \in Seq(Unit) /\ payload.cursor \in Nat /\ payload.index \in Nat
  BY DEF GetReadPtr, log, DownloadInv, Fetching, PayloadType
<1>1. Len(events) \in Nat /\ body \in Seq(Unit) /\ events \in Seq(EventIds \X Phases)
  BY LenProperties DEF DownloadInv
<1>2. CASE payload.cursor = Len(payload.text) /\ payload.index < Len(events)
  <2>1. PICK close : close = IF IsLast(payload.index) THEN "close" ELSE "comma"
    OBVIOUS
  <2>2. close \in {"comma", "close"}
    BY <2>1
  <2>3. PICK n : n = payload.index
    OBVIOUS
  <2>4. n \in Nat /\ n < Len(events) /\ n + 1 \in Nat /\ n + 1 <= Len(events)
    BY <1>0, <1>1, <1>2, <2>3
  <2>5. payload' = [payload EXCEPT !.text = Json(n + 1, n = 0, close), !.cursor = 0,
                                   !.index = @ + 1]
    BY <1>0, <1>2, <2>1, <2>3 DEF Fetched
  <2>6. Rest(payload) = <<>> /\ Delivered = body
    BY <1>0, <1>1, <1>2, RestIs, ConcatEmptySeq DEF Delivered
  <2>7. Json(n + 1, n = 0, close) \in Seq(Unit)
    <3>0. n + 1 \in 1 .. Len(events)
      BY <1>1, <2>4
    <3>2. events[n + 1] \in Unit /\ <<close>> \in Unit /\ <<"open">> \in Unit
      BY Zenon, <1>1, <2>2, <3>0, UnitTypes
    <3>3. /\ <<events[n + 1], <<close>>>> \in Seq(Unit)
          /\ (IF n = 0 THEN <<<<"open">>>> ELSE <<>>) \in Seq(Unit)
      BY <3>2
    <3> QED
      BY <3>3, ConcatProperties DEF Json
  <2>8. /\ payload' \in PayloadType /\ payload'.cursor = 0 /\ payload'.index = n + 1
        /\ payload'.text = Json(n + 1, n = 0, close)
    <3>1. PICK text : text = Json(n + 1, n = 0, close)
      OBVIOUS
    <3>2. PICK q : q = payload
      OBVIOUS
    <3>3. q \in PayloadType /\ text \in Seq(Unit) /\ n + 1 \in Nat /\ q.index = n
      BY <1>0, <2>3, <2>4, <2>7, <3>1, <3>2
    <3>4. payload' = [q EXCEPT !.text = text, !.cursor = 0, !.index = n + 1]
      BY <2>3, <2>5, <3>1, <3>2
    <3>5. /\ payload' \in PayloadType /\ payload'.cursor = 0 /\ payload'.index = n + 1
          /\ payload'.text = text
      <4>1. PICK texts : texts = Seq(Unit)
        OBVIOUS
      <4>2. q \in [text : texts, cursor : Nat, index : Nat] /\ text \in texts
        BY <3>3, <4>1 DEF PayloadType
      <4>3. /\ payload' \in [text : texts, cursor : Nat, index : Nat]
            /\ payload'.cursor = 0 /\ payload'.index = n + 1 /\ payload'.text = text
        BY <3>3, <3>4, <4>2
      <4> QED
        BY <4>1, <4>3 DEF PayloadType
    <3> QED
      BY <3>1, <3>5
  <2>9. Rest(payload') = Json(n + 1, n = 0, close)
    BY <2>8, RestIs
  <2>10. Delivered' = body \o Json(n + 1, n = 0, close)
    BY <1>0, <2>9 DEF Delivered, Rest
  <2>11. payload'.cursor <= Len(payload'.text)
    BY <2>7, <2>8, LenProperties
  <2>12. ASSUME since # "cleared"
         PROVE  /\ IsJson(Delivered, payload.index)'
                /\ Delivered'[2 * (n + 1) + 1] = <<close>>
                /\ \A k \in 1 .. n : Delivered'[2 * k + 1] = body[2 * k + 1]
    <3>1. IsJson(body, n)
      BY <1>0, <2>3, <2>6, <2>12 DEF Fetching
    <3>2. LET d == body \o Json(n + 1, n = 0, close) IN
          /\ Json(n + 1, n = 0, close) \in Seq(Unit)
          /\ d \in Seq(Unit) /\ IsJson(d, n + 1)
          /\ d[2 * (n + 1) + 1] = <<close>>
          /\ \A k \in 1 .. n : d[2 * k + 1] = body[2 * k + 1]
      BY Zenon, <1>1, <2>2, <2>4, <3>1, NextEventIs
    <3>3. PICK d : /\ d = body \o Json(n + 1, n = 0, close) /\ IsJson(d, n + 1)
                   /\ d[2 * (n + 1) + 1] = <<close>>
                   /\ \A k \in 1 .. n : d[2 * k + 1] = body[2 * k + 1]
      BY Zenon, <3>2
    <3>4. Delivered' = d /\ payload'.index = n + 1 /\ events' = events
      BY Zenon, <1>0, <2>8, <2>10, <3>3
    <3>5. IsJson(Delivered, payload.index)'
      BY <3>3, <3>4 DEF IsJson
    <3> QED
      BY Zenon, <3>3, <3>4, <3>5
  <2>13. ASSUME since = "quiet", NEW k \in 1 .. n + 1
         PROVE  Delivered'[2 * k + 1] = <<IF k = Len(events) THEN "close" ELSE "comma">>
    <3>1. CASE k = n + 1
      <4>1. IsLast(payload.index) <=> k = Len(events)
        BY <1>1, <2>3, <2>4, <3>1 DEF IsLast
      <4> QED
        BY <2>1, <2>12, <2>13, <3>1, <4>1
    <3>2. CASE k # n + 1
      <4>1. k \in 1 .. n
        BY <2>4, <3>2
      <4> QED
        BY <1>0, <2>3, <2>6, <2>12, <2>13, <4>1 DEF Fetching
    <3> QED
      BY <3>1, <3>2
  <2>14. Fetching'
    BY <1>0, <2>4, <2>8, <2>11, <2>12, <2>13 DEF Fetching
  <2> QED
    BY <1>0, <2>8, <2>14, PayloadIsRecord DEF DownloadInv
<1>3. CASE ~(payload.cursor = Len(payload.text) /\ payload.index < Len(events))
  <2>1. payload' = payload
    BY <1>0, <1>3 DEF Fetched
  <2>2. Delivered' = Delivered
    BY <1>0, <2>1 DEF Delivered, Rest
  <2>3. Fetching'
    BY <1>0, <2>1, <2>2 DEF Fetching, IsJson
  <2> QED
    BY Zenon, <1>0, <2>1, <2>3 DEF DownloadInv
<1> QED
  BY <1>2, <1>3

LEMMA DownloadCommitRead ==
    ASSUME DownloadInv, NEW n \in 1 .. 3, CommitEvents(n)
    PROVE  DownloadInv'
<1>0. /\ payload # NoPayload /\ payload \in PayloadType /\ Fetching
      /\ UNCHANGED <<events, since>>
      /\ payload.text \in Seq(Unit) /\ payload.cursor \in Nat /\ payload.index \in Nat
  BY DEF CommitEvents, log, DownloadInv, Fetching, PayloadType
<1>1. /\ Len(events) \in Nat /\ body \in Seq(Unit) /\ Len(payload.text) \in Nat
  BY <1>0, LenProperties DEF DownloadInv
<1>2. n \in Nat /\ payload.cursor + n \in Nat /\ payload.cursor + n <= Len(payload.text)
  BY <1>0, <1>1 DEF CommitEvents
<1>3. PICK p : p = [payload EXCEPT !.cursor = @ + n]
  OBVIOUS
<1>4. /\ p \in PayloadType /\ p.cursor = payload.cursor + n /\ p.text = payload.text
      /\ p.index = payload.index
  BY <1>0, <1>2, <1>3 DEF PayloadType
<1>5. payload' = IF IsComplete(p) THEN NoPayload ELSE p
  BY <1>3 DEF CommitEvents
<1>6. /\ since = "cleared" => body' = body
      /\ since # "cleared" => body' = body \o SubSeq(payload.text, payload.cursor + 1,
                                                      payload.cursor + n)
  BY DEF CommitEvents
<1>7. /\ body' \in Seq(Unit)
      /\ since # "cleared" => body' \o Rest(p) = Delivered
  <2>1. PICK x, c : x = payload.text /\ c = payload.cursor
    OBVIOUS
  <2>2. PICK front : front = SubSeq(x, c + 1, c + n)
    OBVIOUS
  <2>3. /\ body \o front \in Seq(Unit)
        /\ (body \o front) \o SubSeq(x, c + n + 1, Len(x)) = body \o SubSeq(x, c + 1, Len(x))
    <3>1. x \in Seq(Unit) /\ c \in Nat /\ c + n <= Len(x) /\ n \in Nat /\ body \in Seq(Unit)
      BY <1>0, <1>1, <1>2, <2>1
    <3> QED
      BY Zenon, <2>2, <3>1, CommitMoves
  <2>4. Rest(p) = SubSeq(x, c + n + 1, Len(x)) /\ Delivered = body \o SubSeq(x, c + 1, Len(x))
    BY <1>4, <2>1 DEF Delivered, Rest
  <2>5. since # "cleared" => body' = body \o front
    BY <1>6, <2>1, <2>2
  <2> QED
    BY Zenon, <1>1, <1>6, <2>3, <2>4, <2>5
<1>8. CASE IsComplete(p)
  <2>1. Rest(p) = <<>> /\ payload.index >= Len(events)
    BY <1>4, <1>8, RestIs DEF IsComplete
  <2>2. ASSUME since = "quiet"
        PROVE  IsDocument(body)'
    <3>1. body' = Delivered
      BY <1>7, <2>1, <2>2, ConcatEmptySeq
    <3>2. payload.index = Len(events) /\ IsJson(Delivered, Len(events))
      <4>1. payload.index <= Len(events) /\ IsJson(Delivered, payload.index)
        BY <1>0, <2>2 DEF Fetching
      <4> QED
        BY <1>0, <1>1, <2>1, <4>1
    <3>3. DOMAIN events = 1 .. Len(events)
      BY LenProperties DEF DownloadInv
    <3>4. \A k \in DOMAIN events :
              Delivered[2 * k + 1] = <<IF k = Len(events) THEN "close" ELSE "comma">>
      BY Zenon, <1>0, <2>2, <3>2, <3>3 DEF Fetching
    <3> QED
      BY <1>0, <3>1, <3>2, <3>4 DEF IsDocument, IsJson
  <2>3. payload' = NoPayload
    BY <1>5, <1>8
  <2> QED
    BY <1>0, <1>7, <2>2, <2>3 DEF DownloadInv
<1>9. CASE ~IsComplete(p)
  <2>1. payload' = p /\ payload' # NoPayload
    BY <1>4, <1>5, <1>9, PayloadIsRecord
  <2>2. since # "cleared" => Delivered' = Delivered
    BY <1>7, <2>1 DEF Delivered, Rest
  <2>3. Fetching'
    BY <1>0, <1>2, <1>4, <2>1, <2>2 DEF Fetching, IsJson
  <2> QED
    BY <1>0, <1>7, <2>1, <2>3 DEF DownloadInv
<1> QED
  BY <1>8, <1>9

LEMMA DownloadNext ==
    ASSUME DownloadInv, [TraceNext]_traceVars
    PROVE  DownloadInv'
<1>1. CASE \E n \in Reservations : Enable(n)
  BY <1>1, DownloadLogged DEF Enable
<1>2. CASE Disable \/ UNCHANGED traceVars
  BY <1>2, DownloadLogged DEF Disable, traceVars
<1>3. ASSUME NEW t \in Threads, NEW n \in 1 .. MaxNested, Begin(t, n) \/ End(t, n)
      PROVE  DownloadInv'
  <2>1. UNCHANGED <<payload, body>> /\ \E phase \in Phases : AddEventTrace(t, phase)
    BY <1>3 DEF Begin, End, Phases
  <2> QED
    BY <2>1, IdIs, DownloadLogged DEF AddEventTrace
<1> QED
  BY <1>1, <1>2, <1>3, DownloadCreate, DownloadGetReadPtr, DownloadCommitRead DEF TraceNext

(* While threads record, a download gives the events in order, none twice  *)
(* and none left out, unless they are cleared, with a comma or a closing   *)
(* bracket behind each.  Only if nothing was recorded or cleared since it  *)
(* was created it is one whole array, of the size that was announced.      *)
THEOREM DownloadsAreExact == TraceSpec => []DownloadIsExact
<1>1. DownloadInv => DownloadIsExact
  <2>1. ASSUME IsDocument(body), body # <<>>, body \in Seq(Unit), Len(events) \in Nat
        PROVE  Len(body) = JsonSize
    <3>1. Len(body) # 0
      BY <2>1, EmptySeq
    <3> QED
      BY <2>1, <3>1 DEF IsDocument, IsJson, JsonSize
  <2>2. DownloadInv => Len(events) \in Nat
    BY LenProperties DEF DownloadInv
  <2> QED
    BY <2>1, <2>2 DEF DownloadInv, Fetching, Delivered, DownloadIsExact
<1> QED
  BY <1>1, DownloadInit, DownloadNext, PTL DEF TraceSpec

-----------------------------------------------------------------------------
(* PacketSync: the packets delivered                                       *)

Ascending(ps) == \A i, j \in DOMAIN ps : i <= j => ps[i] <= ps[j]

(* How many of the packets pushed do not wait any more.                    *)
Gone(s) == Len(pushed[s]) - Len(packets[s])

(* The reference packet popped last.                                       *)
Latest == pushed[Reference][Gone(Reference)]

Waiting(s) ==
    /\ Gone(s) \in Nat
    /\ \A i \in 1 .. Len(packets[s]) : packets[s][i] = pushed[s][Gone(s) + i]

(* None of the packets that are gone is nearer to a reference packet to    *)
(* come than the first that waits.                                         *)
NoneMissed(s) ==
    /\ packets[s] = <<>> => pushed[s] = <<>>
    /\ Gone(s) > 0 =>
           /\ Gone(Reference) > 0
           /\ \A i \in 1 .. Gone(s) :
                  Distance(packets[s][1], Latest) <= Distance(pushed[s][i], Latest)

StreamsInv ==
    /\ packets \in [Streams -> Seq(Times)] /\ pushed \in [Streams -> Seq(Times)]
    /\ \A s \in Streams : Ascending(pushed[s]) /\ Waiting(s)

SyncInv == StreamsInv /\ \A s \in Others : NoneMissed(s)

LEMMA DistanceIs ==
    ASSUME NEW a \in Nat, NEW b \in Nat
    PROVE  Distance(a, b) \in Nat /\ Distance(a, b) = IF a <= b THEN b - a ELSE a - b
  BY DEF Distance

LEMMA Above ==
    ASSUME NEW t \in Nat, NEW a \in Nat, NEW b \in Nat, t <= a, a <= b
    PROVE  Distance(a, t) <= Distance(b, t)
  BY DEF Distance

LEMMA Below ==
    ASSUME NEW t \in Nat, NEW a \in Nat, NEW b \in Nat, a <= b, b < t
    PROVE  Distance(b, t) <= Distance(a, t)
  BY DEF Distance

LEMMA NearerThan ==
    ASSUME NEW t \in Nat, NEW a \in Nat, NEW b \in Nat, NEW c \in Nat,
           Distance(b, t) <= Distance(c, t)
    PROVE  /\ Distance(a, t) < Distance(b, t) => Distance(a, t) <= Distance(c, t)
           /\ Distance(a, t) <= Distance(b, t) => Distance(a, t) <= Distance(c, t)
  BY DEF Distance

LEMMA Difference ==
    ASSUME NEW n \in Nat, NEW m \in Nat, NEW g \in Nat, g = n - m
    PROVE  g \in 0 .. n /\ n = g + m /\ \A i \in 1 .. m : g + i \in 1 .. n
  OBVIOUS

LEMMA OneFewer ==
    ASSUME NEW n \in Nat, NEW m \in Nat
    PROVE  n - (m - 1) = (n - m) + 1
  OBVIOUS

LEMMA SomeFewer ==
    ASSUME NEW n \in Nat, NEW m \in Nat, n - m \in Nat, NEW a \in 1 .. m
    PROVE  /\ n - (m - a + 1) = (n - m) + (a - 1)
           /\ (n - m) + (a - 1) \in Nat /\ (n - m) + (a - 1) <= n
  OBVIOUS

(* A later packet that is as near stays as near to all that come.          *)
LEMMA StaysNear ==
    ASSUME NEW u \in Nat, NEW p \in Nat, NEW t \in Nat, NEW ts \in Nat,
           u <= p, t <= ts, Distance(p, t) <= Distance(u, t)
    PROVE  Distance(p, ts) <= Distance(u, ts)
  BY DEF Distance

LEMMA ClosestIs ==
    ASSUME NEW ps \in Seq(Nat), Ascending(ps), NEW ts \in Nat, Surrounded(ts, ps),
           NEW at \in Closest(ts, ps)
    PROVE  /\ at \in DOMAIN ps
           /\ \A i \in DOMAIN ps : Distance(ps[at], ts) <= Distance(ps[i], ts)
<1>1. /\ Len(ps) \in Nat /\ DOMAIN ps = 1 .. Len(ps)
      /\ \A i \in 1 .. Len(ps) : ps[i] \in Nat
  BY LenProperties, ElementOfSeq
<1>2. PICK low : low = LowerBound(ts, ps)
  OBVIOUS
<1>3. PICK S : S = {i \in DOMAIN ps : ts <= ps[i]} \cup {Len(ps) + 1}
  OBVIOUS
<1>4. S \in SUBSET Nat /\ S # {} /\ low = Min(S)
  BY <1>1, <1>2, <1>3 DEF LowerBound
<1>5. low \in S /\ \A i \in S : low <= i
  BY <1>4, LeastIs
<1>6. /\ low \in 1 .. Len(ps) /\ (ps[low] = ts \/ low - 1 \in 1 .. Len(ps))
      /\ at \in IF ps[low] # ts /\ Distance(ps[low - 1], ts) < Distance(ps[low], ts)
                THEN {low - 1} ELSE {low}
  BY <1>1, <1>2 DEF Surrounded, Closest
<1>7. ts <= ps[low]
  BY <1>1, <1>3, <1>5, <1>6
<1>8. \A i \in 1 .. Len(ps) : /\ i <= low \/ low <= i
                              /\ low <= i => ps[low] <= ps[i]
                              /\ ~(low <= i) => ps[i] < ts /\ i <= low - 1
  BY <1>1, <1>3, <1>5, <1>6 DEF Ascending
<1>9. ASSUME NEW i \in 1 .. Len(ps), low <= i
      PROVE  Distance(ps[low], ts) <= Distance(ps[i], ts)
  <2>1. ps[low] \in Nat /\ ps[i] \in Nat /\ ts <= ps[low] /\ ps[low] <= ps[i]
    BY <1>1, <1>6, <1>7, <1>8, <1>9
  <2> QED
    BY <2>1, Above
<1>10. CASE ps[low] = ts
  <2>1. at = low
    BY <1>6, <1>10
  <2>2. ASSUME NEW i \in 1 .. Len(ps)
        PROVE  Distance(ps[low], ts) <= Distance(ps[i], ts)
    <3>1. Distance(ps[low], ts) = 0 /\ ps[i] \in Nat
      BY <1>1, <1>10, DistanceIs
    <3>2. Distance(ps[i], ts) \in Nat
      BY <3>1, DistanceIs
    <3> QED
      BY <3>1, <3>2
  <2> QED
    BY <1>1, <1>6, <2>1, <2>2
<1>11. CASE ps[low] # ts
  <2>1. low - 1 \in 1 .. Len(ps) /\ ~(low <= low - 1)
    BY <1>6, <1>11
  <2>2. ps[low - 1] \in Nat /\ ps[low] \in Nat
    BY <1>1, <1>6, <2>1
  <2>3. ASSUME NEW i \in 1 .. Len(ps), ~(low <= i)
        PROVE  Distance(ps[low - 1], ts) <= Distance(ps[i], ts)
    <3>1. ps[i] <= ps[low - 1] /\ ps[low - 1] < ts /\ ps[i] \in Nat
      BY <1>1, <1>8, <2>1, <2>3 DEF Ascending
    <3> QED
      BY <2>2, <3>1, Below
  <2>4. CASE Distance(ps[low - 1], ts) < Distance(ps[low], ts)
    <3>1. at = low - 1
      BY <1>6, <1>11, <2>4
    <3>2. ASSUME NEW i \in 1 .. Len(ps), low <= i
          PROVE  Distance(ps[low - 1], ts) <= Distance(ps[i], ts)
      <4>1. Distance(ps[low], ts) <= Distance(ps[i], ts) /\ ps[i] \in Nat
        BY <1>1, <1>9, <3>2
      <4> QED
        BY <2>2, <2>4, <4>1, NearerThan
    <3> QED
      BY <1>1, <2>1, <2>3, <3>1, <3>2
  <2>5. CASE ~(Distance(ps[low - 1], ts) < Distance(ps[low], ts))
    <3>1. at = low
      BY <1>6, <1>11, <2>5
    <3>2. Distance(ps[low], ts) <= Distance(ps[low - 1], ts)
      <4>1. Distance(ps[low], ts) \in Nat /\ Distance(ps[low - 1], ts) \in Nat
        BY <2>2, DistanceIs
      <4> QED
        BY <2>5, <4>1
    <3>3. ASSUME NEW i \in 1 .. Len(ps), ~(low <= i)
          PROVE  Distance(ps[low], ts) <= Distance(ps[i], ts)
      <4>1. Distance(ps[low - 1], ts) <= Distance(ps[i], ts) /\ ps[i] \in Nat
        BY <1>1, <2>3, <3>3
      <4> QED
        BY <2>2, <3>2, <4>1, NearerThan
    <3> QED
      BY <1>1, <1>6, <1>9, <3>1, <3>3
  <2> QED
    BY <2>4, <2>5
<1> QED
  BY <1>10, <1>11

LEMMA StreamIs ==
    ASSUME StreamsInv, NEW s \in Streams
    PROVE  /\ Times \subseteq Nat
           /\ packets[s] \in Seq(Times) /\ pushed[s] \in Seq(Times)
           /\ Len(packets[s]) \in Nat /\ Len(pushed[s]) \in Nat
           /\ DOMAIN packets[s] = 1 .. Len(packets[s]) /\ DOMAIN pushed[s] = 1 .. Len(pushed[s])
           /\ \A i \in 1 .. Len(packets[s]) : packets[s][i] \in Nat
           /\ \A i \in 1 .. Len(pushed[s]) : pushed[s][i] \in Nat
           /\ Gone(s) \in 0 .. Len(pushed[s]) /\ Len(pushed[s]) = Gone(s) + Len(packets[s])
           /\ \A i \in 1 .. Len(packets[s]) :
                  Gone(s) + i \in 1 .. Len(pushed[s]) /\ packets[s][i] = pushed[s][Gone(s) + i]
<1>1. Times \subseteq Nat /\ packets[s] \in Seq(Times) /\ pushed[s] \in Seq(Times)
  BY SyncAssumption DEF StreamsInv
<1>2. /\ Len(packets[s]) \in Nat /\ Len(pushed[s]) \in Nat
      /\ DOMAIN packets[s] = 1 .. Len(packets[s]) /\ DOMAIN pushed[s] = 1 .. Len(pushed[s])
      /\ \A i \in 1 .. Len(packets[s]) : packets[s][i] \in Nat
      /\ \A i \in 1 .. Len(pushed[s]) : pushed[s][i] \in Nat
  BY <1>1, LenProperties, ElementOfSeq
<1>3. Gone(s) \in Nat /\ \A i \in 1 .. Len(packets[s]) : packets[s][i] = pushed[s][Gone(s) + i]
  BY DEF StreamsInv, Waiting
<1>4. Gone(s) = Len(pushed[s]) - Len(packets[s])
  BY DEF Gone
<1>5. /\ Gone(s) \in 0 .. Len(pushed[s]) /\ Len(pushed[s]) = Gone(s) + Len(packets[s])
      /\ \A i \in 1 .. Len(packets[s]) : Gone(s) + i \in 1 .. Len(pushed[s])
  BY <1>2, <1>3, <1>4, Difference
<1> QED
  BY Zenon, <1>1, <1>2, <1>3, <1>5

LEMMA WaitingAscend ==
    ASSUME StreamsInv, NEW s \in Streams
    PROVE  Ascending(packets[s]) /\ packets[s] \in Seq(Nat)
<1>1. Ascending(pushed[s])
  BY DEF StreamsInv
<1>2. packets[s] \in Seq(Nat)
  BY StreamIs, SeqMonotonic
<1>3. ASSUME NEW i \in 1 .. Len(packets[s]), NEW j \in 1 .. Len(packets[s]), i <= j
      PROVE  packets[s][i] <= packets[s][j]
  <2>1. Gone(s) + i <= Gone(s) + j
    BY <1>3, StreamIs
  <2>2. /\ Gone(s) + i \in DOMAIN pushed[s] /\ Gone(s) + j \in DOMAIN pushed[s]
        /\ packets[s][i] = pushed[s][Gone(s) + i] /\ packets[s][j] = pushed[s][Gone(s) + j]
    BY StreamIs
  <2> QED
    BY <1>1, <2>1, <2>2 DEF Ascending
<1>4. DOMAIN packets[s] = 1 .. Len(packets[s])
  BY StreamIs
<1> QED
  BY <1>2, <1>3, <1>4 DEF Ascending

LEMMA SyncStart == packets = Empty /\ pushed = Empty => SyncInv
<1> SUFFICES ASSUME packets = Empty, pushed = Empty
             PROVE  SyncInv
  OBVIOUS
<1>1. PICK e : e = <<>>
  OBVIOUS
<1>2. e \in Seq(Times) /\ Len(e) = 0 /\ DOMAIN e = {}
  BY <1>1, EmptySeq
<1>3. Empty \in [Streams -> Seq(Times)] /\ \A s \in Streams : Empty[s] = e
  BY <1>1, <1>2 DEF Empty
<1>4. ASSUME NEW s \in Streams
      PROVE  packets[s] = e /\ pushed[s] = e
  BY <1>3
<1>5. \A s \in Streams : Gone(s) = 0
  BY <1>2, <1>4 DEF Gone
<1>6. \A s \in Streams : Ascending(pushed[s]) /\ Waiting(s)
  BY <1>2, <1>4, <1>5 DEF Waiting, Ascending
<1>7. StreamsInv
  BY <1>3, <1>6 DEF StreamsInv
<1> QED
  BY <1>1, <1>4, <1>5, <1>7 DEF SyncInv, NoneMissed, Streams

(* A packet accepted is not older than those before it.                    *)
LEMMA PushedInOrder ==
    ASSUME Careful, StreamsInv, NEW s \in Streams, NEW ts \in Times, Push(s, ts)
    PROVE  \A i \in 1 .. Len(pushed[s]) : pushed[s][i] <= ts
<1>1. /\ Len(pushed[s]) \in Nat /\ Len(packets[s]) \in Nat /\ ts \in Nat
      /\ DOMAIN pushed[s] = 1 .. Len(pushed[s]) /\ Ascending(pushed[s])
      /\ packets[s] \in Seq(Times) /\ pushed[s] \in Seq(Times)
      /\ \A i \in 1 .. Len(pushed[s]) : pushed[s][i] \in Nat
  BY StreamIs DEF StreamsInv
<1>2. SUFFICES ASSUME NEW i \in 1 .. Len(pushed[s])
               PROVE  pushed[s][i] <= ts
  OBVIOUS
<1>3. Len(pushed[s]) \in 1 .. Len(pushed[s]) /\ pushed[s] # <<>>
  BY <1>1, <1>2, EmptySeq
<1>4. pushed[s][Len(pushed[s])] <= ts
  <2>1. CASE packets[s] = <<>>
    BY <1>3, <2>1 DEF Push, Ordered, Last
  <2>2. CASE packets[s] # <<>>
    <3>1. Len(packets[s]) \in 1 .. Len(packets[s])
      BY <1>1, <2>2, EmptySeq
    <3>2. packets[s][Len(packets[s])] = pushed[s][Gone(s) + Len(packets[s])]
      BY <3>1, StreamIs
    <3>3. Gone(s) + Len(packets[s]) = Len(pushed[s])
      BY StreamIs
    <3>4. packets[s][Len(packets[s])] <= ts
      BY <2>2 DEF Push, IsMonotonic, Last
    <3> QED
      BY <3>2, <3>3, <3>4
  <2> QED
    BY <2>1, <2>2
<1>5. pushed[s][i] <= pushed[s][Len(pushed[s])]
  BY <1>1, <1>2, <1>3 DEF Ascending
<1> QED
  BY <1>1, <1>3, <1>4, <1>5

LEMMA AppendAscends ==
    ASSUME NEW ps \in Seq(Nat), NEW ts \in Nat, Ascending(ps),
           \A i \in 1 .. Len(ps) : ps[i] <= ts
    PROVE  Ascending(Append(ps, ts))
<1>1. PICK qs : qs = Append(ps, ts)
  OBVIOUS
<1>2. /\ Len(ps) \in Nat /\ DOMAIN ps = 1 .. Len(ps)
      /\ Len(qs) = Len(ps) + 1 /\ DOMAIN qs = 1 .. Len(ps) + 1
      /\ \A i \in 1 .. Len(ps) : qs[i] = ps[i]
      /\ qs[Len(ps) + 1] = ts
  BY <1>1, AppendProperties, LenProperties
<1>3. ASSUME NEW i \in 1 .. Len(ps) + 1, NEW j \in 1 .. Len(ps) + 1, i <= j
      PROVE  qs[i] <= qs[j]
  <2>1. CASE j = Len(ps) + 1
    <3>1. i = Len(ps) + 1 \/ i \in 1 .. Len(ps)
      BY <1>2
    <3> QED
      BY <1>2, <2>1, <3>1
  <2>2. CASE j # Len(ps) + 1
    <3>1. i \in 1 .. Len(ps) /\ j \in 1 .. Len(ps)
      BY <1>2, <1>3, <2>2
    <3> QED
      BY <1>2, <1>3, <3>1 DEF Ascending
  <2> QED
    BY <2>1, <2>2
<1>4. Ascending(qs)
  BY <1>2, <1>3 DEF Ascending
<1> QED
  BY <1>1, <1>4

LEMMA PushKeeps ==
    ASSUME Careful, SyncInv, NEW s \in Streams, NEW ts \in Times, Push(s, ts)
    PROVE  SyncInv'
<1>0. StreamsInv /\ Times \subseteq Nat /\ ts \in Nat
  BY StreamIs DEF SyncInv
<1>1. /\ packets' = [packets EXCEPT ![s] = Append(packets[s], ts)]
      /\ pushed' = [pushed EXCEPT ![s] = Append(pushed[s], ts)]
  BY DEF Push
<1>2. /\ packets[s] \in Seq(Times) /\ pushed[s] \in Seq(Times)
      /\ Len(packets[s]) \in Nat /\ Len(pushed[s]) \in Nat
  BY <1>0, StreamIs
<1>3. /\ packets' \in [Streams -> Seq(Times)] /\ pushed' \in [Streams -> Seq(Times)]
      /\ \A r \in Streams \ {s} : packets'[r] = packets[r] /\ pushed'[r] = pushed[r]
      /\ packets'[s] = Append(packets[s], ts) /\ pushed'[s] = Append(pushed[s], ts)
  BY <1>0, <1>1, <1>2, AppendProperties DEF StreamsInv
<1>4. /\ Len(packets'[s]) = Len(packets[s]) + 1 /\ Len(pushed'[s]) = Len(pushed[s]) + 1
      /\ \A i \in 1 .. Len(packets[s]) : packets'[s][i] = packets[s][i]
      /\ \A i \in 1 .. Len(pushed[s]) : pushed'[s][i] = pushed[s][i]
      /\ packets'[s][Len(packets[s]) + 1] = ts /\ pushed'[s][Len(pushed[s]) + 1] = ts
  BY <1>2, <1>3, AppendProperties
<1>5. Gone(s)' = Gone(s)
  BY <1>2, <1>4 DEF Gone
<1>6. \A r \in Streams : Gone(r)' = Gone(r)
  BY <1>3, <1>5 DEF Gone
<1>7. Waiting(s)'
  <2>1. ASSUME NEW i \in 1 .. Len(packets[s]) + 1
        PROVE  packets'[s][i] = pushed'[s][Gone(s) + i]
    <3>1. CASE i \in 1 .. Len(packets[s])
      <4>1. Gone(s) + i \in 1 .. Len(pushed[s]) /\ packets[s][i] = pushed[s][Gone(s) + i]
        BY <1>0, <3>1, StreamIs
      <4> QED
        BY <1>4, <3>1, <4>1
    <3>2. CASE i = Len(packets[s]) + 1
      <4>1. Gone(s) + i = Len(pushed[s]) + 1
        <5>1. Gone(s) \in Nat /\ Len(pushed[s]) = Gone(s) + Len(packets[s])
          BY <1>0, StreamIs
        <5> QED
          BY <1>2, <3>2, <5>1
      <4> QED
        BY <1>4, <3>2, <4>1
    <3> QED
      BY <1>2, <3>1, <3>2
  <2> QED
    BY <1>0, <1>4, <1>5, <2>1, StreamIs DEF Waiting
<1>8. StreamsInv'
  <2>1. Ascending(pushed'[s])
    <3>1. pushed[s] \in Seq(Nat) /\ Ascending(pushed[s])
      BY <1>0, <1>2, SeqMonotonic DEF StreamsInv
    <3>2. \A i \in 1 .. Len(pushed[s]) : pushed[s][i] <= ts
      BY <1>0, PushedInOrder
    <3> QED
      BY <1>0, <1>3, <3>1, <3>2, AppendAscends
  <2>2. ASSUME NEW r \in Streams, r # s
        PROVE  Ascending(pushed'[r]) /\ Waiting(r)'
    <3>1. packets'[r] = packets[r] /\ pushed'[r] = pushed[r] /\ Gone(r)' = Gone(r)
      BY <1>3, <1>6, <2>2
    <3> QED
      BY <1>0, <3>1 DEF StreamsInv, Waiting
  <2> QED
    BY <1>3, <1>7, <2>1, <2>2 DEF StreamsInv
<1>9. Gone(Reference) > 0 => Latest' = Latest
  <2>1. Reference \in Streams
    BY DEF Streams
  <2>2. ASSUME Gone(Reference) > 0
        PROVE  Gone(Reference) \in 1 .. Len(pushed[Reference])
    <3>1. Gone(Reference) \in 0 .. Len(pushed[Reference]) /\ Len(pushed[Reference]) \in Nat
      BY <1>0, <2>1, StreamIs
    <3> QED
      BY <2>2, <3>1
  <2> QED
    BY <1>3, <1>4, <1>6, <2>1, <2>2 DEF Latest
<1>10. ASSUME NEW r \in Others
       PROVE  NoneMissed(r)'
  <2>0. r \in Streams /\ Reference \in Streams /\ NoneMissed(r)
    BY DEF Streams, SyncInv
  <2>1. ASSUME packets'[r] = <<>>
        PROVE  pushed'[r] = <<>>
    <3>1. r # s
      BY <1>2, <1>4, <2>1, EmptySeq
    <3> QED
      BY <1>3, <2>0, <2>1, <3>1 DEF NoneMissed
  <2>2. ASSUME Gone(r) > 0
        PROVE  /\ Gone(Reference) > 0
               /\ \A i \in 1 .. Gone(r) :
                      Distance(packets'[r][1], Latest) <= Distance(pushed'[r][i], Latest)
    <3>1. /\ Gone(r) \in 0 .. Len(pushed[r]) /\ Len(pushed[r]) \in Nat /\ Gone(r) \in Nat
          /\ Len(packets[r]) \in Nat /\ packets[r] \in Seq(Times)
      BY <1>0, <2>0, StreamIs
    <3>2. packets[r] # <<>>
      <4>1. pushed[r] # <<>>
        BY <2>2, <3>1, EmptySeq
      <4> QED
        BY <2>0, <4>1 DEF NoneMissed
    <3>3. 1 \in 1 .. Len(packets[r]) /\ \A i \in 1 .. Gone(r) : i \in 1 .. Len(pushed[r])
      BY <3>1, <3>2, EmptySeq
    <3>4. packets'[r][1] = packets[r][1] /\ \A i \in 1 .. Gone(r) : pushed'[r][i] = pushed[r][i]
      <4>1. CASE r = s
        BY <1>4, <3>3, <4>1
      <4>2. CASE r # s
        BY <1>3, <2>0, <4>2
      <4> QED
        BY <4>1, <4>2
    <3> QED
      BY <2>0, <2>2, <3>4 DEF NoneMissed
  <2> QED
    BY <1>6, <1>9, <2>0, <2>1, <2>2 DEF NoneMissed
<1> QED
  BY <1>8, <1>10 DEF SyncInv

(* The packet found is the nearest of all pushed, those that do not wait   *)
(* any more included.                                                      *)
LEMMA NearestOfAll ==
    ASSUME SyncInv, packets[Reference] # <<>>, NEW ts, ts = Head(packets[Reference]),
           NEW s \in Others, packets[s] # <<>>, Surrounded(ts, packets[s]),
           NEW at \in Closest(ts, packets[s])
    PROVE  /\ at \in 1 .. Len(packets[s]) /\ ts \in Nat
           /\ ts = pushed[Reference][Gone(Reference) + 1]
           /\ \A i \in 1 .. Len(pushed[s]) :
                  Distance(packets[s][at], ts) <= Distance(pushed[s][i], ts)
<1>0. StreamsInv /\ s \in Streams /\ Reference \in Streams /\ NoneMissed(s)
  BY DEF SyncInv, Streams
<1>1. 1 \in 1 .. Len(packets[Reference]) /\ 1 \in 1 .. Len(packets[s])
  <2>1. /\ packets[Reference] \in Seq(Times) /\ packets[s] \in Seq(Times)
        /\ Len(packets[Reference]) \in Nat /\ Len(packets[s]) \in Nat
    BY <1>0, StreamIs
  <2>2. Len(packets[Reference]) # 0 /\ Len(packets[s]) # 0
    BY <2>1, EmptySeq
  <2> QED
    BY <2>1, <2>2
<1>2. ts = packets[Reference][1]
  BY <1>0, StreamIs
<1>3. ts \in Nat /\ ts = pushed[Reference][Gone(Reference) + 1]
  BY <1>0, <1>1, <1>2, StreamIs
<1>4. /\ at \in DOMAIN packets[s]
      /\ \A i \in DOMAIN packets[s] : Distance(packets[s][at], ts) <= Distance(packets[s][i], ts)
  BY <1>0, <1>3, WaitingAscend, ClosestIs
<1>5. DOMAIN packets[s] = 1 .. Len(packets[s]) /\ Gone(s) \in Nat /\ Len(packets[s]) \in Nat
      /\ Len(pushed[s]) = Gone(s) + Len(packets[s]) /\ Len(pushed[s]) \in Nat
  BY <1>0, StreamIs
<1>6. packets[s][at] \in Nat /\ packets[s][1] \in Nat
  BY <1>0, <1>1, <1>4, <1>5, StreamIs
<1>7. ASSUME NEW i \in 1 .. Len(pushed[s])
      PROVE  Distance(packets[s][at], ts) <= Distance(pushed[s][i], ts)
  <2>0. pushed[s][i] \in Nat
    BY <1>0, StreamIs
  <2>1. CASE i > Gone(s)
    <3>1. i - Gone(s) \in 1 .. Len(packets[s]) /\ Gone(s) + (i - Gone(s)) = i
      BY <1>5, <2>1
    <3>2. packets[s][i - Gone(s)] = pushed[s][Gone(s) + (i - Gone(s))]
      BY <1>0, <3>1, StreamIs
    <3> QED
      BY <1>4, <1>5, <3>1, <3>2
  <2>2. CASE ~(i > Gone(s))
    <3>1. i \in 1 .. Gone(s) /\ Gone(s) > 0
      BY <1>5, <2>2
    <3>2. /\ Gone(Reference) > 0
          /\ Distance(packets[s][1], Latest) <= Distance(pushed[s][i], Latest)
      BY <1>0, <3>1 DEF NoneMissed
    <3>3. Latest \in Nat /\ Latest <= ts
      <4>1. /\ Gone(Reference) + 1 \in 1 .. Len(pushed[Reference]) /\ Gone(Reference) \in Nat
            /\ Len(pushed[Reference]) \in Nat
            /\ DOMAIN pushed[Reference] = 1 .. Len(pushed[Reference])
        BY <1>0, <1>1, StreamIs
      <4>2. Gone(Reference) \in 1 .. Len(pushed[Reference])
            /\ Gone(Reference) <= Gone(Reference) + 1
        BY <3>2, <4>1
      <4>3. Ascending(pushed[Reference])
        BY <1>0 DEF StreamsInv
      <4>4. pushed[Reference][Gone(Reference)] <= pushed[Reference][Gone(Reference) + 1]
        BY <4>1, <4>2, <4>3 DEF Ascending
      <4>5. pushed[Reference][Gone(Reference)] \in Nat
        BY <1>0, <4>2, StreamIs
      <4> QED
        BY <1>3, <4>4, <4>5 DEF Latest
    <3>4. pushed[s][i] <= packets[s][1]
      <4>1. Gone(s) + 1 \in 1 .. Len(pushed[s]) /\ packets[s][1] = pushed[s][Gone(s) + 1]
            /\ DOMAIN pushed[s] = 1 .. Len(pushed[s]) /\ Ascending(pushed[s])
        BY <1>0, <1>1, StreamIs DEF StreamsInv
      <4>2. i <= Gone(s) + 1
        BY <1>5, <3>1
      <4> QED
        BY <4>1, <4>2 DEF Ascending
    <3>5. Distance(packets[s][1], ts) <= Distance(pushed[s][i], ts)
      BY <1>3, <1>6, <2>0, <3>2, <3>3, <3>4, StaysNear
    <3>6. Distance(packets[s][at], ts) <= Distance(packets[s][1], ts)
      BY <1>1, <1>4, <1>5
    <3>7. /\ Distance(packets[s][at], ts) \in Nat /\ Distance(packets[s][1], ts) \in Nat
          /\ Distance(pushed[s][i], ts) \in Nat
      BY <1>3, <1>6, <2>0, DistanceIs
    <3> QED
      BY <3>5, <3>6, <3>7
  <2> QED
    BY <2>1, <2>2
<1> QED
  BY <1>3, <1>4, <1>5, <1>7

LEMMA RemainingIs ==
    ASSUME NEW T, NEW ps \in Seq(T), NEW at \in 1 .. Len(ps)
    PROVE  /\ Remaining(ps, at) \in Seq(T) /\ Len(Remaining(ps, at)) = Len(ps) - at + 1
           /\ \A i \in 1 .. Len(ps) - at + 1 :
                  Remaining(ps, at)[i] = ps[at + i - 1] /\ at + i - 1 \in 1 .. Len(ps)
<1>1. Len(ps) \in Nat
  BY LenProperties
<1>2. CASE at > 1
  <2>1. \A i \in at .. Len(ps) : ps[i] \in T
    BY <1>1, ElementOfSeq
  <2>2. /\ SubSeq(ps, at, Len(ps)) \in Seq(T)
        /\ Len(SubSeq(ps, at, Len(ps))) = Len(ps) - at + 1
        /\ \A i \in 1 .. Len(ps) - at + 1 : SubSeq(ps, at, Len(ps))[i] = ps[at + i - 1]
    BY <1>1, <2>1, SubSeqProperties
  <2> QED
    BY <1>1, <1>2, <2>2 DEF Remaining
<1>3. CASE ~(at > 1)
  <2>1. at = 1 /\ \A i \in 1 .. Len(ps) : at + i - 1 = i
    BY <1>1, <1>3
  <2> QED
    BY <1>1, <1>3, <2>1 DEF Remaining
<1> QED
  BY <1>2, <1>3

(* What pop does with one of the other streams.                            *)
LEMMA PopIs ==
    ASSUME Careful, SyncInv, Pop
    PROVE  /\ packets[Reference] # <<>> /\ UNCHANGED pushed
           /\ packets' = [s \in Streams |-> packets'[s]]
           /\ packets'[Reference] = Tail(packets[Reference])
           /\ \A s \in Others :
                  \/ packets[s] = <<>> /\ packets'[s] = <<>> /\ popped'[s] = Untouched
                  \/ /\ packets[s] # <<>> /\ Surrounded(Head(packets[Reference]), packets[s])
                     /\ \E at \in Closest(Head(packets[Reference]), packets[s]) :
                            /\ packets'[s] = Remaining(packets[s], at)
                            /\ popped'[s] = Found(packets[s], at)
           /\ popped'[Reference] = Head(packets[Reference])
<1>1. PICK waiting : waiting = {s \in Others : packets[s] # <<>>}
  OBVIOUS
<1>2. PICK ts : ts = Head(packets[Reference])
  OBVIOUS
<1>3. PICK at : /\ \A s \in waiting : at[s] \in Closest(ts, packets[s])
                /\ popped' = [s \in Streams |->
                       IF s = Reference THEN ts
                       ELSE IF s \in waiting THEN Found(packets[s], at[s]) ELSE Untouched]
                /\ packets' = [s \in Streams |->
                       IF s = Reference THEN Tail(packets[s])
                       ELSE IF s \in waiting THEN Remaining(packets[s], at[s]) ELSE <<>>]
  BY <1>1, <1>2 DEF Pop
<1>4. \A s \in waiting : Surrounded(ts, packets[s])
  BY <1>1, <1>2 DEF Pop
<1>5. /\ Reference \in Streams
      /\ \A s \in Others : s \in Streams /\ s # Reference
  BY SyncAssumption DEF Streams
<1>6. ASSUME NEW s \in Others
      PROVE  \/ packets[s] = <<>> /\ packets'[s] = <<>> /\ popped'[s] = Untouched
             \/ /\ packets[s] # <<>> /\ Surrounded(ts, packets[s])
                /\ \E a \in Closest(ts, packets[s]) :
                       packets'[s] = Remaining(packets[s], a) /\ popped'[s] = Found(packets[s], a)
  <2>1. CASE s \in waiting
    BY <1>1, <1>3, <1>4, <1>5, <2>1
  <2>2. CASE s \notin waiting
    BY <1>1, <1>3, <1>5, <2>2
  <2> QED
    BY <2>1, <2>2
<1>7. packets' = [s \in Streams |-> packets'[s]]
  BY <1>3
<1>8. packets[Reference] # <<>> /\ UNCHANGED pushed
  BY DEF Pop
<1>9. packets'[Reference] = Tail(packets[Reference]) /\ popped'[Reference] = ts
  BY <1>3, <1>5
<1> QED
  BY <1>2, <1>6, <1>7, <1>8, <1>9

LEMMA PopKeeps ==
    ASSUME Careful, SyncInv, Pop
    PROVE  SyncInv'
<1>0. StreamsInv /\ pushed' = pushed /\ Reference \in Streams
  BY PopIs DEF SyncInv, Streams
<1>1. PICK ts : ts = Head(packets[Reference])
  OBVIOUS
<1>2. /\ packets[Reference] \in Seq(Times) /\ packets[Reference] # <<>>
      /\ packets'[Reference] = Tail(packets[Reference])
      /\ Len(packets[Reference]) \in Nat /\ Len(pushed[Reference]) \in Nat
      /\ Gone(Reference) \in Nat
      /\ Len(pushed[Reference]) = Gone(Reference) + Len(packets[Reference])
  BY <1>0, PopIs, StreamIs
<1>3. /\ Tail(packets[Reference]) \in Seq(Times)
      /\ Len(Tail(packets[Reference])) = Len(packets[Reference]) - 1
      /\ \A i \in 1 .. Len(packets[Reference]) - 1 :
             Tail(packets[Reference])[i] = packets[Reference][i + 1]
  BY <1>2, HeadTailProperties
<1>4. Gone(Reference)' = Gone(Reference) + 1
  <2>1. /\ Gone(Reference)' = Len(pushed[Reference]) - (Len(packets[Reference]) - 1)
        /\ Gone(Reference) = Len(pushed[Reference]) - Len(packets[Reference])
    BY <1>0, <1>2, <1>3 DEF Gone
  <2> QED
    BY <1>2, <2>1, OneFewer
<1>5. Waiting(Reference)'
  <2>1. ASSUME NEW i \in 1 .. Len(packets[Reference]) - 1
        PROVE  packets'[Reference][i] = pushed[Reference][Gone(Reference) + 1 + i]
    <3>1. i + 1 \in 1 .. Len(packets[Reference])
          /\ Gone(Reference) + (i + 1) = Gone(Reference) + 1 + i
      BY <1>2
    <3>2. packets[Reference][i + 1] = pushed[Reference][Gone(Reference) + (i + 1)]
      BY <1>0, <3>1, StreamIs
    <3> QED
      BY <1>2, <1>3, <3>1, <3>2
  <2> QED
    BY <1>0, <1>2, <1>3, <1>4, <2>1 DEF Waiting
<1>6. ASSUME NEW s \in Others
      PROVE  packets'[s] \in Seq(Times) /\ Waiting(s)' /\ NoneMissed(s)'
  <2>0. s \in Streams /\ NoneMissed(s)
    BY DEF Streams, SyncInv
  <2>1. CASE packets[s] = <<>> /\ packets'[s] = <<>>
    <3>1. Gone(s)' = Gone(s) /\ pushed[s] = <<>>
      BY <1>0, <2>0, <2>1 DEF Gone, NoneMissed
    <3>2. Gone(s) = 0 /\ Len(<<>>) = 0
      BY <2>1, <3>1, EmptySeq DEF Gone
    <3>3. <<>> \in Seq(Times)
      BY EmptySeq
    <3> QED
      BY <1>0, <2>1, <3>1, <3>2, <3>3 DEF Waiting, NoneMissed
  <2>2. ASSUME packets[s] # <<>>, Surrounded(ts, packets[s]),
               NEW at \in Closest(ts, packets[s]), packets'[s] = Remaining(packets[s], at)
        PROVE  packets'[s] \in Seq(Times) /\ Waiting(s)' /\ NoneMissed(s)'
    <3>1. /\ at \in 1 .. Len(packets[s])
          /\ ts = pushed[Reference][Gone(Reference) + 1]
          /\ \A i \in 1 .. Len(pushed[s]) :
                 Distance(packets[s][at], ts) <= Distance(pushed[s][i], ts)
      BY <1>1, <1>2, <2>2, NearestOfAll
    <3>2. /\ packets[s] \in Seq(Times) /\ Len(packets[s]) \in Nat /\ Len(pushed[s]) \in Nat
          /\ Gone(s) \in Nat /\ Len(pushed[s]) = Gone(s) + Len(packets[s])
      BY <1>0, <2>0, StreamIs
    <3>3. /\ packets'[s] \in Seq(Times) /\ Len(packets'[s]) = Len(packets[s]) - at + 1
          /\ \A i \in 1 .. Len(packets[s]) - at + 1 :
                 packets'[s][i] = packets[s][at + i - 1] /\ at + i - 1 \in 1 .. Len(packets[s])
      BY <2>2, <3>1, <3>2, RemainingIs
    <3>4. Gone(s)' = Gone(s) + (at - 1) /\ Gone(s) + (at - 1) \in Nat
          /\ Gone(s) + (at - 1) <= Len(pushed[s])
      <4>1. Gone(s)' = Len(pushed[s]) - (Len(packets[s]) - at + 1)
        BY <1>0, <3>3 DEF Gone
      <4>2. Gone(s) = Len(pushed[s]) - Len(packets[s])
        BY DEF Gone
      <4> QED
        BY <3>1, <3>2, <4>1, <4>2, SomeFewer
    <3>5. Waiting(s)'
      <4>1. ASSUME NEW i \in 1 .. Len(packets[s]) - at + 1
            PROVE  packets'[s][i] = pushed[s][Gone(s) + (at - 1) + i]
        <5>1. at + i - 1 \in 1 .. Len(packets[s]) /\ packets'[s][i] = packets[s][at + i - 1]
          BY <3>3
        <5>2. packets[s][at + i - 1] = pushed[s][Gone(s) + (at + i - 1)]
          BY <1>0, <2>0, <5>1, StreamIs
        <5>3. Gone(s) + (at + i - 1) = Gone(s) + (at - 1) + i
          BY <3>1, <3>2
        <5> QED
          BY <5>1, <5>2, <5>3
      <4> QED
        BY <1>0, <3>3, <3>4, <4>1 DEF Waiting
    <3>6. 1 \in 1 .. Len(packets[s]) - at + 1 /\ at + 1 - 1 = at
      BY <3>1, <3>2
    <3>7. packets'[s] # <<>> /\ packets'[s][1] = packets[s][at]
      <4>1. Len(packets'[s]) # 0
        BY <3>2, <3>3, <3>6
      <4> QED
        BY <3>3, <3>6, <4>1, EmptySeq
    <3>8. Latest' = ts
      BY <1>0, <1>4, <3>1 DEF Latest
    <3>9. \A i \in 1 .. Gone(s)' : i \in 1 .. Len(pushed[s])
      BY <3>2, <3>4
    <3>10. Gone(Reference)' > 0
      BY <1>2, <1>4
    <3> QED
      BY <1>0, <3>1, <3>3, <3>5, <3>7, <3>8, <3>9, <3>10 DEF NoneMissed
  <2> QED
    BY <1>1, <2>1, <2>2, PopIs
<1>7. packets' \in [Streams -> Seq(Times)]
  <2>1. \A s \in Streams : packets'[s] \in Seq(Times)
    BY <1>2, <1>3, <1>6 DEF Streams
  <2> QED
    BY <2>1, PopIs
<1>8. \A s \in Streams : Ascending(pushed'[s]) /\ Waiting(s)'
  BY <1>0, <1>5, <1>6 DEF Streams, StreamsInv
<1> QED
  BY <1>0, <1>6, <1>7, <1>8 DEF SyncInv, StreamsInv

LEMMA SyncKeeps ==
    ASSUME Careful
    PROVE  SyncInv /\ [SyncNext]_syncVars => SyncInv'
<1>1. SUFFICES ASSUME SyncInv, [SyncNext]_syncVars
               PROVE  SyncInv'
  OBVIOUS
<1>2. CASE ClearPackets
  <2>1. (packets = Empty /\ pushed = Empty)'
    BY <1>2 DEF ClearPackets
  <2> QED
    BY <2>1, SyncStart, PTL
<1>3. CASE UNCHANGED syncVars
  <2>1. UNCHANGED <<packets, pushed>>
    BY <1>3 DEF syncVars
  <2> QED
    BY <1>1, <2>1 DEF SyncInv, StreamsInv, Waiting, NoneMissed, Gone, Latest
<1> QED
  BY <1>1, <1>2, <1>3, PushKeeps, PopKeeps DEF SyncNext

(* What pop delivers of a sensor is the nearest of all its packets ever    *)
(* pushed, however many of them earlier calls have thrown away: if the     *)
(* caller is Careful, which means that every stream is pushed in the order *)
(* of its times and that pop is called only while every sensor that has    *)
(* packets has one of the reference's time, or one before and one after.   *)
THEOREM NearestDelivered ==
    ASSUME Careful
    PROVE  SyncSpec => NearestIsDelivered
<1> DEFINE Delivers ==
               packets' # packets /\ pushed' = pushed =>
                   \A s \in Others : popped'[s] # Untouched =>
                       IsNearest(popped'[s], popped'[Reference], Range(pushed[s]))
<1>1. SyncInv /\ [SyncNext]_syncVars => Delivers
  <2>1. SUFFICES ASSUME SyncInv, [SyncNext]_syncVars, packets' # packets, pushed' = pushed,
                        NEW s \in Others, popped'[s] # Untouched
                 PROVE  IsNearest(popped'[s], popped'[Reference], Range(pushed[s]))
    OBVIOUS
  <2>0. s \in Streams /\ StreamsInv
    BY <2>1 DEF Streams, SyncInv
  <2>2. CASE Pop
    <3>1. PICK ts : ts = Head(packets[Reference])
      OBVIOUS
    <3>2. popped'[Reference] = ts /\ packets[Reference] # <<>>
      BY <2>1, <2>2, <3>1, PopIs
    <3>3. PICK at \in Closest(ts, packets[s]) :
              /\ packets[s] # <<>> /\ Surrounded(ts, packets[s])
              /\ popped'[s] = Found(packets[s], at)
      BY <2>1, <2>2, <3>1, PopIs
    <3>4. /\ at \in 1 .. Len(packets[s])
          /\ \A i \in 1 .. Len(pushed[s]) :
                 Distance(packets[s][at], ts) <= Distance(pushed[s][i], ts)
      BY <2>1, <3>1, <3>2, <3>3, NearestOfAll
    <3>5. /\ DOMAIN packets[s] = 1 .. Len(packets[s])
          /\ DOMAIN pushed[s] = 1 .. Len(pushed[s])
          /\ Gone(s) + at \in 1 .. Len(pushed[s]) /\ packets[s][at] = pushed[s][Gone(s) + at]
      BY <2>0, <3>4, StreamIs
    <3>6. popped'[s] = packets[s][at]
      BY <3>3, <3>4, <3>5 DEF Found
    <3> QED
      BY <3>2, <3>4, <3>5, <3>6 DEF IsNearest, Range
  <2>3. CASE ClearPackets
    BY <2>0, <2>1, <2>3 DEF ClearPackets, NothingPopped
  <2>4. ASSUME NEW r \in Streams, NEW ts \in Times, Push(r, ts)
        PROVE  FALSE
    <3>1. pushed[r] \in Seq(Times) /\ pushed' = [pushed EXCEPT ![r] = Append(pushed[r], ts)]
          /\ DOMAIN pushed = Streams
      BY <2>0, <2>4, StreamIs DEF Push, StreamsInv
    <3>2. Len(Append(pushed[r], ts)) = Len(pushed[r]) + 1 /\ Len(pushed[r]) \in Nat
      BY <3>1, AppendProperties, LenProperties
    <3>3. pushed'[r] = Append(pushed[r], ts)
      BY <3>1
    <3> QED
      BY <2>1, <3>2, <3>3
  <2> QED
    BY <2>1, <2>2, <2>3, <2>4 DEF SyncNext, syncVars
<1>2. SyncInit => SyncInv
  BY SyncStart DEF SyncInit
<1> QED
  BY <1>1, <1>2, SyncKeeps, PTL DEF SyncSpec, NearestIsDelivered

-----------------------------------------------------------------------------
(* HttpRoutes: the order of the map                                        *)

(* Where two paths differ first: p ends there, or has the smaller          *)
(* character.                                                              *)
DifferAt(p, q, i) ==
    /\ i \in 1 .. Len(q) /\ i <= Len(p) + 1
    /\ \A j \in 1 .. i - 1 : p[j] = q[j]
    /\ i <= Len(p) => p[i] < q[i]

LEMMA PrefixIs ==
    ASSUME NEW p \in Seq(Nat), NEW q \in Seq(Nat), NEW n \in Nat, n <= Len(p), n <= Len(q)
    PROVE  SubSeq(p, 1, n) = SubSeq(q, 1, n) <=> \A j \in 1 .. n : p[j] = q[j]
<1>1. Len(p) \in Nat /\ Len(q) \in Nat
  BY LenProperties
<1>2. ASSUME NEW j \in 1 .. n
      PROVE  p[j] \in Nat /\ q[j] \in Nat
  <2>1. j \in 1 .. Len(p) /\ j \in 1 .. Len(q)
    BY <1>1
  <2>2. p[j] \in Nat
    BY <2>1, ElementOfSeq
  <2>3. q[j] \in Nat
    BY <2>1, ElementOfSeq
  <2> QED
    BY <2>2, <2>3
<1>3. PICK a, b : a = SubSeq(p, 1, n) /\ b = SubSeq(q, 1, n)
  OBVIOUS
<1>4. /\ a \in Seq(Nat) /\ Len(a) = n /\ \A j \in 1 .. n : a[j] = p[j]
      /\ b \in Seq(Nat) /\ Len(b) = n /\ \A j \in 1 .. n : b[j] = q[j]
  BY <1>2, <1>3, SubSeqProperties
<1>5. ASSUME \A j \in 1 .. n : p[j] = q[j]
      PROVE  a = b
  <2>1. \A j \in 1 .. n : a[j] = b[j]
    BY <1>4, <1>5
  <2> QED
    BY <1>4, <2>1, SeqEqual
<1> QED
  BY <1>3, <1>4, <1>5

LEMMA PathBeforeIs ==
    ASSUME NEW p \in Seq(Nat), NEW q \in Seq(Nat)
    PROVE  PathBefore(p, q) <=> \E i \in 1 .. Len(q) : DifferAt(p, q, i)
<1>0. Len(p) \in Nat /\ Len(q) \in Nat
  BY LenProperties
<1>1. ASSUME IsStrictPrefix(p, q)
      PROVE  DifferAt(p, q, Len(p) + 1) /\ Len(p) + 1 \in 1 .. Len(q)
  <2>1. Len(p) <= Len(q) /\ \A j \in 1 .. Len(p) : p[j] = q[j]
    BY <1>0, <1>1, PrefixIs DEF IsStrictPrefix, IsPrefix
  <2>2. Len(p) # Len(q)
    BY <1>1, <2>1, SeqEqual DEF IsStrictPrefix
  <2> QED
    BY <1>0, <2>1, <2>2 DEF DifferAt
<1>2. ASSUME NEW i \in 1 .. Shorter(p, q), SubSeq(p, 1, i - 1) = SubSeq(q, 1, i - 1), p[i] < q[i]
      PROVE  DifferAt(p, q, i) /\ i \in 1 .. Len(q)
  <2>1. i \in 1 .. Len(p) /\ i \in 1 .. Len(q) /\ i - 1 \in Nat /\ i - 1 <= Len(p) /\ i - 1 <= Len(q)
    BY <1>0 DEF Shorter
  <2>2. \A j \in 1 .. i - 1 : p[j] = q[j]
    BY <1>2, <2>1, PrefixIs
  <2> QED
    BY <1>0, <1>2, <2>1, <2>2 DEF DifferAt
<1>3. ASSUME NEW i \in 1 .. Len(q), DifferAt(p, q, i)
      PROVE  PathBefore(p, q)
  <2>1. CASE i = Len(p) + 1
    <3>1. Len(p) <= Len(q) /\ Len(p) # Len(q) /\ \A j \in 1 .. Len(p) : p[j] = q[j]
      BY <1>0, <1>3, <2>1 DEF DifferAt
    <3>2. SubSeq(p, 1, Len(p)) = SubSeq(q, 1, Len(p))
      BY <1>0, <3>1, PrefixIs
    <3> QED
      BY <3>1, <3>2 DEF PathBefore, IsStrictPrefix, IsPrefix
  <2>2. CASE i # Len(p) + 1
    <3>0. i <= Len(p) + 1 /\ (i <= Len(p) => p[i] < q[i])
      BY <1>3 DEF DifferAt
    <3>a. /\ i \in 1 .. Len(p) /\ i <= Len(q)
          /\ i - 1 \in Nat /\ i - 1 <= Len(p) /\ i - 1 <= Len(q)
      BY <1>0, <3>0, <2>2
    <3>b. i \in 1 .. Shorter(p, q)
      BY <1>0, <3>a DEF Shorter
    <3>1. /\ i \in 1 .. Len(p) /\ p[i] < q[i] /\ i \in 1 .. Shorter(p, q)
          /\ i - 1 \in Nat /\ i - 1 <= Len(p) /\ i - 1 <= Len(q)
      BY <3>0, <3>a, <3>b
    <3>2. SubSeq(p, 1, i - 1) = SubSeq(q, 1, i - 1)
      BY <1>3, <3>1, PrefixIs DEF DifferAt
    <3> QED
      BY <3>1, <3>2 DEF PathBefore
  <2> QED
    BY <2>1, <2>2
<1> QED
  BY <1>1, <1>2, <1>3 DEF PathBefore

LEMMA SmallerStill ==
    ASSUME NEW a \in Nat, NEW b \in Nat, NEW c \in Nat, a < b, b < c
    PROVE  a < c
  OBVIOUS

LEMMA PathOrder ==
    ASSUME NEW p \in Seq(Nat), NEW q \in Seq(Nat), NEW r \in Seq(Nat)
    PROVE  /\ ~PathBefore(p, p)
           /\ PathBefore(p, q) /\ PathBefore(q, r) => PathBefore(p, r)
<1>0. /\ Len(p) \in Nat /\ Len(q) \in Nat /\ Len(r) \in Nat
      /\ \A j \in 1 .. Len(p) : p[j] \in Nat
      /\ \A j \in 1 .. Len(q) : q[j] \in Nat
      /\ \A j \in 1 .. Len(r) : r[j] \in Nat
  BY LenProperties, ElementOfSeq
<1>1. ~PathBefore(p, p)
  BY <1>0, PathBeforeIs DEF DifferAt
<1>2. ASSUME NEW i \in 1 .. Len(q), DifferAt(p, q, i), NEW k \in 1 .. Len(r), DifferAt(q, r, k)
      PROVE  \E m \in 1 .. Len(r) : DifferAt(p, r, m)
  <2>1. CASE i < k
    <3>1. i \in 1 .. Len(r) /\ q[i] = r[i]
      BY <1>0, <1>2, <2>1 DEF DifferAt
    <3>2. \A j \in 1 .. i - 1 : j \in 1 .. k - 1
      BY <1>0, <2>1
    <3> QED
      BY <1>2, <3>1, <3>2 DEF DifferAt
  <2>2. CASE k < i
    <3>0. i <= Len(p) + 1 /\ k \in 1 .. i - 1
      BY <1>0, <1>2, <2>2 DEF DifferAt
    <3>1. k <= Len(p) /\ k <= Len(q) /\ p[k] = q[k]
      BY <1>0, <1>2, <3>0 DEF DifferAt
    <3>2. \A j \in 1 .. k - 1 : j \in 1 .. i - 1
      BY <3>0
    <3>3. \A j \in 1 .. k - 1 : p[j] = q[j] /\ q[j] = r[j]
      BY <1>2, <3>2 DEF DifferAt
    <3>4. q[k] < r[k]
      BY <1>2, <3>1 DEF DifferAt
    <3>5. p[k] < r[k]
      BY <3>1, <3>4
    <3>6. k <= Len(p) + 1
      BY <1>0, <3>1
    <3> QED
      BY <3>3, <3>5, <3>6 DEF DifferAt
  <2>3. CASE i = k
    <3>0. i \in 1 .. Len(q) /\ i \in 1 .. Len(r)
      BY <2>3
    <3>a. i <= Len(q) /\ (i <= Len(q) => q[i] < r[i])
      BY <1>0, <1>2, <2>3 DEF DifferAt
    <3>b. q[i] \in Nat /\ r[i] \in Nat
      BY <1>0, <3>0
    <3>1. q[i] < r[i] /\ q[i] \in Nat /\ r[i] \in Nat
      BY <3>a, <3>b
    <3>2. ASSUME i <= Len(p)
          PROVE  p[i] < r[i]
      <4>0. i \in 1 .. Len(p)
        BY <1>0, <3>2
      <4>1. p[i] < q[i] /\ p[i] \in Nat
        BY <1>0, <1>2, <3>2, <4>0 DEF DifferAt
      <4> QED
        BY <3>1, <4>1, SmallerStill
    <3>3. \A j \in 1 .. i - 1 : p[j] = r[j]
      BY <1>2, <2>3 DEF DifferAt
    <3>4. i <= Len(p) + 1
      BY <1>2 DEF DifferAt
    <3> QED
      BY <3>0, <3>2, <3>3, <3>4 DEF DifferAt
  <2> QED
    BY <2>1, <2>2, <2>3
<1> QED
  BY <1>1, <1>2, PathBeforeIs

LEMMA PathIs ==
    ASSUME NEW C, NEW p \in Paths(C)
    PROVE  p \in Seq(C) /\ p # <<>>
<1>1. PICK m \in 0 .. MaxPath : p \in [1 .. m -> C]
  BY DEF Paths, BoundedSeq, SeqOf
<1>2. m \in Nat
  BY <1>1, RoutesAssumption
<1>3. p \in Seq(C)
  BY <1>1, <1>2
<1> QED
  BY <1>3 DEF Paths

LEMMA KeyIs ==
    ASSUME NEW key \in MethodPath
    PROVE  /\ key.method \in Nat /\ key.method \in Methods
           /\ key.path \in Seq(Nat) /\ key.tls_match \in TLS_MATCH
<1>1. key.method \in Methods /\ key.path \in Paths(Characters \cup {Star})
      /\ key.tls_match \in TLS_MATCH
  BY DEF MethodPath
<1>2. Methods \subseteq Nat /\ Characters \cup {Star} \subseteq Nat
  BY RoutesAssumption DEF Star
<1>3. key.path \in Seq(Nat)
  BY <1>1, <1>2, PathIs, SeqMonotonic
<1> QED
  BY <1>1, <1>2, <1>3

LEMMA KeyOrder ==
    ASSUME NEW a \in MethodPath, NEW b \in MethodPath, NEW c \in MethodPath
    PROVE  /\ ~Before(a, a)
           /\ Before(a, b) /\ Before(b, c) => Before(a, c)
<1>1. /\ a.method \in Nat /\ b.method \in Nat /\ c.method \in Nat
      /\ a.path \in Seq(Nat) /\ b.path \in Seq(Nat) /\ c.path \in Seq(Nat)
  BY KeyIs
<1>2. /\ ~PathBefore(a.path, a.path)
      /\ PathBefore(a.path, b.path) /\ PathBefore(b.path, c.path) => PathBefore(a.path, c.path)
  BY <1>1, PathOrder
<1> QED
  BY <1>1, <1>2 DEF Before

(* Routes of which no two have the same key.                               *)
Route == [key : MethodPath, handler : Nat \ {0}]

Table(S) == /\ S \subseteq Route /\ IsFiniteSet(S)
            /\ \A r \in S, o \in S : r = o \/ ~SameKey(r.key, o.key)

(* One of them comes before all others: the route with the fewest routes   *)
(* before it.                                                              *)
LEMMA LeastRoute ==
    ASSUME NEW S, Table(S), S # {}
    PROVE  \E r \in S : \A o \in S \ {r} : Before(r.key, o.key)
<1> DEFINE Ahead(r) == {o \in S : Before(o.key, r.key)}
           Counts == {Cardinality(Ahead(r)) : r \in S}
<1>1. \A r \in S : r.key \in MethodPath
  BY DEF Table, Route
<1>2. ASSUME NEW r \in S
      PROVE  IsFiniteSet(Ahead(r)) /\ Cardinality(Ahead(r)) \in Nat
  <2>1. IsFiniteSet(S) /\ Ahead(r) \subseteq S
    BY DEF Table
  <2>2. IsFiniteSet(Ahead(r))
    BY <2>1, FS_Subset
  <2> QED
    BY <2>2, FS_CardinalityType
<1>3. Counts \in SUBSET Nat /\ Counts # {}
  BY <1>2
<1>a. PICK least \in Counts : \A n \in Counts : least <= n
  <2> HIDE DEF Counts
  <2> QED
    BY <1>3, LeastIs
<1>4. PICK r \in S : Cardinality(Ahead(r)) = least
  OBVIOUS
<1>5. \A o \in S : Cardinality(Ahead(r)) <= Cardinality(Ahead(o))
  BY <1>a, <1>4
<1>6. ASSUME NEW o \in S \ {r}
      PROVE  Before(r.key, o.key)
  <2>1. Before(r.key, o.key) \/ Before(o.key, r.key)
    BY DEF Table, SameKey
  <2>2. ASSUME Before(o.key, r.key)
        PROVE  FALSE
    <3>1. Ahead(o) \subseteq Ahead(r)
      BY <1>1, <2>2, KeyOrder
    <3>2. o \in Ahead(r) /\ o \notin Ahead(o)
      BY <1>1, <2>2, KeyOrder
    <3>3. Ahead(o) # Ahead(r)
      BY <3>2
    <3>4. Cardinality(Ahead(o)) < Cardinality(Ahead(r))
      <4> HIDE DEF Ahead
      <4> QED
        BY <1>2, <3>1, <3>3, FS_Subset
    <3>5. Cardinality(Ahead(r)) <= Cardinality(Ahead(o))
      BY <1>5
    <3>6. Cardinality(Ahead(r)) \in Nat /\ Cardinality(Ahead(o)) \in Nat
      BY <1>2
    <3> HIDE DEF Ahead
    <3> QED
      BY <3>4, <3>5, <3>6
  <2> QED
    BY <2>1, <2>2
<1> QED
  BY <1>6

(* Whom find_http_handler takes.                                           *)
Taken(table, method, path, is_tls) ==
    {r \in table : Admits(r.key, is_tls) /\ Matches(r.key, method, path)}

LEMMA SomeHandler ==
    ASSUME NEW table, Table(table), NEW method, NEW path, NEW is_tls,
           Taken(table, method, path, is_tls) # {}
    PROVE  FindHandler(table, method, path, is_tls) # 0
<1>1. PICK found : found = Taken(table, method, path, is_tls)
  OBVIOUS
<1>2. found \subseteq table /\ found # {}
  BY <1>1 DEF Taken
<1>3. Table(found)
  <2>1. IsFiniteSet(found)
    BY <1>2, FS_Subset DEF Table
  <2> QED
    BY <1>2, <2>1 DEF Table
<1>4. \E r \in found : \A o \in found \ {r} : Before(r.key, o.key)
  BY <1>2, <1>3, LeastRoute
<1>5. PICK first : first = CHOOSE r \in found : \A o \in found \ {r} : Before(r.key, o.key)
  OBVIOUS
<1>6. first \in found
  BY <1>4, <1>5
<1>7. first.handler # 0
  BY <1>3, <1>6 DEF Table, Route
<1>8. FindHandler(table, method, path, is_tls) = first.handler
  BY <1>1, <1>2, <1>5 DEF FindHandler, Taken
<1> QED
  BY <1>7, <1>8

LEMMA SameHandler ==
    ASSUME NEW t, NEW u, NEW method, NEW path, NEW is_tls,
           Taken(t, method, path, is_tls) = Taken(u, method, path, is_tls)
    PROVE  FindHandler(t, method, path, is_tls) = FindHandler(u, method, path, is_tls)
<1>1. PICK found : found = Taken(t, method, path, is_tls)
  OBVIOUS
<1>2. PICK first : first = CHOOSE r \in found : \A o \in found \ {r} : Before(r.key, o.key)
  OBVIOUS
<1>3. FindHandler(t, method, path, is_tls) = IF found = {} THEN 0 ELSE first.handler
  BY <1>1, <1>2 DEF FindHandler, Taken
<1>a. found = Taken(u, method, path, is_tls)
  BY <1>1
<1>4. FindHandler(u, method, path, is_tls) = IF found = {} THEN 0 ELSE first.handler
  BY <1>2, <1>a DEF FindHandler, Taken
<1> QED
  BY <1>3, <1>4

-----------------------------------------------------------------------------
(* HttpRoutes: a route is found for the requests it is meant for           *)

LEMMA MatchesIs ==
    ASSUME NEW key \in MethodPath, NEW method, NEW path \in Paths(Characters),
           NEW is_tls \in BOOLEAN
    PROVE  Admits(key, is_tls) /\ Matches(key, method, path)
               <=> MeantFor(key, method, path, is_tls)
<1> DEFINE kp == key.path
           differ == {i \in DOMAIN key.path : key.path[i] # path[i]}
<1>1. /\ key.tls_match \in {"none", "only", "both"} /\ kp \in Seq(Nat)
      /\ path \in Seq(Characters) /\ path \in Seq(Nat)
  <2>1. Characters \subseteq Nat
    BY RoutesAssumption
  <2>2. path \in Seq(Characters)
    BY PathIs
  <2>3. path \in Seq(Nat)
    BY <2>1, <2>2, SeqMonotonic
  <2> QED
    BY <2>2, <2>3, KeyIs DEF TLS_MATCH
<1>2. /\ Len(kp) \in Nat /\ Len(path) \in Nat /\ DOMAIN kp = 1 .. Len(kp)
  BY <1>1, LenProperties
<1>3. \A i \in 1 .. Len(path) : path[i] # Star
  <2>1. \A i \in 1 .. Len(path) : path[i] \in Characters
    BY <1>1, ElementOfSeq
  <2> QED
    BY <2>1, RoutesAssumption
<1>4. Admits(key, is_tls) <=> /\ is_tls => key.tls_match \in {"only", "both"}
                              /\ ~is_tls => key.tls_match \in {"none", "both"}
  BY <1>1 DEF Admits
<1>5. differ \in SUBSET Nat /\ differ \subseteq 1 .. Len(kp)
  BY <1>2
<1>6. ASSUME Matches(key, method, path)
      PROVE  /\ key.method = method
             /\ \/ kp = path
                \/ \E i \in DOMAIN kp : /\ kp[i] = Star /\ Len(kp) <= Len(path)
                                        /\ SubSeq(path, 1, i - 1) = SubSeq(kp, 1, i - 1)
  <2>1. key.method = method /\ Len(kp) <= Len(path)
    BY <1>6 DEF Matches
  <2>2. CASE differ = {}
    <3>1. Len(kp) = Len(path)
      BY <1>6, <2>2 DEF Matches
    <3>2. \A i \in 1 .. Len(kp) : kp[i] = path[i]
      BY <1>2, <2>2
    <3>3. kp = path
      <4> HIDE DEF kp
      <4> QED
        BY <1>1, <3>1, <3>2, SeqEqual
    <3> QED
      BY <2>1, <3>3
  <2>3. CASE differ # {}
    <3>1. PICK i : i = Min(differ)
      OBVIOUS
    <3>2. i \in differ /\ \A j \in differ : i <= j
      BY <1>5, <2>3, <3>1, LeastIs
    <3>3. kp[i] = Star
      BY <1>6, <2>3, <3>1 DEF Matches
    <3>4. /\ i \in 1 .. Len(kp) /\ i - 1 \in Nat
          /\ i - 1 <= Len(kp) /\ i - 1 <= Len(path)
      BY <1>2, <1>5, <2>1, <3>2
    <3>5. \A j \in 1 .. i - 1 : j \in 1 .. Len(kp) /\ ~(i <= j)
      BY <1>2, <3>4
    <3>6. \A j \in 1 .. i - 1 : path[j] = kp[j]
      BY <1>2, <3>2, <3>5
    <3>7. SubSeq(path, 1, i - 1) = SubSeq(kp, 1, i - 1)
      <4> HIDE DEF kp
      <4> QED
        BY <1>1, <3>4, <3>6, PrefixIs
    <3> QED
      BY <1>2, <2>1, <3>3, <3>4, <3>7
  <2> QED
    BY <2>2, <2>3
<1>7. ASSUME key.method = method, kp = path
      PROVE  Matches(key, method, path)
  BY <1>2, <1>7 DEF Matches
<1>8. ASSUME key.method = method, NEW i \in DOMAIN kp, kp[i] = Star, Len(kp) <= Len(path),
             SubSeq(path, 1, i - 1) = SubSeq(kp, 1, i - 1)
      PROVE  Matches(key, method, path)
  <2>1. /\ i \in 1 .. Len(kp) /\ i \in 1 .. Len(path) /\ i - 1 \in Nat
        /\ i - 1 <= Len(kp) /\ i - 1 <= Len(path)
    BY <1>2, <1>8
  <2>2. i \in differ
    BY <1>3, <1>8, <2>1
  <2>3. \A j \in 1 .. i - 1 : path[j] = kp[j]
    <3> HIDE DEF kp
    <3> QED
      BY <1>1, <1>8, <2>1, PrefixIs
  <2>4. PICK m : m = Min(differ)
    OBVIOUS
  <2>5. m \in differ /\ m <= i
    BY <1>5, <2>2, <2>4, LeastIs
  <2>6. m \in 1 .. Len(kp) /\ m \notin 1 .. i - 1
    BY <1>5, <2>3, <2>5
  <2>7. m = i
    BY <1>2, <2>1, <2>5, <2>6
  <2> QED
    BY <1>8, <2>2, <2>4, <2>7 DEF Matches
<1> QED
  BY <1>4, <1>6, <1>7, <1>8 DEF MeantFor

-----------------------------------------------------------------------------
(* HttpRoutes: a route leaves others alone                                 *)

(* The map holds every key once; what was assigned can be counted.         *)
RoutesInv == Table(routes) /\ IsFiniteSet(added)

LEMMA RoutesKeep == RoutesInv /\ [RoutesNext]_routesVars => RoutesInv'
<1> SUFFICES ASSUME RoutesInv, [RoutesNext]_routesVars
             PROVE  RoutesInv'
  OBVIOUS
<1>1. CASE UNCHANGED routesVars
  BY <1>1 DEF RoutesInv, Table, routesVars
<1>2. ASSUME NEW key \in MethodPath, Assign(key)
      PROVE  RoutesInv'
  <2>1. PICK handler : handler = Cardinality(added) + 1
    OBVIOUS
  <2>2. PICK equal : equal = {r \in routes : SameKey(r.key, key)}
    OBVIOUS
  <2>3. PICK k : k = IF equal = {} THEN key ELSE (CHOOSE r \in equal : TRUE).key
    OBVIOUS
  <2>4. PICK r : r = [key |-> k, handler |-> handler]
    OBVIOUS
  <2>5. routes' = (routes \ equal) \cup {r}
    BY <1>2, <2>1, <2>2, <2>3, <2>4 DEF Assign
  <2>6. added' = added \cup {[key |-> key, handler |-> handler]}
    BY <1>2, <2>1 DEF Assign
  <2>7. handler \in Nat \ {0}
    BY <2>1, FS_CardinalityType DEF RoutesInv
  <2>8. k \in MethodPath /\ (k = key \/ \E e \in equal : e.key = k)
    BY <1>2, <2>2, <2>3 DEF RoutesInv, Table, Route
  <2>9. r \in Route /\ r.key = k
    BY <2>4, <2>7, <2>8 DEF Route
  <2>10. ASSUME NEW o \in routes \ equal
         PROVE  ~SameKey(o.key, k) /\ ~SameKey(k, o.key)
    <3>1. CASE k = key
      BY <2>2, <3>1 DEF SameKey
    <3>2. CASE \E e \in equal : e.key = k
      BY <2>2, <3>2 DEF RoutesInv, Table, SameKey
    <3> QED
      BY <2>8, <3>1, <3>2
  <2>11. IsFiniteSet(routes') /\ IsFiniteSet(added')
    <3>1. IsFiniteSet(routes) /\ IsFiniteSet(added) /\ routes \ equal \subseteq routes
      BY DEF RoutesInv, Table
    <3>2. IsFiniteSet(routes \ equal)
      BY <3>1, FS_Subset
    <3> QED
      BY <2>5, <2>6, <3>1, <3>2, FS_AddElement
  <2>12. routes' \subseteq Route
    BY <2>5, <2>9 DEF RoutesInv, Table
  <2>13. \A a \in routes', b \in routes' : a = b \/ ~SameKey(a.key, b.key)
    BY <2>5, <2>9, <2>10 DEF RoutesInv, Table
  <2> QED
    BY <2>11, <2>12, <2>13 DEF RoutesInv, Table
<1> QED
  BY <1>1, <1>2 DEF RoutesNext

(* A new route takes only the requests it is meant for, of which none is   *)
(* left without a handler: every other request finds the handler it found  *)
(* before (HttpHandlerMap, find_http_handler, http_request.cpp).           *)
THEOREM RoutesStayIndependent == RoutesSpec => RoutesAreIndependent
<1>1. RoutesInit => RoutesInv
  BY FS_EmptySet DEF RoutesInit, RoutesInv, Table
<1>2. ASSUME RoutesInv, RoutesInv', RoutesNext,
             NEW new \in added' \ added, \A r \in routes : ~SameKey(r.key, new.key),
             NEW method \in Methods, NEW path \in Paths(Characters), NEW is_tls \in BOOLEAN
      PROVE  IF MeantFor(new.key, method, path, is_tls)
             THEN FindHandler(routes', method, path, is_tls) # 0
             ELSE FindHandler(routes', method, path, is_tls)
                      = FindHandler(routes, method, path, is_tls)
  <2>1. PICK key \in MethodPath : Assign(key)
    BY <1>2 DEF RoutesNext
  <2>2. new = [key |-> key, handler |-> Cardinality(added) + 1]
    BY <1>2, <2>1 DEF Assign
  <2>3. new.key = key
    BY <2>2
  <2>4. {r \in routes : SameKey(r.key, key)} = {}
    BY <1>2, <2>3
  <2>5. routes' = routes \cup {new}
    BY <2>1, <2>2, <2>4 DEF Assign
  <2>6. Admits(new.key, is_tls) /\ Matches(new.key, method, path)
            <=> MeantFor(new.key, method, path, is_tls)
    BY <2>1, <2>3, MatchesIs
  <2>7. ASSUME MeantFor(new.key, method, path, is_tls)
        PROVE  FindHandler(routes', method, path, is_tls) # 0
    <3>1. new \in Taken(routes', method, path, is_tls)
      BY <2>5, <2>6, <2>7 DEF Taken
    <3>2. Table(routes')
      BY <1>2 DEF RoutesInv, Table
    <3> QED
      BY <3>1, <3>2, SomeHandler
  <2>8. ASSUME ~MeantFor(new.key, method, path, is_tls)
        PROVE  FindHandler(routes', method, path, is_tls)
                   = FindHandler(routes, method, path, is_tls)
    <3>1. Taken(routes', method, path, is_tls) = Taken(routes, method, path, is_tls)
      BY <2>5, <2>6, <2>8 DEF Taken
    <3> QED
      BY <3>1, SameHandler
  <2> QED
    BY <2>7, <2>8
<1>3. RoutesInv /\ RoutesInv' /\ [RoutesNext]_routesVars =>
      [\A new \in added' \ added :
          \/ \E r \in routes : SameKey(r.key, new.key)
          \/ \A method \in Methods, path \in Paths(Characters), is_tls \in BOOLEAN :
                IF MeantFor(new.key, method, path, is_tls)
                THEN FindHandler(routes', method, path, is_tls) # 0
                ELSE FindHandler(routes', method, path, is_tls)
                         = FindHandler(routes, method, path, is_tls)]_routesVars
  BY <1>2
<1> QED
  BY <1>1, <1>3, RoutesKeep, PTL DEF RoutesSpec, RoutesAreIndependent

-----------------------------------------------------------------------------
(* FrameMessage: where features are                                        *)

LEMMA FeaturesAre == Features = 1 .. 9 /\ \A f \in Features : feature_sizes[f] \in Nat \ {0}
  BY DEF Features, feature_sizes

(* The units of those of the features m that are before f, and the header. *)
Places(p, m) ==
    /\ p \in [Features -> Nat] /\ p[1] = HeaderSize
    /\ \A f \in 2 .. 9 : p[f] = p[f - 1] + (IF f - 1 \in m THEN feature_sizes[f - 1] ELSE 0)

LEMMA PlacesExist ==
    ASSUME NEW m
    PROVE  \E p : Places(p, m)
<1>1. PICK F : F = [x \in Nat \X Nat |->
                        IF x[2] \in Features /\ x[2] \in m THEN x[1] + feature_sizes[x[2]] ELSE x[1]]
  OBVIOUS
<1>2. F \in [Nat \X Nat -> Nat]
  BY <1>1, FeaturesAre
<1>3. HeaderSize \in Nat /\ 8 \in Nat
  BY DEF HeaderSize
<1>4. PICK g \in [0 .. 8 -> Nat] : Computes(g, 8, HeaderSize, F)
  BY <1>2, <1>3, LoopExists
<1>5. PICK p : p = [f \in Features |-> g[f - 1]]
  OBVIOUS
<1>6. p \in [Features -> Nat] /\ p[1] = HeaderSize
  BY <1>4, <1>5, FeaturesAre DEF Computes
<1>7. ASSUME NEW f \in 2 .. 9
      PROVE  p[f] = p[f - 1] + (IF f - 1 \in m THEN feature_sizes[f - 1] ELSE 0)
  <2>1. /\ f - 1 \in 1 .. 8 /\ f - 1 \in Features /\ f \in Features /\ f - 1 \in Nat
        /\ (f - 1) - 1 \in 0 .. 8
    BY FeaturesAre
  <2>2. p[f] = g[f - 1] /\ p[f - 1] = g[(f - 1) - 1] /\ p[f - 1] \in Nat
    BY <1>5, <1>6, <2>1
  <2>3. g[f - 1] = F[<<g[(f - 1) - 1], f - 1>>]
    BY <1>4, <2>1 DEF Computes
  <2>4. PICK v \in Nat : v = p[f - 1]
    BY <2>2
  <2>5. PICK e \in Features : e = f - 1
    BY <2>1
  <2>6. <<v, e>> \in Nat \X Nat
    BY <2>1, <2>4, <2>5
  <2>7. F[<<v, e>>] = IF e \in m THEN v + feature_sizes[e] ELSE v
    BY <1>1, <2>6, <2>5
  <2>8. feature_sizes[e] \in Nat
    BY <2>5, FeaturesAre
  <2>9. F[<<v, e>>] = v + (IF e \in m THEN feature_sizes[e] ELSE 0)
    BY <2>4, <2>7, <2>8
  <2> QED
    BY <2>2, <2>3, <2>4, <2>5, <2>9
<1> QED
  BY <1>6, <1>7 DEF Places

(* A step from one feature to the next.                                    *)
LEMMA NextPlace ==
    ASSUME NEW m, NEW p, Places(p, m), NEW f \in 1 .. 8
    PROVE  /\ f \in Features /\ f + 1 \in Features /\ p[f] \in Nat /\ p[f + 1] \in Nat
           /\ f \in m => p[f + 1] = p[f] + feature_sizes[f]
           /\ f \notin m => p[f + 1] = p[f]
<1>1. f + 1 \in 2 .. 9 /\ f \in Features /\ f + 1 \in Features /\ (f + 1) - 1 = f
  BY FeaturesAre
<1>2. p[f] \in Nat /\ p[f + 1] \in Nat
  BY <1>1 DEF Places
<1>3. p[f + 1] = p[f] + (IF f \in m THEN feature_sizes[f] ELSE 0)
  <2>1. PICK e : e = f + 1
    OBVIOUS
  <2>2. p[e] = p[e - 1] + (IF e - 1 \in m THEN feature_sizes[e - 1] ELSE 0)
    BY <1>1, <2>1 DEF Places
  <2> QED
    BY <1>1, <2>1, <2>2
<1> QED
  BY <1>1, <1>2, <1>3

LEMMA PlacesFrom ==
    ASSUME NEW m, NEW h,
           h = [f \in Features |->
                   IF f = 1 THEN HeaderSize
                   ELSE h[f - 1] + (IF f - 1 \in m THEN feature_sizes[f - 1] ELSE 0)]
    PROVE  Places(h, m)
<1>1. h[1] = HeaderSize /\ h = [f \in Features |-> h[f]]
  BY FeaturesAre
<1>2. ASSUME NEW f \in 2 .. 9
      PROVE  h[f] = h[f - 1] + (IF f - 1 \in m THEN feature_sizes[f - 1] ELSE 0)
  <2>1. f \in Features /\ f # 1
    BY FeaturesAre
  <2> QED
    BY <2>1
<1> DEFINE P == {k \in Nat : k + 1 \in Features => h[k + 1] \in Nat}
<1>3. 0 \in P
  BY <1>1 DEF HeaderSize
<1>4. ASSUME NEW k \in P
      PROVE  k + 1 \in P
  <2>1. CASE (k + 1) + 1 \in Features
    <3>1. /\ k \in Nat /\ (k + 1) + 1 \in 2 .. 9 /\ ((k + 1) + 1) - 1 = k + 1
          /\ k + 1 \in Features
      BY <2>1, FeaturesAre
    <3>2. PICK e : e = (k + 1) + 1
      OBVIOUS
    <3>3. h[e] = h[e - 1] + (IF e - 1 \in m THEN feature_sizes[e - 1] ELSE 0)
      BY <1>2, <3>1, <3>2
    <3>4. h[k + 1] \in Nat /\ feature_sizes[k + 1] \in Nat
      BY <1>4, <3>1, FeaturesAre
    <3>5. h[e] \in Nat
      BY <3>1, <3>2, <3>3, <3>4
    <3> QED
      BY <3>1, <3>2, <3>5
  <2>2. CASE (k + 1) + 1 \notin Features
    BY <1>4, <2>2
  <2> QED
    BY <2>1, <2>2
<1>5. P \in SUBSET Nat
  OBVIOUS
<1>6. P = Nat
  <2> HIDE DEF P
  <2> QED
    BY <1>3, <1>4, <1>5, ByInduction
<1>7. ASSUME NEW f \in Features
      PROVE  h[f] \in Nat
  <2>1. f - 1 \in Nat /\ (f - 1) + 1 = f
    BY FeaturesAre
  <2>2. f - 1 \in P
    BY <1>6, <2>1
  <2> QED
    BY <2>1, <2>2
<1>8. h \in [Features -> Nat]
  BY <1>1, <1>7
<1> QED
  BY <1>1, <1>2, <1>8 DEF Places

LEMMA OffsetsAre == Places(Offset, Features)
<1> DEFINE Def(h) == [f \in Features |-> IF f = 1 THEN HeaderSize
                                         ELSE h[f - 1] + feature_sizes[f - 1]]
           Def2(h) == [f \in Features |->
                          IF f = 1 THEN HeaderSize
                          ELSE h[f - 1] + (IF f - 1 \in Features THEN feature_sizes[f - 1] ELSE 0)]
<1>1. PICK p : Places(p, Features)
  BY PlacesExist
<1>2. \A f \in Features : f = 1 \/ (f \in 2 .. 9 /\ f - 1 \in Features)
  BY FeaturesAre
<1>3. p = Def(p)
  BY <1>1, <1>2 DEF Places
<1>4. Offset = CHOOSE h : h = Def(h)
  BY DEF Offset
<1>5. Offset = Def(Offset)
  <2> HIDE DEF Def
  <2> QED
    BY <1>3, <1>4
<1>6. Def(Offset) = Def2(Offset)
  BY <1>2
<1> QED
  BY <1>5, <1>6, PlacesFrom

LEMMA PlaceIs ==
    ASSUME NEW msg
    PROVE  \E p : Places(p, msg[1][1]) /\ \A f \in Features : Place(msg, f) = p[f]
<1> DEFINE Def(h) == [f \in Features |->
                         IF f = 1 THEN HeaderSize
                         ELSE h[f - 1] + (IF f - 1 \in msg[1][1] THEN feature_sizes[f - 1] ELSE 0)]
<1>1. PICK p : Places(p, msg[1][1])
  BY PlacesExist
<1>2. p = Def(p)
  <2>1. \A f \in Features : f = 1 \/ f \in 2 .. 9
    BY FeaturesAre
  <2> QED
    BY <1>1, <2>1 DEF Places
<1>3. PICK h : h = CHOOSE q : q = Def(q)
  OBVIOUS
<1>4. h = Def(h)
  <2> HIDE DEF Def
  <2> QED
    BY <1>2, <1>3
<1>5. \A f \in Features : Place(msg, f) = h[f]
  BY <1>3 DEF Place
<1>6. Places(h, msg[1][1])
  BY <1>4, PlacesFrom
<1> QED
  BY <1>5, <1>6

(* Behind a feature of the message come the later ones.                    *)
LEMMA PlacesGrow ==
    ASSUME NEW m, NEW p, Places(p, m), NEW f \in Features, NEW g \in Features, f < g
    PROVE  /\ p[f] <= p[g]
           /\ f \in m => p[f] + feature_sizes[f] <= p[g]
<1> DEFINE P == {k \in Nat : (f + 1) + k \in Features =>
                     /\ p[f] <= p[(f + 1) + k]
                     /\ f \in m => p[f] + feature_sizes[f] <= p[(f + 1) + k]}
<1>0. f \in Nat /\ g \in Nat /\ p[f] \in Nat /\ feature_sizes[f] \in Nat
  BY FeaturesAre DEF Places
<1>1. 0 \in P
  <2>1. ASSUME f + 1 \in Features
        PROVE  /\ p[f] <= p[f + 1]
               /\ f \in m => p[f] + feature_sizes[f] <= p[f + 1]
    <3>1. f \in 1 .. 8
      BY <2>1, FeaturesAre
    <3> QED
      BY <1>0, <3>1, NextPlace
  <2>2. (f + 1) + 0 = f + 1
    BY <1>0
  <2> QED
    BY <2>1, <2>2
<1>2. ASSUME NEW k \in P
      PROVE  k + 1 \in P
  <2>1. PICK e : e = (f + 1) + k
    OBVIOUS
  <2>2. k \in Nat /\ k + 1 \in Nat /\ (f + 1) + (k + 1) = e + 1 /\ e \in Nat /\ e >= 1
    BY <1>0, <2>1
  <2>3. ASSUME e + 1 \in Features
        PROVE  /\ p[f] <= p[e + 1]
               /\ f \in m => p[f] + feature_sizes[f] <= p[e + 1]
    <3>1. e \in 1 .. 8 /\ e \in Features
      BY <2>2, <2>3, FeaturesAre
    <3>2. /\ p[f] <= p[e]
          /\ f \in m => p[f] + feature_sizes[f] <= p[e]
      BY <1>2, <2>1, <3>1
    <3>3. p[e] \in Nat /\ p[e + 1] \in Nat /\ feature_sizes[e] \in Nat /\ p[e] <= p[e + 1]
      BY <3>1, NextPlace, FeaturesAre
    <3> QED
      BY <1>0, <3>2, <3>3
  <2> QED
    BY <2>2, <2>3
<1>3. P \in SUBSET Nat
  OBVIOUS
<1>4. P = Nat
  <2> HIDE DEF P
  <2> QED
    BY <1>1, <1>2, <1>3, ByInduction
<1>5. g - (f + 1) \in Nat /\ (f + 1) + (g - (f + 1)) = g
  BY <1>0
<1>6. g - (f + 1) \in P
  BY <1>4, <1>5
<1> QED
  BY <1>5, <1>6

(* With more features a feature is not before where it was.                *)
LEMMA PlacesAbove ==
    ASSUME NEW m, NEW p, Places(p, m), NEW n, NEW q, Places(q, n), NEW f \in Features,
           m \subseteq n
    PROVE  p[f] <= q[f]
<1> DEFINE P == {k \in Nat : k + 1 \in Features => p[k + 1] <= q[k + 1]}
<1>1. 0 \in P
  BY DEF Places, HeaderSize
<1>2. ASSUME NEW k \in P
      PROVE  k + 1 \in P
  <2>1. PICK e : e = k + 1
    OBVIOUS
  <2>2. k \in Nat /\ e \in Nat /\ e >= 1
    BY <2>1
  <2>3. ASSUME e + 1 \in Features
        PROVE  p[e + 1] <= q[e + 1]
    <3>1. e \in 1 .. 8 /\ e \in Features
      BY <2>2, <2>3, FeaturesAre
    <3>2. p[e] <= q[e]
      BY <1>2, <2>1, <3>1
    <3>3. /\ p[e] \in Nat /\ p[e + 1] \in Nat
          /\ e \in m => p[e + 1] = p[e] + feature_sizes[e]
          /\ e \notin m => p[e + 1] = p[e]
      BY <3>1, NextPlace
    <3>4. /\ q[e] \in Nat /\ q[e + 1] \in Nat
          /\ e \in n => q[e + 1] = q[e] + feature_sizes[e]
          /\ e \notin n => q[e + 1] = q[e]
      BY <3>1, NextPlace
    <3>5. feature_sizes[e] \in Nat
      BY <3>1, FeaturesAre
    <3> QED
      BY <3>2, <3>3, <3>4, <3>5
  <2> QED
    BY <2>1, <2>2, <2>3
<1>3. P \in SUBSET Nat
  OBVIOUS
<1>4. P = Nat
  <2> HIDE DEF P
  <2> QED
    BY <1>1, <1>2, <1>3, ByInduction
<1>5. f - 1 \in Nat /\ (f - 1) + 1 = f
  BY FeaturesAre
<1>6. f - 1 \in P
  BY <1>4, <1>5
<1> QED
  BY <1>5, <1>6

(* The end of the message is within its buffer.                            *)
LEMMA PlacesFit ==
    ASSUME NEW m \in SUBSET Features, NEW p, Places(p, m), NEW f \in Features
    PROVE  /\ p[f] \in Nat /\ p[f] >= HeaderSize
           /\ Offset[f] \in Nat /\ p[f] <= Offset[f]
           /\ feature_sizes[f] \in Nat \ {0} /\ BufferSize \in Nat
           /\ Offset[f] + feature_sizes[f] <= BufferSize
<1>1. Places(Offset, Features)
  BY OffsetsAre
<1>2. p[f] \in Nat /\ Offset[f] \in Nat
  BY <1>1 DEF Places
<1>3. p[f] <= Offset[f]
  BY <1>1, PlacesAbove
<1>4. p[f] >= HeaderSize
  <2>1. CASE f = 1
    BY <1>2, <2>1 DEF Places
  <2>2. CASE f # 1
    <3>1. 1 \in Features /\ 1 < f
      BY <2>2, FeaturesAre
    <3>2. p[1] <= p[f]
      BY <3>1, PlacesGrow
    <3> QED
      BY <3>2 DEF Places
  <2> QED
    BY <2>1, <2>2
<1>5. BufferSize \in Nat /\ Offset[f] + feature_sizes[f] <= BufferSize
  BY FrameAssumption
<1> QED
  BY <1>2, <1>3, <1>4, <1>5, FeaturesAre

-----------------------------------------------------------------------------
(* FrameMessage: the loop of finish                                        *)

(* What is there after the features 1 .. f: theirs are where the message   *)
(* has them, all that comes behind follows at once.                        *)
CompactedTo(acc, p, f) ==
    /\ f < 9 => acc.at = p[f + 1]
    /\ \A g \in Features \cap mask : g <= f =>
          \A k \in 1 .. feature_sizes[g] : acc.buffer[p[g] + k] = buffer[Offset[g] + k]
    /\ f < 9 => \A j \in 1 .. BufferSize - Offset[f + 1] :
                    acc.buffer[p[f + 1] + j] = buffer[Offset[f + 1] + j]

Accumulators(S) == [at : Nat, buffer : [1 .. BufferSize -> S]]

LEMMA MovedFrom ==
    ASSUME NEW end \in Nat, NEW at \in Nat, NEW gap \in Nat, NEW i \in 1 .. end
    PROVE  /\ i \in at + 1 .. end - ((at + gap) - at) <=> at < i /\ i + gap <= end
           /\ i + (at + gap) - at = i + gap
           /\ at < i /\ i + gap <= end => i + gap \in 1 .. end
           /\ i <= at => ~(at < i)
  OBVIOUS

LEMMA WithinPlace ==
    ASSUME NEW place \in Nat, NEW gap \in Nat, NEW end \in Nat, NEW last \in Nat,
           NEW offset \in Nat, NEW width \in Nat,
           place + gap <= last, last <= offset, offset + width <= end, NEW k \in 1 .. gap
    PROVE  place + k \in 1 .. end /\ place + k <= last
  OBVIOUS

LEMMA Shifted ==
    ASSUME NEW place \in Nat, NEW offset \in Nat, NEW gap \in Nat \ {0}, NEW end \in Nat,
           place <= offset, offset + gap <= end,
           NEW j \in 1 .. end - (offset + gap), NEW i, i = gap + j
    PROVE  /\ i \in 1 .. end - offset /\ (place + gap) + j = place + i
           /\ (offset + gap) + j = offset + i /\ place + i = (place + j) + gap
           /\ place + j \in 1 .. end /\ place < place + j /\ (place + j) + gap <= end
  OBVIOUS

LEMMA CompactingKeeps ==
    ASSUME NEW S, buffer \in [1 .. BufferSize -> S], mask \subseteq Features,
           NEW p, Places(p, mask), NEW acc \in Accumulators(S),
           NEW f \in 0 .. 8, CompactedTo(acc, p, f)
    PROVE  /\ Compacting(acc, f + 1) \in Accumulators(S)
           /\ CompactedTo(Compacting(acc, f + 1), p, f + 1)
<1>1. PICK r \in Features : r = f + 1
  BY FeaturesAre
<1>2. PICK done : done = Compacting(acc, r)
  OBVIOUS
<1>3. /\ p[r] \in Nat /\ p[r] <= Offset[r] /\ Offset[r] \in Nat
      /\ feature_sizes[r] \in Nat \ {0} /\ BufferSize \in Nat
      /\ Offset[r] + feature_sizes[r] <= BufferSize
  BY PlacesFit
<1>4. /\ acc.at = p[r] /\ acc.at \in Nat /\ acc.buffer \in [1 .. BufferSize -> S]
      /\ acc = [at |-> acc.at, buffer |-> acc.buffer]
  BY <1>1 DEF CompactedTo, Accumulators
<1>5. \A j \in 1 .. BufferSize - Offset[r] : acc.buffer[p[r] + j] = buffer[Offset[r] + j]
  BY <1>1 DEF CompactedTo
<1>6. \A g \in Features \cap mask : g < r =>
         \A k \in 1 .. feature_sizes[g] : acc.buffer[p[g] + k] = buffer[Offset[g] + k]
  <2>1. \A g \in Features : g < r => g <= f
    BY <1>1, FeaturesAre
  <2> QED
    BY <2>1 DEF CompactedTo
<1>7. ASSUME r < 9
      PROVE  /\ r \in mask => p[r + 1] = p[r] + feature_sizes[r]
             /\ r \notin mask => p[r + 1] = p[r]
             /\ Offset[r + 1] = Offset[r] + feature_sizes[r]
             /\ p[r + 1] \in Nat
  <2>1. r \in 1 .. 8
    BY <1>7, FeaturesAre
  <2>2. /\ r \in mask => p[r + 1] = p[r] + feature_sizes[r]
        /\ r \notin mask => p[r + 1] = p[r]
        /\ p[r + 1] \in Nat
    <3>1. r + 1 \in 2 .. 9 /\ r + 1 \in Features /\ (r + 1) - 1 = r
      BY <2>1, FeaturesAre
    <3>2. p[r + 1] = p[(r + 1) - 1]
                       + (IF (r + 1) - 1 \in mask THEN feature_sizes[(r + 1) - 1] ELSE 0)
      BY <3>1, Zenon DEF Places
    <3>3. p[r + 1] = p[r] + (IF r \in mask THEN feature_sizes[r] ELSE 0)
      BY <3>1, <3>2
    <3>4. p[r + 1] \in Nat
      BY <3>1 DEF Places
    <3> QED
      BY <1>3, <3>3, <3>4
  <2>3. Offset[r + 1] = Offset[r] + feature_sizes[r]
    BY <2>1, NextPlace, OffsetsAre
  <2> QED
    BY <2>2, <2>3
<1>8. CASE r \in mask
  <2>1. done.at = p[r] + feature_sizes[r] /\ done.buffer = acc.buffer /\ done \in Accumulators(S)
    BY <1>2, <1>3, <1>4, <1>8 DEF Compacting, Accumulators
  <2>2. ASSUME NEW g \in Features \cap mask, g <= r, NEW k \in 1 .. feature_sizes[g]
        PROVE  done.buffer[p[g] + k] = buffer[Offset[g] + k]
    <3>1. CASE g < r
      BY <1>6, <2>1, <3>1
    <3>2. CASE g = r
      <4>1. k \in 1 .. BufferSize - Offset[r]
        BY <1>3, <3>2
      <4> QED
        BY <1>5, <2>1, <3>2, <4>1
    <3> QED
      BY <2>2, <3>1, <3>2, FeaturesAre
  <2>3. ASSUME r < 9, NEW j \in 1 .. BufferSize - Offset[r + 1]
        PROVE  done.buffer[p[r + 1] + j] = buffer[Offset[r + 1] + j]
    <3>1. /\ p[r + 1] = p[r] + feature_sizes[r] /\ Offset[r + 1] = Offset[r] + feature_sizes[r]
      BY <1>7, <1>8, <2>3
    <3>2. PICK i : i = feature_sizes[r] + j
      OBVIOUS
    <3>a. j \in 1 .. BufferSize - (Offset[r] + feature_sizes[r])
      BY <3>1
    <3>b. /\ i \in 1 .. BufferSize - Offset[r]
          /\ (p[r] + feature_sizes[r]) + j = p[r] + i
          /\ (Offset[r] + feature_sizes[r]) + j = Offset[r] + i
      BY <1>3, <3>2, <3>a, Shifted
    <3>3. i \in 1 .. BufferSize - Offset[r] /\ p[r + 1] + j = p[r] + i /\ Offset[r + 1] + j = Offset[r] + i
      BY <3>1, <3>b
    <3> QED
      BY <1>5, <2>1, <3>3
  <2>4. r < 9 => done.at = p[r + 1]
    BY <1>7, <1>8, <2>1
  <2>5. CompactedTo(done, p, r)
    BY <2>2, <2>3, <2>4 DEF CompactedTo
  <2> QED
    BY <1>1, <1>2, <2>1, <2>5
<1>9. CASE r \notin mask
  <2>1. done = [at |-> acc.at, buffer |-> Moved(acc.buffer, p[r], p[r] + feature_sizes[r])]
    BY <1>2, <1>4, <1>9 DEF Compacting
  <2>2. PICK b : b = Moved(acc.buffer, p[r], p[r] + feature_sizes[r])
    OBVIOUS
  <2>3. /\ b \in [1 .. BufferSize -> S]
        /\ \A i \in 1 .. BufferSize : i <= p[r] => b[i] = acc.buffer[i]
        /\ \A i \in 1 .. BufferSize : p[r] < i /\ i + feature_sizes[r] <= BufferSize =>
               b[i] = acc.buffer[i + feature_sizes[r]]
    <3>1. PICK from, at, gap : from = acc.buffer /\ at = p[r] /\ gap = feature_sizes[r]
      OBVIOUS
    <3>2. from \in [1 .. BufferSize -> S] /\ at \in Nat /\ gap \in Nat
      BY <1>3, <1>4, <3>1
    <3>3. b = [i \in 1 .. BufferSize |->
                  IF i \in at + 1 .. BufferSize - ((at + gap) - at)
                  THEN from[i + (at + gap) - at] ELSE from[i]]
      BY <2>2, <3>1 DEF Moved
    <3>4. ASSUME NEW i \in 1 .. BufferSize
          PROVE  /\ i \in at + 1 .. BufferSize - ((at + gap) - at)
                        <=> at < i /\ i + gap <= BufferSize
                 /\ i + (at + gap) - at = i + gap
                 /\ at < i /\ i + gap <= BufferSize => i + gap \in 1 .. BufferSize
                 /\ i <= at => ~(at < i)
      BY <1>3, <3>2, MovedFrom
    <3>5. \A i \in 1 .. BufferSize :
              b[i] = IF at < i /\ i + gap <= BufferSize THEN from[i + gap] ELSE from[i]
      BY <3>3, <3>4
    <3>6. \A i \in 1 .. BufferSize : b[i] \in S
      BY <3>2, <3>4, <3>5
    <3>7. b \in [1 .. BufferSize -> S]
      BY <3>3, <3>6
    <3> QED
      BY <3>1, <3>4, <3>5, <3>7
  <2>4. done.at = p[r] /\ done.buffer = b /\ done \in Accumulators(S)
    BY <1>4, <2>1, <2>2, <2>3 DEF Accumulators
  <2>5. ASSUME NEW g \in Features \cap mask, g <= r, NEW k \in 1 .. feature_sizes[g]
        PROVE  done.buffer[p[g] + k] = buffer[Offset[g] + k]
    <3>1. g < r
      BY <1>9, <2>5, FeaturesAre
    <3>2. p[g] + feature_sizes[g] <= p[r]
      BY <3>1, PlacesGrow
    <3>3. p[g] \in Nat /\ feature_sizes[g] \in Nat
      BY PlacesFit
    <3>4. p[g] + k \in 1 .. BufferSize /\ p[g] + k <= p[r]
      BY <1>3, <3>2, <3>3, WithinPlace
    <3>5. b[p[g] + k] = acc.buffer[p[g] + k]
      BY <2>3, <3>4
    <3> QED
      BY <1>6, <2>4, <3>1, <3>5
  <2>6. ASSUME r < 9, NEW j \in 1 .. BufferSize - Offset[r + 1]
        PROVE  done.buffer[p[r + 1] + j] = buffer[Offset[r + 1] + j]
    <3>1. p[r + 1] = p[r] /\ Offset[r + 1] = Offset[r] + feature_sizes[r]
      BY <1>7, <1>9, <2>6
    <3>2. PICK i : i = feature_sizes[r] + j
      OBVIOUS
    <3>3. /\ i \in 1 .. BufferSize - Offset[r] /\ p[r] + i = (p[r] + j) + feature_sizes[r]
          /\ Offset[r + 1] + j = Offset[r] + i
          /\ p[r] + j \in 1 .. BufferSize /\ p[r] < p[r] + j
          /\ (p[r] + j) + feature_sizes[r] <= BufferSize
      <4>1. j \in 1 .. BufferSize - (Offset[r] + feature_sizes[r])
        BY <3>1
      <4>2. /\ i \in 1 .. BufferSize - Offset[r] /\ p[r] + i = (p[r] + j) + feature_sizes[r]
            /\ (Offset[r] + feature_sizes[r]) + j = Offset[r] + i
            /\ p[r] + j \in 1 .. BufferSize /\ p[r] < p[r] + j
            /\ (p[r] + j) + feature_sizes[r] <= BufferSize
        <5>1. PICK place, offset, gap :
                  place = p[r] /\ offset = Offset[r] /\ gap = feature_sizes[r]
          OBVIOUS
        <5>2. /\ place \in Nat /\ offset \in Nat /\ gap \in Nat \ {0} /\ BufferSize \in Nat
              /\ place <= offset /\ offset + gap <= BufferSize
              /\ j \in 1 .. BufferSize - (offset + gap) /\ i = gap + j
          BY <1>3, <3>2, <4>1, <5>1
        <5>3. /\ i \in 1 .. BufferSize - offset /\ place + i = (place + j) + gap
              /\ (offset + gap) + j = offset + i
              /\ place + j \in 1 .. BufferSize /\ place < place + j
              /\ (place + j) + gap <= BufferSize
          BY <5>2, Shifted
        <5> QED
          BY <5>1, <5>3
      <4> QED
        BY <3>1, <4>2
    <3>4. b[p[r] + j] = acc.buffer[(p[r] + j) + feature_sizes[r]]
      BY <2>3, <3>3
    <3> QED
      BY <1>5, <2>4, <3>1, <3>3, <3>4
  <2>7. r < 9 => done.at = p[r + 1]
    BY <1>7, <1>9, <2>4
  <2>8. CompactedTo(done, p, r)
    BY <2>5, <2>6, <2>7 DEF CompactedTo
  <2> QED
    BY <1>1, <1>2, <2>4, <2>8
<1> QED
  BY <1>8, <1>9

LEMMA CompactingType ==
    ASSUME NEW S, NEW acc \in Accumulators(S), NEW f \in Features
    PROVE  Compacting(acc, f) \in Accumulators(S)
<1>1. /\ acc.at \in Nat /\ acc.buffer \in [1 .. BufferSize -> S]
      /\ acc = [at |-> acc.at, buffer |-> acc.buffer]
      /\ feature_sizes[f] \in Nat /\ BufferSize \in Nat
  BY FeaturesAre, FrameAssumption DEF Accumulators
<1>2. CASE f \in mask
  BY <1>1, <1>2 DEF Compacting, Accumulators
<1>3. CASE f \notin mask
  <2>1. PICK from, at, gap : from = acc.buffer /\ at = acc.at /\ gap = feature_sizes[f]
    OBVIOUS
  <2>2. PICK b : b = Moved(from, at, at + gap)
    OBVIOUS
  <2>3. b = [i \in 1 .. BufferSize |->
                IF i \in at + 1 .. BufferSize - ((at + gap) - at)
                THEN from[i + (at + gap) - at] ELSE from[i]]
    BY <2>2 DEF Moved
  <2>4. ASSUME NEW i \in 1 .. BufferSize
        PROVE  b[i] \in S
    <3>1. /\ i \in at + 1 .. BufferSize - ((at + gap) - at) <=> at < i /\ i + gap <= BufferSize
          /\ i + (at + gap) - at = i + gap
          /\ at < i /\ i + gap <= BufferSize => i + gap \in 1 .. BufferSize
      BY <1>1, <2>1, MovedFrom
    <3> QED
      BY <1>1, <2>1, <2>3, <3>1
  <2>5. b \in [1 .. BufferSize -> S]
    BY <2>3, <2>4
  <2>6. Compacting(acc, f) = [at |-> at, buffer |-> b]
    BY <1>1, <1>3, <2>1, <2>2 DEF Compacting
  <2> QED
    BY <1>1, <2>1, <2>5, <2>6 DEF Accumulators
<1> QED
  BY <1>2, <1>3

(* finish puts every feature where get_frame_message_data looks for it.    *)
LEMMA CompactedIs ==
    ASSUME NEW S, buffer \in [1 .. BufferSize -> S], mask \subseteq Features,
           NEW p, Places(p, mask)
    PROVE  /\ Compacted \in [1 .. BufferSize -> S]
           /\ \A f \in mask : \A k \in 1 .. feature_sizes[f] :
                 Compacted[p[f] + k] = buffer[Offset[f] + k]
<1> DEFINE Def(h) == [f \in 0 .. Len(feature_sizes) |->
                         IF f = 0 THEN [at |-> HeaderSize, buffer |-> buffer]
                         ELSE Compacting(h[f - 1], f)]
<1>0. Len(feature_sizes) = 9
  BY DEF feature_sizes
<1>1. PICK V : V = Accumulators(S)
  OBVIOUS
<1>2. PICK start \in V : start = [at |-> HeaderSize, buffer |-> buffer]
  BY <1>1 DEF Accumulators, HeaderSize
<1>3. PICK F : F = [x \in V \X Nat |-> IF x[2] \in Features THEN Compacting(x[1], x[2]) ELSE x[1]]
  OBVIOUS
<1>4. F \in [V \X Nat -> V]
  <2>1. \A v \in V, f \in Features : Compacting(v, f) \in V
    BY <1>1, CompactingType
  <2> QED
    BY <1>3, <2>1
<1>5. ASSUME NEW v \in V, NEW f \in Features
      PROVE  F[<<v, f>>] = Compacting(v, f)
  <2>1. f \in Nat
    BY FeaturesAre
  <2>2. PICK x : x = <<v, f>>
    OBVIOUS
  <2>3. x \in V \X Nat /\ x[1] = v /\ x[2] = f
    BY <2>1, <2>2
  <2>4. F[x] = IF x[2] \in Features THEN Compacting(x[1], x[2]) ELSE x[1]
    BY <1>3, <2>3, Zenon
  <2> QED
    BY <2>2, <2>3, <2>4, Zenon
<1>6. PICK g \in [0 .. 9 -> V] : Computes(g, 9, start, F)
  BY <1>4, LoopExists
<1>7. g = Def(g)
  <2>1. ASSUME NEW f \in 0 .. 9, f # 0
        PROVE  g[f] = Compacting(g[f - 1], f)
    <3>1. f \in 1 .. 9 /\ f \in Features /\ f - 1 \in 0 .. 9
      BY <2>1, FeaturesAre
    <3>2. g[f - 1] \in V
      BY <1>6, <3>1
    <3>3. g[f] = F[<<g[f - 1], f>>]
      BY <1>6, <3>1 DEF Computes
    <3> QED
      BY <1>5, <3>1, <3>2, <3>3
  <2>2. g[0] = [at |-> HeaderSize, buffer |-> buffer]
    BY <1>2, <1>6 DEF Computes
  <2>3. g = [f \in 0 .. 9 |-> g[f]]
    BY <1>6
  <2> QED
    BY <1>0, <2>1, <2>2, <2>3
<1>8. PICK h : h = CHOOSE q : q = Def(q)
  OBVIOUS
<1>9. h = Def(h)
  <2> HIDE DEF Def
  <2> QED
    BY <1>7, <1>8
<1>10. Compacted = h[9].buffer
  BY <1>0, <1>8 DEF Compacted
<1>11. h[0] = start
  BY <1>0, <1>2, <1>9
<1>12. ASSUME NEW f \in 0 .. 8
       PROVE  h[f + 1] = Compacting(h[f], f + 1)
  <2>1. f + 1 \in 0 .. 9 /\ f + 1 # 0 /\ (f + 1) - 1 = f
    OBVIOUS
  <2> QED
    BY <1>0, <1>9, <2>1
<1> DEFINE P == {k \in Nat : k \in 0 .. 9 => h[k] \in V /\ CompactedTo(h[k], p, k)}
<1>13. 0 \in P
  <2>1. 1 \in Features /\ p[1] = HeaderSize /\ Offset[1] = HeaderSize
    BY OffsetsAre, FeaturesAre DEF Places
  <2>2. start.at = HeaderSize /\ start.buffer = buffer
    BY <1>2
  <2>3. \A f \in Features : ~(f <= 0)
    BY FeaturesAre
  <2>4. CompactedTo(start, p, 0)
    BY <2>1, <2>2, <2>3 DEF CompactedTo
  <2> QED
    BY <1>11, <2>4
<1>14. ASSUME NEW k \in P
       PROVE  k + 1 \in P
  <2>1. CASE k + 1 \in 0 .. 9
    <3>1. k \in 0 .. 8 /\ k \in 0 .. 9 /\ k + 1 \in Nat
      BY <2>1
    <3>2. PICK acc \in V : acc = h[k]
      BY <1>14, <3>1
    <3>3. CompactedTo(acc, p, k)
      BY <1>14, <3>1, <3>2
    <3>4. acc \in Accumulators(S)
      BY <1>1, <3>2
    <3>5. /\ Compacting(acc, k + 1) \in Accumulators(S)
          /\ CompactedTo(Compacting(acc, k + 1), p, k + 1)
      BY <3>1, <3>3, <3>4, CompactingKeeps
    <3>6. h[k + 1] = Compacting(acc, k + 1)
      BY <1>12, <3>1, <3>2
    <3> QED
      BY <1>1, <3>1, <3>5, <3>6
  <2>2. CASE k + 1 \notin 0 .. 9
    BY <1>14, <2>2
  <2> QED
    BY <2>1, <2>2
<1>15. P \in SUBSET Nat
  OBVIOUS
<1>16. P = Nat
  <2> HIDE DEF P
  <2> QED
    BY <1>13, <1>14, <1>15, ByInduction
<1>17. h[9] \in V /\ CompactedTo(h[9], p, 9)
  <2>1. 9 \in P
    BY <1>16
  <2> QED
    BY <2>1
<1>18. \A f \in Features : f <= 9
  BY FeaturesAre
<1> HIDE DEF Def, P
<1> QED
  BY <1>1, <1>10, <1>17, <1>18 DEF CompactedTo, Accumulators

-----------------------------------------------------------------------------
(* FrameMessage: what is read is what was added                            *)

Holds(f, d, at) == \A k \in 1 .. feature_sizes[f] : buffer[at + k] = Units(f, d)[k]

(* Before finish every feature is at its offset, after it at its place in  *)
(* the message; the size covers those that were added.                     *)
FrameInv ==
    /\ mask \subseteq Features /\ size \in Nat /\ finished \in BOOLEAN
    /\ \E S : buffer \in [1 .. BufferSize -> S]
    /\ latest \in [Features -> SUBSET Data]
    /\ \A f \in mask : \E d \in Data : latest[f] = {d}
    /\ \A f \in Features \ mask : latest[f] = {}
    /\ ~finished => \A f \in mask : \A d \in latest[f] : Holds(f, d, Offset[f])
    /\ \A p : Places(p, mask) =>
          /\ p[9] + (IF 9 \in mask THEN feature_sizes[9] ELSE 0) <= size
          /\ finished => \A f \in mask : \A d \in latest[f] : Holds(f, d, p[f])
    /\ finished => buffer[1] = <<mask, size>>

LEMMA FrameBegins ==
    (/\ mask = {} /\ size = HeaderSize /\ finished = FALSE
     /\ buffer = [i \in 1 .. BufferSize |-> Zero] /\ latest = [f \in Features |-> {}])
        => FrameInv
<1> SUFFICES ASSUME mask = {}, size = HeaderSize, finished = FALSE,
                    buffer = [i \in 1 .. BufferSize |-> Zero], latest = [f \in Features |-> {}]
             PROVE  FrameInv
  OBVIOUS
<1>1. buffer \in [1 .. BufferSize -> {Zero}]
  OBVIOUS
<1>2. ASSUME NEW p, Places(p, {})
      PROVE  p[9] <= size
  <2>1. \A f \in 1 .. 8 : p[f + 1] = p[f]
    BY <1>2, NextPlace
  <2>2. p[9] = p[1]
    <3>1. /\ p[2] = p[1] /\ p[3] = p[2] /\ p[4] = p[3] /\ p[5] = p[4]
          /\ p[6] = p[5] /\ p[7] = p[6] /\ p[8] = p[7] /\ p[9] = p[8]
      BY <2>1
    <3> QED
      BY <3>1
  <2>3. p[1] = HeaderSize /\ HeaderSize \in Nat
    BY <1>2 DEF Places, HeaderSize
  <2> QED
    BY <2>2, <2>3
<1>3. size \in Nat
  BY DEF HeaderSize
<1>4. latest \in [Features -> SUBSET Data] /\ \A f \in Features : latest[f] = {}
  OBVIOUS
<1>5. ASSUME NEW p, Places(p, {})
      PROVE  p[9] + 0 <= size
  <2>1. p[9] \in Nat
    BY <1>5, FeaturesAre DEF Places
  <2> QED
    BY <1>2, <1>5, <2>1
<1> QED
  BY <1>1, <1>3, <1>4, <1>5 DEF FrameInv

(* The end of the message, for one feature more.                           *)
LEMMA EndGrows ==
    ASSUME NEW m \in SUBSET Features, NEW f \in Features, NEW p, Places(p, m),
           NEW q, Places(q, m \cup {f})
    PROVE  q[9] + (IF 9 \in m \cup {f} THEN feature_sizes[9] ELSE 0)
               <= p[9] + (IF 9 \in m THEN feature_sizes[9] ELSE 0) + feature_sizes[f]
<1> DEFINE P == {k \in Nat : k + 1 \in Features =>
                     /\ q[k + 1] <= p[k + 1] + feature_sizes[f]
                     /\ k + 1 <= f => q[k + 1] = p[k + 1]}
<1>0. f \in Nat /\ feature_sizes[f] \in Nat
  BY FeaturesAre
<1>1. 0 \in P
  BY <1>0 DEF Places, HeaderSize
<1>2. ASSUME NEW k \in P
      PROVE  k + 1 \in P
  <2>1. PICK e : e = k + 1
    OBVIOUS
  <2>2. k \in Nat /\ e \in Nat /\ e >= 1
    BY <2>1
  <2>3. ASSUME e + 1 \in Features
        PROVE  /\ q[e + 1] <= p[e + 1] + feature_sizes[f]
               /\ e + 1 <= f => q[e + 1] = p[e + 1]
    <3>1. e \in 1 .. 8 /\ e \in Features
      BY <2>2, <2>3, FeaturesAre
    <3>2. /\ q[e] <= p[e] + feature_sizes[f]
          /\ e <= f => q[e] = p[e]
      BY <1>2, <2>1, <3>1
    <3>3. /\ p[e] \in Nat /\ p[e + 1] \in Nat
          /\ e \in m => p[e + 1] = p[e] + feature_sizes[e]
          /\ e \notin m => p[e + 1] = p[e]
      BY <3>1, NextPlace
    <3>4. /\ q[e] \in Nat /\ q[e + 1] \in Nat
          /\ e \in m \cup {f} => q[e + 1] = q[e] + feature_sizes[e]
          /\ e \notin m \cup {f} => q[e + 1] = q[e]
      BY <3>1, NextPlace
    <3>5. feature_sizes[e] \in Nat
      BY <3>1, FeaturesAre
    <3>6. CASE e = f
      <4>1. ~(e + 1 <= f) /\ q[e] = p[e]
        BY <1>0, <3>2, <3>6
      <4> QED
        BY <3>3, <3>4, <3>5, <3>6, <4>1
    <3>7. CASE e # f
      <4>1. e + 1 <= f => e <= f
        BY <1>0, <2>2
      <4> QED
        BY <1>0, <3>2, <3>3, <3>4, <3>5, <3>7, <4>1
    <3> QED
      BY <3>6, <3>7
  <2> QED
    BY <2>1, <2>2, <2>3
<1>3. P \in SUBSET Nat
  OBVIOUS
<1>4. P = Nat
  <2> HIDE DEF P
  <2> QED
    BY <1>1, <1>2, <1>3, ByInduction
<1>5. /\ q[9] <= p[9] + feature_sizes[f]
      /\ 9 <= f => q[9] = p[9]
  <2>1. 8 \in P
    BY <1>4
  <2> QED
    BY <2>1, FeaturesAre
<1>6. p[9] \in Nat /\ q[9] \in Nat /\ feature_sizes[9] \in Nat
  BY FeaturesAre DEF Places
<1>7. CASE f = 9
  BY <1>0, <1>5, <1>6, <1>7
<1>8. CASE f # 9
  <2>1. 9 \in m \cup {f} <=> 9 \in m
    BY <1>8
  <2> QED
    BY <1>0, <1>5, <1>6, <2>1
<1> QED
  BY <1>7, <1>8

LEMMA AddKeeps ==
    ASSUME FrameInv, NEW f \in Features, NEW d \in Data, Add(f, d)
    PROVE  FrameInv'
<1>0. /\ mask' = mask \cup {f} /\ size' = size + feature_sizes[f] /\ finished' = FALSE
      /\ latest' = [latest EXCEPT ![f] = {d}] /\ ~finished
      /\ feature_sizes[f] \in Nat /\ size \in Nat
  BY FeaturesAre DEF Add, FrameInv
<1>1. PICK S : buffer \in [1 .. BufferSize -> S]
  BY DEF FrameInv
<1>2. buffer' = [i \in 1 .. BufferSize |->
                    IF i - Offset[f] \in 1 .. feature_sizes[f]
                    THEN Units(f, d)[i - Offset[f]] ELSE buffer[i]]
  BY DEF Add
<1>3. \E T : buffer' \in [1 .. BufferSize -> T]
  <2>1. PICK T : T = {buffer'[i] : i \in 1 .. BufferSize}
    OBVIOUS
  <2>2. buffer' \in [1 .. BufferSize -> T]
    BY <1>2, <2>1
  <2> QED
    BY <2>2
<1>4. \A g \in Features : /\ Offset[g] \in Nat /\ feature_sizes[g] \in Nat
                          /\ Offset[g] + feature_sizes[g] <= BufferSize
                          /\ BufferSize \in Nat
  BY FeaturesAre, FrameAssumption, OffsetsAre DEF Places
<1>5. ASSUME NEW k \in 1 .. feature_sizes[f]
      PROVE  buffer'[Offset[f] + k] = Units(f, d)[k]
  <2>1. PICK i : i = Offset[f] + k
    OBVIOUS
  <2>2. i \in 1 .. BufferSize /\ i - Offset[f] = k
    BY <1>4, <2>1
  <2> QED
    BY <1>2, <2>1, <2>2
<1>6. ASSUME NEW g \in Features, g # f, NEW k \in 1 .. feature_sizes[g]
      PROVE  buffer'[Offset[g] + k] = buffer[Offset[g] + k]
  <2>1. PICK i : i = Offset[g] + k
    OBVIOUS
  <2>2. i \in 1 .. BufferSize
    BY <1>4, <2>1
  <2>3. \/ Offset[f] + feature_sizes[f] <= Offset[g]
        \/ Offset[g] + feature_sizes[g] <= Offset[f]
    <3>1. f < g \/ g < f
      BY <1>6, FeaturesAre
    <3>2. CASE f < g
      BY <3>2, OffsetsAre, PlacesGrow
    <3>3. CASE g < f
      BY <3>3, OffsetsAre, PlacesGrow
    <3> QED
      BY <3>1, <3>2, <3>3
  <2>4. i - Offset[f] \notin 1 .. feature_sizes[f]
    BY <1>4, <2>1, <2>3
  <2> QED
    BY <1>2, <2>1, <2>2, <2>4
<1>7. /\ latest' \in [Features -> SUBSET Data] /\ latest'[f] = {d}
      /\ \A g \in Features : g # f => latest'[g] = latest[g]
  BY <1>0 DEF FrameInv
<1>8. \A g \in mask' : \E e \in Data : latest'[g] = {e}
  BY <1>0, <1>7 DEF FrameInv
<1>9. \A g \in Features \ mask' : latest'[g] = {}
  BY <1>0, <1>7 DEF FrameInv
<1>10. ASSUME NEW g \in mask', NEW e \in latest'[g], NEW k \in 1 .. feature_sizes[g]
       PROVE  buffer'[Offset[g] + k] = Units(g, e)[k]
  <2>1. CASE g = f
    BY <1>5, <1>7, <1>10, <2>1
  <2>2. CASE g # f
    <3>1. g \in mask /\ g \in Features /\ e \in latest[g]
      BY <1>0, <1>7, <2>2 DEF FrameInv
    <3>2. buffer[Offset[g] + k] = Units(g, e)[k]
      BY <1>0, <3>1 DEF FrameInv, Holds
    <3> QED
      BY <1>6, <2>2, <3>1, <3>2
  <2> QED
    BY <2>1, <2>2
<1>11. ASSUME NEW q, Places(q, mask')
       PROVE  q[9] + (IF 9 \in mask' THEN feature_sizes[9] ELSE 0) <= size'
  <2>1. PICK p : Places(p, mask)
    BY PlacesExist
  <2>2. mask \in SUBSET Features
    BY DEF FrameInv
  <2>3. q[9] + (IF 9 \in mask' THEN feature_sizes[9] ELSE 0)
            <= p[9] + (IF 9 \in mask THEN feature_sizes[9] ELSE 0) + feature_sizes[f]
    BY <1>0, <1>11, <2>1, <2>2, EndGrows
  <2>4. p[9] + (IF 9 \in mask THEN feature_sizes[9] ELSE 0) <= size
    BY <2>1 DEF FrameInv
  <2>5. p[9] \in Nat /\ q[9] \in Nat /\ feature_sizes[9] \in Nat
    BY <1>11, <2>1, FeaturesAre DEF Places
  <2> QED
    BY <1>0, <2>3, <2>4, <2>5
<1>12. mask' \subseteq Features /\ size' \in Nat
  BY <1>0 DEF FrameInv
<1> QED
  BY <1>0, <1>3, <1>7, <1>8, <1>9, <1>10, <1>11, <1>12 DEF FrameInv, Holds

LEMMA FinishKeeps ==
    ASSUME FrameInv, Finish
    PROVE  FrameInv'
<1>0. /\ ~finished /\ buffer' = [Compacted EXCEPT ![1] = <<mask, size>>] /\ finished' = TRUE
      /\ mask' = mask /\ size' = size /\ latest' = latest /\ mask \in SUBSET Features
  BY DEF Finish, FrameInv
<1>1. PICK S : buffer \in [1 .. BufferSize -> S]
  BY DEF FrameInv
<1>2. PICK c : c = Compacted
  OBVIOUS
<1>3. c \in [1 .. BufferSize -> S]
  <2>1. PICK p : Places(p, mask)
    BY PlacesExist
  <2> QED
    BY <1>0, <1>1, <1>2, <2>1, CompactedIs
<1>4. 1 \in 1 .. BufferSize
  <2>1. 1 \in Features /\ Offset[1] = HeaderSize
    BY OffsetsAre, FeaturesAre DEF Places
  <2>2. BufferSize \in Nat /\ Offset[1] + feature_sizes[1] <= BufferSize /\ feature_sizes[1] \in Nat
    BY <2>1, FrameAssumption, FeaturesAre
  <2> QED
    BY <2>1, <2>2 DEF HeaderSize
<1>5. /\ buffer' = [c EXCEPT ![1] = <<mask, size>>]
      /\ buffer'[1] = <<mask, size>>
      /\ \A i \in 1 .. BufferSize : i # 1 => buffer'[i] = c[i]
  BY <1>0, <1>2, <1>3, <1>4
<1>6. \E T : buffer' \in [1 .. BufferSize -> T]
  <2>1. PICK T : T = {buffer'[i] : i \in 1 .. BufferSize}
    OBVIOUS
  <2>2. buffer' \in [1 .. BufferSize -> T]
    BY <1>3, <1>5, <2>1
  <2> QED
    BY <2>2
<1>7. ASSUME NEW p, Places(p, mask'), NEW f \in mask, NEW d \in latest[f],
             NEW k \in 1 .. feature_sizes[f]
      PROVE  buffer'[p[f] + k] = Units(f, d)[k]
  <2>1. c[p[f] + k] = buffer[Offset[f] + k]
    BY <1>0, <1>1, <1>2, <1>7, CompactedIs
  <2>2. buffer[Offset[f] + k] = Units(f, d)[k]
    BY <1>0 DEF FrameInv, Holds
  <2>3. f \in Features /\ Places(p, mask)
    BY <1>0, <1>7
  <2>4. /\ p[f] \in Nat /\ p[f] >= HeaderSize /\ Offset[f] \in Nat /\ p[f] <= Offset[f]
        /\ feature_sizes[f] \in Nat \ {0} /\ BufferSize \in Nat
        /\ Offset[f] + feature_sizes[f] <= BufferSize
    BY <1>0, <2>3, PlacesFit
  <2>5. p[f] + k \in 1 .. BufferSize /\ p[f] + k # 1
    BY <2>4 DEF HeaderSize
  <2> QED
    BY <1>5, <2>1, <2>2, <2>5
<1>8. ASSUME NEW p, Places(p, mask')
      PROVE  p[9] + (IF 9 \in mask' THEN feature_sizes[9] ELSE 0) <= size'
  BY <1>0, <1>8 DEF FrameInv
<1> QED
  BY <1>0, <1>5, <1>6, <1>7, <1>8 DEF FrameInv, Holds

LEMMA PartIs ==
    ASSUME NEW s, NEW at \in Nat,
           NEW width \in Nat \ {0}, NEW t,
           \E T : t \in [1 .. width -> T], \A k \in 1 .. width : s[at + k] = t[k]
    PROVE  SubSeq(s, at + 1, at + width) = t
<1>0. PICK from, to : from = at + 1 /\ to = at + width
  OBVIOUS
<1>1. PICK part : part = SubSeq(s, from, to)
  OBVIOUS
<1>2. from \in Int /\ to \in Int /\ to - from + 1 = width /\ from <= to
  BY <1>0
<1>3. PICK S : S = {s[k] : k \in from .. to}
  OBVIOUS
<1>4. part \in Seq(S) /\ Len(part) = width /\ \A k \in 1 .. width : part[k] = s[from + k - 1]
  <2>1. \A k \in from .. to : s[k] \in S
    BY <1>3
  <2>2. /\ SubSeq(s, from, to) \in Seq(S)
        /\ Len(SubSeq(s, from, to)) = IF from <= to THEN to - from + 1 ELSE 0
        /\ \A k \in 1 .. to - from + 1 : SubSeq(s, from, to)[k] = s[from + k - 1]
    BY <1>2, <2>1, SubSeqProperties
  <2> QED
    BY <1>1, <1>2, <2>2
<1>5. \A k \in 1 .. width : from + k - 1 = at + k
  BY <1>0
<1>6. \A k \in 1 .. width : t[k] \in S /\ part[k] = t[k]
  <2>1. \A k \in 1 .. width : at + k \in from .. to
    BY <1>0
  <2> QED
    BY <1>3, <1>4, <1>5, <2>1
<1>7. t \in Seq(S) /\ Len(t) = width
  BY <1>6
<1>8. part = t
  BY <1>4, <1>6, <1>7, SeqEqual
<1> QED
  BY <1>0, <1>1, <1>8

LEMMA FrameReads == FrameInv => ReadsBack
<1> SUFFICES ASSUME FrameInv, finished, NEW f \in Features
             PROVE  /\ Get(buffer, size, f) = {Units(f, d) : d \in latest[f]}
                    /\ latest[f] # {} => Place(buffer, f) + feature_sizes[f] <= size
  BY DEF ReadsBack
<1>1. buffer[1][1] = mask /\ mask \in SUBSET Features
  BY DEF FrameInv
<1>2. PICK p : Places(p, mask) /\ \A g \in Features : Place(buffer, g) = p[g]
  BY <1>1, PlaceIs
<1>3. CASE f \notin mask
  BY <1>1, <1>3 DEF FrameInv, Get
<1>4. CASE f \in mask
  <2>1. PICK d \in Data : latest[f] = {d}
    BY <1>4 DEF FrameInv
  <2>2. /\ p[f] \in Nat /\ Offset[f] \in Nat /\ p[f] <= Offset[f]
        /\ feature_sizes[f] \in Nat \ {0} /\ BufferSize \in Nat
        /\ Offset[f] + feature_sizes[f] <= BufferSize
    BY <1>1, <1>2, PlacesFit
  <2>3. p[f] + feature_sizes[f] <= size /\ size \in Nat
    <3>1. /\ p[9] + (IF 9 \in mask THEN feature_sizes[9] ELSE 0) <= size
      BY <1>2 DEF FrameInv
    <3>a. size \in Nat /\ p[9] \in Nat /\ feature_sizes[9] \in Nat
      <4>1. size \in Nat
        BY DEF FrameInv
      <4>2. 9 \in Features
        BY FeaturesAre
      <4> QED
        BY <1>2, <4>1, <4>2, FeaturesAre DEF Places
    <3>2. CASE f = 9
      BY <1>4, <3>1, <3>a, <3>2
    <3>3. CASE f # 9
      <4>1. f < 9 /\ 9 \in Features
        BY <3>3, FeaturesAre
      <4>2. p[f] + feature_sizes[f] <= p[9]
        BY <1>2, <1>4, <4>1, PlacesGrow
      <4> QED
        BY <2>2, <3>1, <3>a, <4>2
    <3> QED
      BY <3>2, <3>3
  <2>4. PICK S : buffer \in [1 .. BufferSize -> S]
    BY DEF FrameInv
  <2>5. \A k \in 1 .. feature_sizes[f] : buffer[p[f] + k] = Units(f, d)[k]
    BY <1>2, <1>4, <2>1 DEF FrameInv, Holds
  <2>6. Units(f, d) = [k \in 1 .. feature_sizes[f] |-> Units(f, d)[k]]
    BY DEF Units
  <2>7. p[f] + feature_sizes[f] <= BufferSize
    BY <2>2
  <2>8. SubSeq(buffer, p[f] + 1, p[f] + feature_sizes[f]) = Units(f, d)
    <3>1. PICK s, at, width, t : /\ s = buffer /\ at = p[f] /\ width = feature_sizes[f]
                                 /\ t = Units(f, d)
      OBVIOUS
    <3>2. /\ s \in [1 .. BufferSize -> S] /\ BufferSize \in Nat /\ at \in Nat
          /\ width \in Nat \ {0} /\ at + width <= BufferSize
          /\ \A k \in 1 .. width : s[at + k] = t[k]
      BY <2>2, <2>4, <2>5, <2>7, <3>1
    <3>a. \E T : t \in [1 .. width -> T]
      <4>1. PICK T : T = {t[k] : k \in 1 .. width}
        OBVIOUS
      <4>2. t \in [1 .. width -> T]
        BY <2>6, <3>1, <4>1
      <4> QED
        BY <4>2
    <3>3. SubSeq(s, at + 1, at + width) = t
      BY <3>2, <3>a, PartIs
    <3> QED
      BY <3>1, <3>3
  <2>9. Get(buffer, size, f) = {Units(f, d)}
    <3>1. p[f] < size
      BY <2>2, <2>3
    <3> QED
      BY <1>1, <1>2, <1>4, <2>8, <3>1 DEF Get
  <2> QED
    BY <1>2, <2>1, <2>3, <2>9
<1> QED
  BY <1>3, <1>4

(* A message reads back what was added last of every feature, and none     *)
(* that was not added; what follows the features of a message is not       *)
(* looked at (FrameMessageBuilder, get_frame_message_data).                *)
THEOREM MessagesReadBack == FrameSpec => []ReadsBack
<1>1. FrameInit => FrameInv
  BY FrameBegins DEF FrameInit
<1>2. FrameInv /\ [FrameNext]_frameVars => FrameInv'
  <2> SUFFICES ASSUME FrameInv, [FrameNext]_frameVars
               PROVE  FrameInv'
    OBVIOUS
  <2>1. CASE UNCHANGED frameVars
    BY <2>1 DEF FrameInv, Holds, frameVars
  <2>2. CASE Finish
    BY <2>2, FinishKeeps
  <2>3. CASE ClearMessage
    <3>1. (/\ mask = {} /\ size = HeaderSize /\ finished = FALSE
           /\ buffer = [i \in 1 .. BufferSize |-> Zero] /\ latest = [f \in Features |-> {}])'
      BY <2>3 DEF ClearMessage, HeaderSize
    <3> QED
      BY <3>1, FrameBegins, PTL
  <2>4. ASSUME NEW f \in Features, NEW d \in Data, Add(f, d)
        PROVE  FrameInv'
    BY <2>4, AddKeeps
  <2> QED
    BY <2>1, <2>2, <2>3, <2>4 DEF FrameNext
<1> QED
  BY <1>1, <1>2, FrameReads, PTL DEF FrameSpec

-----------------------------------------------------------------------------
(* HttpRequest: the headers                                                *)

(* No header before the i-th is without a value.                           *)
Clean(hs, i) == \A j \in 1 .. i - 1 : hs[j].value # <<>>

(* What header_fields hf holds when of the headers hs the names and values *)
(* nm and vl were delivered: up to the first header without a value a      *)
(* field for every name that has begun, as it was delivered; that one's    *)
(* only until the next name begins.                                        *)
HeadersAre(hs, hf, nm, vl) ==
    /\ hs = <<>> => hf = <<>>
    /\ \A i \in 1 .. Len(hs) : Clean(hs, i) =>
          /\ nm[i] # <<>> <=> i <= Len(hf)
          /\ i = Len(hs) \/ nm[i + 1] = <<>> => Len(hf) <= i
          /\ i <= Len(hf) /\ (i = Len(hs) \/ nm[i + 1] = <<>> \/ hs[i].value # <<>>) =>
                hf[i] = Header(nm[i], vl[i])

(* The headers before the k-th were delivered, none behind it.             *)
HeadersTo(hs, nm, vl, k) ==
    /\ \A j \in 1 .. k - 1 : nm[j] = hs[j].name /\ nm[j] # <<>> /\ vl[j] = hs[j].value
    /\ \A j \in k + 1 .. Len(hs) : nm[j] = <<>> /\ vl[j] = <<>>

(* With k - 1 headers delivered the first one without a value is i.        *)
LEMMA FirstWithoutValue ==
    ASSUME NEW X, NEW hs \in Seq([name : X, value : X]), NEW k \in 1 .. Len(hs), ~Clean(hs, k)
    PROVE  \E i \in 1 .. k - 1 : Clean(hs, i) /\ hs[i].value = <<>>
<1>1. PICK empty : empty = {j \in 1 .. k - 1 : hs[j].value = <<>>}
  OBVIOUS
<1>2. Len(hs) \in Nat
  BY LenProperties
<1>3. empty \in SUBSET Nat /\ empty # {}
  BY <1>1, <1>2 DEF Clean
<1>4. PICK i \in empty : \A j \in empty : i <= j
  BY <1>3, LeastIs
<1>5. i \in 1 .. k - 1 /\ hs[i].value = <<>>
  BY <1>1, <1>4
<1>6. \A j \in 1 .. i - 1 : hs[j].value # <<>>
  <2>1. \A j \in 1 .. i - 1 : j \in 1 .. k - 1 /\ ~(i <= j)
    BY <1>2, <1>5
  <2> QED
    BY <1>1, <1>4, <2>1
<1> QED
  BY <1>5, <1>6 DEF Clean

(* Texts: any set of sequences in which they can be joined.                *)
Joined(X) == <<>> \in X /\ \A x \in X, y \in X : x \o y \in X

(* header_fields after a piece of a name.                                  *)
NameAdded(hf, part) ==
    IF hf = <<>> \/ Last(hf).value # <<>> THEN Append(hf, Header(part, <<>>))
    ELSE [hf EXCEPT ![Len(hf)] = Header(@.name \o part, @.value)]

LEMMA NameArrives ==
    ASSUME NEW X, Joined(X), NEW hs \in Seq([name : X, value : X]),
           NEW hf \in Seq([name : X, value : X]),
           NEW nm \in [1 .. Len(hs) -> X], NEW vl \in [1 .. Len(hs) -> X],
           NEW k \in 1 .. Len(hs), HeadersTo(hs, nm, vl, k), vl[k] = <<>>,
           HeadersAre(hs, hf, nm, vl),
           NEW part \in X, part # <<>>, NEW name \in X, name # <<>>,
           name = nm[k] \o part, nm[k] = <<>> => name = part
    PROVE  /\ NameAdded(hf, part) \in Seq([name : X, value : X])
           /\ HeadersAre(hs, NameAdded(hf, part), [nm EXCEPT ![k] = name], vl)
<1>0. /\ Len(hs) \in Nat /\ Len(hf) \in Nat /\ hs # <<>> /\ k \in Nat
      /\ \A i \in 1 .. Len(hf) : hf[i] \in [name : X, value : X]
      /\ hf = <<>> <=> Len(hf) = 0
  <2>1. Len(hs) \in Nat /\ Len(hf) \in Nat
    BY LenProperties
  <2>2. hs # <<>> /\ k \in Nat
    BY <2>1
  <2>3. ASSUME NEW i \in 1 .. Len(hf)
        PROVE  hf[i] \in [name : X, value : X]
    BY <2>1, ElementOfSeq
  <2>4. hf = <<>> <=> Len(hf) = 0
    BY EmptySeq
  <2> QED
    BY <2>1, <2>2, <2>3, <2>4
<1>1. PICK new : new = NameAdded(hf, part)
  OBVIOUS
<1>2. PICK nm2 : nm2 = [nm EXCEPT ![k] = name]
  OBVIOUS
<1>3. nm2[k] = name /\ \A i \in 1 .. Len(hs) : i # k => nm2[i] = nm[i]
  BY <1>2
<1>4. ASSUME hf = <<>> \/ Last(hf).value # <<>>
      PROVE  /\ new \in Seq([name : X, value : X]) /\ Len(new) = Len(hf) + 1
             /\ new[Len(hf) + 1] = Header(part, <<>>)
             /\ \A i \in 1 .. Len(hf) : new[i] = hf[i]
  <2>1. new = Append(hf, Header(part, <<>>))
    BY <1>1, <1>4 DEF NameAdded
  <2>2. PICK field : field = Header(part, <<>>)
    OBVIOUS
  <2>3. field \in [name : X, value : X]
    BY <2>2 DEF Header, Joined
  <2> QED
    BY <1>0, <2>1, <2>2, <2>3
<1>5. ASSUME ~(hf = <<>> \/ Last(hf).value # <<>>)
      PROVE  /\ new \in Seq([name : X, value : X]) /\ Len(new) = Len(hf) /\ Len(hf) # 0
             /\ new[Len(hf)] = Header(hf[Len(hf)].name \o part, hf[Len(hf)].value)
             /\ \A i \in 1 .. Len(hf) - 1 : new[i] = hf[i]
  <2>1. hf # <<>> /\ Len(hf) \in 1 .. Len(hf)
    BY <1>0, <1>5, EmptySeq
  <2>2. PICK joined, value : joined = hf[Len(hf)].name \o part /\ value = hf[Len(hf)].value
    OBVIOUS
  <2>3. joined \in X /\ value \in X
    BY <1>0, <2>1, <2>2 DEF Joined
  <2>4. new = [hf EXCEPT ![Len(hf)] = Header(joined, value)]
    BY <1>1, <1>5, <2>2 DEF NameAdded
  <2>a. PICK field : field = Header(joined, value)
    OBVIOUS
  <2>b. field \in [name : X, value : X]
    BY <2>3, <2>a DEF Header
  <2>5. /\ new \in Seq([name : X, value : X]) /\ Len(new) = Len(hf)
        /\ Len(hf) # 0 /\ new[Len(hf)] = Header(joined, value)
        /\ \A i \in 1 .. Len(hf) - 1 : new[i] = hf[i]
    BY <1>0, <2>1, <2>4, <2>a, <2>b
  <2> QED
    BY <2>2, <2>5
<1>6. Last(hf) = hf[Len(hf)]
  BY DEF Last
<1>7. /\ \A j \in 1 .. k - 1 : nm[j] # <<>> /\ vl[j] = hs[j].value
      /\ \A j \in k + 1 .. Len(hs) : nm[j] = <<>>
  BY DEF HeadersTo
<1>8. CASE Clean(hs, k)
  <2>1. \A j \in 1 .. k - 1 : hs[j].value # <<>> /\ Clean(hs, j)
    BY <1>0, <1>8 DEF Clean
  <2>2. CASE nm[k] = <<>>
    <3>1. Len(hf) < k
      BY <1>0, <1>8, <2>2 DEF HeadersAre
    <3>2. Len(hf) = k - 1 /\ (hf = <<>> \/ Last(hf).value # <<>>)
      <4>1. CASE k = 1
        BY <1>0, <3>1, <4>1, EmptySeq
      <4>2. CASE k # 1
        <5>1. PICK j : j = k - 1
          OBVIOUS
        <5>2. j \in 1 .. k - 1 /\ j \in 1 .. Len(hs)
          BY <1>0, <4>2, <5>1
        <5>3. j <= Len(hf) /\ hf[j] = Header(nm[j], vl[j])
          BY <1>7, <2>1, <5>2 DEF HeadersAre
        <5>4. Len(hf) = j
          BY <1>0, <3>1, <5>1, <5>3
        <5>5. vl[j] # <<>>
          BY <1>7, <2>1, <5>2
        <5> QED
          BY <1>6, <5>1, <5>3, <5>4, <5>5 DEF Header
      <4> QED
        BY <4>1, <4>2
    <3>3. /\ Len(new) = k /\ new[k] = Header(part, <<>>)
          /\ \A i \in 1 .. k - 1 : new[i] = hf[i]
      BY <1>0, <1>4, <3>2
    <3>4. ASSUME NEW i \in 1 .. Len(hs), Clean(hs, i)
          PROVE  /\ nm2[i] # <<>> <=> i <= Len(new)
                 /\ i = Len(hs) \/ nm2[i + 1] = <<>> => Len(new) <= i
                 /\ i <= Len(new) /\ (i = Len(hs) \/ nm2[i + 1] = <<>> \/ hs[i].value # <<>>) =>
                       new[i] = Header(nm2[i], vl[i])
      <4>1. CASE i < k
        <5>1. i \in 1 .. k - 1 /\ i # Len(hs) /\ i + 1 \in 1 .. Len(hs)
          BY <1>0, <4>1
        <5>2. nm2[i] # <<>> /\ nm2[i] = nm[i]
          BY <1>3, <1>7, <5>1
        <5>3. nm2[i + 1] # <<>>
          <6>1. i + 1 = k \/ i + 1 \in 1 .. k - 1
            BY <1>0, <5>1
          <6> QED
            BY <1>3, <1>7, <5>1, <6>1
        <5>4. i <= Len(hf) /\ hf[i] = Header(nm[i], vl[i])
          BY <1>7, <2>1, <3>4, <5>1 DEF HeadersAre
        <5> QED
          BY <1>0, <3>3, <4>1, <5>1, <5>2, <5>3, <5>4
      <4>2. CASE i = k
        BY <1>0, <1>3, <2>2, <3>3, <4>2
      <4>3. CASE i > k
        <5>1. i \in k + 1 .. Len(hs) /\ i # k
          BY <1>0, <4>3
        <5>2. nm2[i] = <<>> /\ ~(i <= Len(new))
          BY <1>0, <1>3, <1>7, <3>3, <5>1
        <5> QED
          BY <1>0, <3>3, <4>3, <5>2
      <4> QED
        BY <1>0, <4>1, <4>2, <4>3
    <3> QED
      BY <1>0, <1>1, <1>2, <1>4, <3>2, <3>4 DEF HeadersAre
  <2>3. CASE nm[k] # <<>>
    <3>1. Len(hf) = k
      <4>1. k <= Len(hf)
        BY <1>8, <2>3 DEF HeadersAre
      <4>2. k = Len(hs) \/ nm[k + 1] = <<>>
        BY <1>0, <1>7
      <4>3. Len(hf) <= k
        BY <1>8, <4>2 DEF HeadersAre
      <4> QED
        BY <1>0, <4>1, <4>3
    <3>2. hf[k] = Header(nm[k], <<>>)
      <4>1. k = Len(hs) \/ nm[k + 1] = <<>>
        BY <1>0, <1>7
      <4>2. k <= Len(hf)
        BY <1>0, <3>1
      <4> QED
        BY <1>8, <4>1, <4>2 DEF HeadersAre
    <3>3. ~(hf = <<>> \/ Last(hf).value # <<>>)
      BY <1>0, <1>6, <3>1, <3>2, EmptySeq DEF Header
    <3>4. /\ Len(new) = k /\ new[k] = Header(name, <<>>)
          /\ \A i \in 1 .. k - 1 : new[i] = hf[i]
      BY <1>5, <3>1, <3>2, <3>3 DEF Header
    <3>5. ASSUME NEW i \in 1 .. Len(hs), Clean(hs, i)
          PROVE  /\ nm2[i] # <<>> <=> i <= Len(new)
                 /\ i = Len(hs) \/ nm2[i + 1] = <<>> => Len(new) <= i
                 /\ i <= Len(new) /\ (i = Len(hs) \/ nm2[i + 1] = <<>> \/ hs[i].value # <<>>) =>
                       new[i] = Header(nm2[i], vl[i])
      <4>1. CASE i < k
        <5>1. i \in 1 .. k - 1 /\ i # Len(hs) /\ i + 1 \in 1 .. Len(hs)
          BY <1>0, <4>1
        <5>2. nm2[i] # <<>> /\ nm2[i] = nm[i]
          BY <1>3, <1>7, <5>1
        <5>3. nm2[i + 1] # <<>>
          <6>1. i + 1 = k \/ i + 1 \in 1 .. k - 1
            BY <1>0, <5>1
          <6> QED
            BY <1>3, <1>7, <5>1, <6>1
        <5>4. i <= Len(hf) /\ hf[i] = Header(nm[i], vl[i])
          BY <1>7, <2>1, <3>5, <5>1 DEF HeadersAre
        <5> QED
          BY <1>0, <3>4, <4>1, <5>1, <5>2, <5>3, <5>4
      <4>2. CASE i = k
        <5>1. nm2[i] = name /\ i <= Len(new) /\ Len(new) <= i /\ vl[i] = <<>>
          BY <1>0, <1>3, <3>4, <4>2
        <5>2. new[i] = Header(nm2[i], vl[i])
          BY <3>4, <4>2, <5>1
        <5> QED
          BY <5>1, <5>2
      <4>3. CASE i > k
        <5>1. i \in k + 1 .. Len(hs) /\ i # k
          BY <1>0, <4>3
        <5>2. nm2[i] = <<>> /\ ~(i <= Len(new))
          BY <1>0, <1>3, <1>7, <3>4, <5>1
        <5> QED
          BY <1>0, <3>4, <4>3, <5>2
      <4> QED
        BY <1>0, <4>1, <4>2, <4>3
    <3> QED
      BY <1>0, <1>1, <1>2, <1>5, <3>3, <3>5 DEF HeadersAre
  <2> QED
    BY <2>2, <2>3
<1>9. CASE ~Clean(hs, k)
  <2>1. PICK e \in 1 .. k - 1 : Clean(hs, e) /\ hs[e].value = <<>>
    BY <1>9, FirstWithoutValue
  <2>2. e \in 1 .. Len(hs) /\ e \in Nat /\ e < k
    BY <1>0
  <2>3. e <= Len(hf)
    BY <1>7, <2>1, <2>2 DEF HeadersAre
  <2>4. /\ new \in Seq([name : X, value : X]) /\ Len(new) \in Nat /\ Len(hf) <= Len(new)
        /\ \A i \in 1 .. Len(hf) - 1 : new[i] = hf[i]
    <3>1. CASE hf = <<>> \/ Last(hf).value # <<>>
      BY <1>0, <1>4, <3>1
    <3>2. CASE ~(hf = <<>> \/ Last(hf).value # <<>>)
      BY <1>0, <1>5, <3>2
    <3> QED
      BY <3>1, <3>2
  <2>5. ASSUME NEW i \in 1 .. Len(hs), Clean(hs, i)
        PROVE  /\ nm2[i] # <<>> <=> i <= Len(new)
               /\ i = Len(hs) \/ nm2[i + 1] = <<>> => Len(new) <= i
               /\ i <= Len(new) /\ (i = Len(hs) \/ nm2[i + 1] = <<>> \/ hs[i].value # <<>>) =>
                     new[i] = Header(nm2[i], vl[i])
    <3>1. i <= e
      BY <1>0, <2>1, <2>2, <2>5 DEF Clean
    <3>2. i \in 1 .. k - 1 /\ i # k /\ i # Len(hs) /\ i + 1 \in 1 .. Len(hs)
      BY <1>0, <2>2, <3>1
    <3>3. nm2[i] = nm[i] /\ nm2[i] # <<>>
      BY <1>3, <1>7, <3>2
    <3>4. nm2[i + 1] # <<>>
      <4>1. i + 1 = k \/ i + 1 \in 1 .. k - 1
        BY <1>0, <3>2
      <4> QED
        BY <1>3, <1>7, <3>2, <4>1
    <3>5. i <= Len(hf) /\ i <= Len(new)
      BY <1>0, <2>2, <2>3, <2>4, <3>1
    <3>6. ASSUME hs[i].value # <<>>
          PROVE  new[i] = Header(nm2[i], vl[i])
      <4>1. i # e
        BY <2>1, <3>6
      <4>2. i \in 1 .. Len(hf) - 1
        BY <1>0, <2>2, <2>3, <3>1, <4>1
      <4>3. hf[i] = Header(nm[i], vl[i])
        BY <2>5, <3>5, <3>6 DEF HeadersAre
      <4> QED
        BY <2>4, <3>3, <4>2, <4>3
    <3> QED
      BY <3>2, <3>3, <3>4, <3>5, <3>6
  <2> QED
    BY <1>0, <1>1, <1>2, <2>4, <2>5 DEF HeadersAre
<1> QED
  BY <1>8, <1>9

(* header_fields after a piece of a value.                                 *)
ValueAdded(hf, part) == [hf EXCEPT ![Len(hf)] = Header(@.name, @.value \o part)]

LEMMA ValueArrives ==
    ASSUME NEW X, Joined(X), NEW hs \in Seq([name : X, value : X]),
           NEW hf \in Seq([name : X, value : X]),
           NEW nm \in [1 .. Len(hs) -> X], NEW vl \in [1 .. Len(hs) -> X],
           NEW k \in 1 .. Len(hs), HeadersTo(hs, nm, vl, k), nm[k] # <<>>,
           HeadersAre(hs, hf, nm, vl),
           NEW part \in X, NEW value \in X, value = vl[k] \o part
    PROVE  /\ hf # <<>>
           /\ ValueAdded(hf, part) \in Seq([name : X, value : X])
           /\ HeadersAre(hs, ValueAdded(hf, part), nm, [vl EXCEPT ![k] = value])
<1>1. Len(hs) \in Nat /\ Len(hf) \in Nat /\ hs # <<>> /\ k \in Nat /\ (hf = <<>> <=> Len(hf) = 0)
  <2>1. Len(hs) \in Nat /\ Len(hf) \in Nat
    BY LenProperties
  <2>2. hs # <<>> /\ k \in Nat
    BY <2>1
  <2>3. hf = <<>> <=> Len(hf) = 0
    BY EmptySeq
  <2> QED
    BY <2>1, <2>2, <2>3
<1>2. /\ \A j \in 1 .. k - 1 : nm[j] # <<>> /\ vl[j] = hs[j].value
      /\ \A j \in k + 1 .. Len(hs) : nm[j] = <<>>
  BY DEF HeadersTo
(* The header a piece is added to: the k-th, or one behind the first       *)
(* without a value.                                                        *)
<1>3. PICK e \in 1 .. k : /\ Clean(hs, e) /\ e <= Len(hf)
                          /\ e = k \/ hs[e].value = <<>>
  <2>1. CASE Clean(hs, k)
    <3>1. k <= Len(hf)
      BY <2>1 DEF HeadersAre
    <3> QED
      BY <1>1, <2>1, <3>1
  <2>2. CASE ~Clean(hs, k)
    <3>1. PICK e \in 1 .. k - 1 : Clean(hs, e) /\ hs[e].value = <<>>
      BY <2>2, FirstWithoutValue
    <3>2. e \in 1 .. Len(hs) /\ e \in 1 .. k
      BY <1>1
    <3>3. e <= Len(hf)
      BY <1>2, <3>1, <3>2 DEF HeadersAre
    <3> QED
      BY <3>1, <3>2, <3>3
  <2> QED
    BY <2>1, <2>2
<1>4. Len(hf) \in 1 .. Len(hf) /\ hf # <<>>
  BY <1>1, <1>3
<1>5. hf[Len(hf)] \in [name : X, value : X]
  BY <1>4, ElementOfSeq
<1>6. PICK field : field = Header(hf[Len(hf)].name, hf[Len(hf)].value \o part)
  OBVIOUS
<1>7. field \in [name : X, value : X]
  BY <1>5, <1>6 DEF Header, Joined
<1>8. PICK new : new = ValueAdded(hf, part)
  OBVIOUS
<1>9. new = [hf EXCEPT ![Len(hf)] = field]
  BY <1>6, <1>8 DEF ValueAdded
<1>10. /\ new \in Seq([name : X, value : X]) /\ Len(new) = Len(hf) /\ new[Len(hf)] = field
       /\ \A i \in 1 .. Len(hf) - 1 : new[i] = hf[i]
  BY <1>1, <1>4, <1>7, <1>9
<1>11. PICK vl2 : vl2 = [vl EXCEPT ![k] = value]
  OBVIOUS
<1>12. vl2[k] = value /\ \A i \in 1 .. Len(hs) : i # k => vl2[i] = vl[i]
  BY <1>11
<1>13. ASSUME NEW i \in 1 .. Len(hs), Clean(hs, i)
       PROVE  /\ nm[i] # <<>> <=> i <= Len(new)
              /\ i = Len(hs) \/ nm[i + 1] = <<>> => Len(new) <= i
              /\ i <= Len(new) /\ (i = Len(hs) \/ nm[i + 1] = <<>> \/ hs[i].value # <<>>) =>
                    new[i] = Header(nm[i], vl2[i])
  <2>1. /\ nm[i] # <<>> <=> i <= Len(new)
        /\ i = Len(hs) \/ nm[i + 1] = <<>> => Len(new) <= i
    BY <1>10, <1>13 DEF HeadersAre
  <2>2. ASSUME i <= Len(new), i = Len(hs) \/ nm[i + 1] = <<>> \/ hs[i].value # <<>>
        PROVE  new[i] = Header(nm[i], vl2[i])
    <3>1. hf[i] = Header(nm[i], vl[i])
      BY <1>10, <1>13, <2>2 DEF HeadersAre
    <3>2. CASE i = k
      <4>1. i = Len(hs) \/ nm[i + 1] = <<>>
        BY <1>1, <1>2, <3>2
      <4>2. i = Len(hf)
        BY <1>1, <1>10, <2>1, <2>2, <4>1
      <4> QED
        <5>1. hf[i].name = nm[i] /\ hf[i].value = vl[i]
          BY <3>1 DEF Header
        <5>2. field = Header(nm[i], vl[i] \o part)
          BY <1>6, <4>2, <5>1
        <5>3. vl2[i] = vl[i] \o part /\ new[i] = field
          BY <1>10, <1>12, <3>2, <4>2
        <5> QED
          BY <5>2, <5>3
    <3>3. CASE i < k
      <4>1. i \in 1 .. k - 1 /\ i # k /\ i # Len(hs)
        BY <1>1, <3>3
      <4>2. nm[i + 1] # <<>>
        <5>1. i + 1 = k \/ i + 1 \in 1 .. k - 1
          BY <1>1, <4>1
        <5> QED
          BY <1>2, <5>1
      <4>3. i # e /\ i <= e
        BY <1>1, <1>3, <1>13, <2>2, <4>1, <4>2 DEF Clean
      <4>4. i \in 1 .. Len(hf) - 1
        BY <1>1, <1>3, <4>3
      <4> QED
        BY <1>10, <1>12, <3>1, <4>1, <4>4
    <3>4. CASE i > k
      <4>1. i \in k + 1 .. Len(hs)
        BY <1>1, <3>4
      <4> QED
        BY <1>2, <2>1, <2>2, <4>1
    <3> QED
      BY <1>1, <3>2, <3>3, <3>4
  <2> QED
    BY <2>1, <2>2
<1> QED
  BY <1>1, <1>4, <1>8, <1>10, <1>11, <1>13 DEF HeadersAre

-----------------------------------------------------------------------------
(* HttpRequest: the elements of a request                                  *)

RequestUnits == QueryUnits \cup {"/", "?", "n", "v", "b"}
Texts == Seq(RequestUnits)

LEMMA BoundedIs ==
    ASSUME NEW U, NEW n \in Nat, NEW s, s \in BoundedSeq(U, n) \/ s = <<>>
    PROVE  s \in Seq(U)
<1>1. CASE s \in BoundedSeq(U, n)
  <2>1. PICK m \in 0 .. n : s \in [1 .. m -> U]
    BY <1>1 DEF BoundedSeq, SeqOf
  <2>2. m \in Nat
    OBVIOUS
  <2> QED
    BY <2>1, <2>2
<1>2. CASE s = <<>>
  BY <1>2, EmptySeq
<1> QED
  BY <1>1, <1>2

LEMMA TextsJoin == Joined(Texts)
<1>1. ASSUME NEW x \in Texts, NEW y \in Texts
      PROVE  x \o y \in Texts
  BY ConcatProperties DEF Texts
<1>2. <<>> \in Texts
  BY DEF Texts
<1> QED
  BY <1>1, <1>2 DEF Joined

LEMMA RequestIs ==
    ASSUME NEW r \in Requests
    PROVE  /\ r.query \in Seq(QueryUnits) /\ r.query \in Texts /\ Url(r.query) \in Texts
           /\ r.headers \in Seq([name : Texts, value : Texts])
           /\ \A i \in 1 .. Len(r.headers) : r.headers[i].name # <<>>
           /\ r.body \in Texts /\ r.bad \in BOOLEAN
<1>0. MaxQuery \in Nat /\ MaxHeaders \in Nat /\ MaxText \in Nat
  BY RequestAssumption
<1>1. /\ r.query \in BoundedSeq(QueryUnits, MaxQuery) \/ r.query = <<>>
      /\ r.headers \in BoundedSeq(Headers, MaxHeaders) \/ r.headers = <<>>
      /\ r.body \in BoundedSeq({"b"}, MaxText) \/ r.body = <<>>
      /\ r.bad \in BOOLEAN
  <2>1. CASE \E query \in BoundedSeq(QueryUnits, MaxQuery) : r = Request(query, <<>>, <<>>, FALSE)
    BY <2>1 DEF Request
  <2>2. CASE \E headers \in BoundedSeq(Headers, MaxHeaders), content \in BoundedSeq({"b"}, MaxText),
                bad \in BOOLEAN : r = Request(<<>>, headers, content, bad)
    BY <2>2 DEF Request
  <2> QED
    BY <2>1, <2>2, SMT DEF Requests, Request
<1>2. r.query \in Seq(QueryUnits)
  BY <1>0, <1>1, BoundedIs
<1>a. /\ QueryUnits \subseteq RequestUnits /\ {"b"} \subseteq RequestUnits
      /\ {"n"} \subseteq RequestUnits /\ {"v"} \subseteq RequestUnits
  BY DEF RequestUnits
<1>3. r.query \in Texts
  <2>1. r.query \in Seq(RequestUnits)
    BY <1>a, <1>2, SeqMonotonic
  <2> QED
    BY <2>1 DEF Texts
<1>5. r.body \in Texts
  <2>2. r.body \in Seq({"b"})
    BY <1>0, <1>1, BoundedIs
  <2>3. r.body \in Seq(RequestUnits)
    BY <1>a, <2>2, SeqMonotonic
  <2> QED
    BY <2>3 DEF Texts
<1>6. PICK texts : texts = Texts
  OBVIOUS
<1>7. ASSUME NEW h \in Headers
      PROVE  h \in [name : texts, value : texts] /\ h.name # <<>>
  <2>1. PICK n \in BoundedSeq({"n"}, MaxText) \ {<<>>}, v \in BoundedSeq({"v"}, MaxText) :
            h = Header(n, v)
    BY DEF Headers
  <2>2. n \in Seq({"n"}) /\ v \in Seq({"v"})
    BY <1>0, BoundedIs
  <2>3. n \in Texts /\ v \in Texts
    <3>1. n \in Seq(RequestUnits) /\ v \in Seq(RequestUnits)
      BY <1>a, <2>2, SeqMonotonic
    <3> QED
      BY <3>1 DEF Texts
  <2> QED
    BY <1>6, <2>1, <2>3 DEF Header
<1>8. r.headers \in Seq(Headers)
  BY <1>0, <1>1, BoundedIs
<1>9. Headers \subseteq [name : texts, value : texts]
  BY <1>7
<1>10. r.headers \in Seq([name : texts, value : texts])
  BY <1>8, <1>9, SeqMonotonic
<1>11. ASSUME NEW i \in 1 .. Len(r.headers)
       PROVE  r.headers[i].name # <<>>
  <2>1. r.headers[i] \in Headers
    BY <1>8, ElementOfSeq
  <2> QED
    BY <1>7, <2>1
<1>12. Url(r.query) \in Texts
  <2>1. "/" \in RequestUnits /\ "?" \in RequestUnits
    BY DEF RequestUnits
  <2>2. <<"/">> \in Texts /\ <<"/", "?">> \in Texts
    BY <2>1 DEF Texts
  <2>3. <<"/", "?">> \o r.query \in Texts
    BY <1>3, <2>2, TextsJoin DEF Joined
  <2> QED
    BY <2>2, <2>3 DEF Url
<1> QED
  BY <1>1, <1>2, <1>3, <1>5, <1>6, <1>10, <1>11, <1>12

(* Where the elements of a request are: behind the url the names and       *)
(* values, an error if there is one, the end of the headers and the body   *)
(* if there is one.                                                        *)
EndAt(r) == 2 * Len(r.headers) + 2 + (IF r.bad THEN 1 ELSE 0)
Size(r) == EndAt(r) + (IF r.body = <<>> THEN 0 ELSE 1)

Kinds == {"url", "name", "value", "bad", "end", "body"}
ElementSet == [kind : Kinds, text : Texts]

LEMMA ElementIs ==
    ASSUME NEW text \in Texts
    PROVE  /\ Element("url", text) \in ElementSet /\ Element("name", text) \in ElementSet
           /\ Element("value", text) \in ElementSet /\ Element("bad", text) \in ElementSet
           /\ Element("end", text) \in ElementSet /\ Element("body", text) \in ElementSet
<1>1. PICK texts, kinds : texts = Texts /\ kinds = Kinds
  OBVIOUS
<1>2. \A kind \in kinds : Element(kind, text) \in [kind : kinds, text : texts]
  BY <1>1 DEF Element
<1>3. \A kind \in Kinds : Element(kind, text) \in ElementSet
  BY <1>1, <1>2 DEF ElementSet
<1> QED
  BY <1>3 DEF Kinds

LEMMA Halves ==
    ASSUME NEW n \in Nat
    PROVE  /\ \A j \in 1 .. 2 * n :
                 /\ j % 2 = 1 => (j + 1) \div 2 \in 1 .. n
                 /\ j % 2 # 1 => j \div 2 \in 1 .. n
           /\ \A i \in 1 .. n :
                 /\ 2 * i - 1 \in 1 .. 2 * n /\ 2 * i \in 1 .. 2 * n
                 /\ (2 * i - 1) % 2 = 1 /\ ((2 * i - 1) + 1) \div 2 = i
                 /\ (2 * i) % 2 # 1 /\ (2 * i) \div 2 = i
  OBVIOUS

(* What Elements lists for the headers.                                    *)
LEMMA HeaderElements ==
    ASSUME NEW hs \in Seq([name : Texts, value : Texts]), NEW es,
           es = [j \in 1 .. 2 * Len(hs) |->
                    IF j % 2 = 1 THEN Element("name", hs[(j + 1) \div 2].name)
                    ELSE Element("value", hs[j \div 2].value)]
    PROVE  /\ es \in Seq(ElementSet) /\ Len(es) = 2 * Len(hs)
           /\ \A i \in 1 .. Len(hs) : /\ es[2 * i - 1] = Element("name", hs[i].name)
                                      /\ es[2 * i] = Element("value", hs[i].value)
<1>1. PICK texts, n : texts = Texts /\ n = Len(hs)
  OBVIOUS
<1>2. n \in Nat /\ 2 * n \in Nat
  BY <1>1, LenProperties
<1>3. ASSUME NEW i \in 1 .. n
      PROVE  hs[i].name \in Texts /\ hs[i].value \in Texts
  <2>1. hs[i] \in [name : texts, value : texts]
    BY <1>1, ElementOfSeq
  <2> QED
    BY <1>1, <2>1
<1>4. ASSUME NEW j \in 1 .. 2 * n
      PROVE  es[j] \in ElementSet
  <2>1. CASE j % 2 = 1
    <3>1. PICK i : i = (j + 1) \div 2
      OBVIOUS
    <3>2. i \in 1 .. n
      BY <1>2, <2>1, <3>1, Halves
    <3>3. es[j] = Element("name", hs[i].name)
      BY <1>1, <2>1, <3>1
    <3> QED
      BY <1>3, <3>2, <3>3, ElementIs, Zenon
  <2>2. CASE j % 2 # 1
    <3>1. PICK i : i = j \div 2
      OBVIOUS
    <3>2. i \in 1 .. n
      BY <1>2, <2>2, <3>1, Halves
    <3>3. es[j] = Element("value", hs[i].value)
      BY <1>1, <2>2, <3>1
    <3> QED
      BY <1>3, <3>2, <3>3, ElementIs, Zenon
  <2> QED
    BY <2>1, <2>2
<1>5. es \in [1 .. 2 * n -> ElementSet]
  BY <1>1, <1>4
<1>6. es \in Seq(ElementSet) /\ Len(es) = 2 * n
  BY <1>2, <1>5
<1>7. ASSUME NEW i \in 1 .. n
      PROVE  es[2 * i - 1] = Element("name", hs[i].name) /\ es[2 * i] = Element("value", hs[i].value)
  <2>1. PICK a, b : a = 2 * i - 1 /\ b = 2 * i
    OBVIOUS
  <2>2. /\ a \in 1 .. 2 * n /\ a % 2 = 1 /\ (a + 1) \div 2 = i
        /\ b \in 1 .. 2 * n /\ b % 2 # 1 /\ b \div 2 = i
    BY <1>2, <2>1, Halves
  <2>3. es[a] = Element("name", hs[i].name) /\ es[b] = Element("value", hs[i].value)
    BY <1>1, <2>2
  <2> QED
    BY <2>1, <2>3
<1> QED
  BY <1>1, <1>6, <1>7

LEMMA OneMore ==
    ASSUME NEW s \in Seq(ElementSet), NEW x \in ElementSet
    PROVE  /\ s \o <<x>> \in Seq(ElementSet) /\ Len(s \o <<x>>) = Len(s) + 1
           /\ \A i \in 1 .. Len(s) : (s \o <<x>>)[i] = s[i]
           /\ (s \o <<x>>)[Len(s) + 1] = x
<1>1. PICK v : v = <<x>>
  OBVIOUS
<1>2. v \in Seq(ElementSet) /\ Len(v) = 1 /\ v[1] = x
  BY <1>1
<1>3. v \in Seq(ElementSet)
  BY <1>2
<1>4. s \o v \in Seq(ElementSet) /\ Len(s \o v) = Len(s) + Len(v)
  BY <1>3, JoinedIs
<1>5. \A i \in 1 .. Len(s) : (s \o v)[i] = s[i]
  BY <1>3, JoinedIs
<1>6. \A i \in 1 .. Len(v) : (s \o v)[Len(s) + i] = v[i]
  BY <1>3, JoinedIs
<1>7. (s \o v)[Len(s) + 1] = x
  <2>1. 1 \in 1 .. Len(v) /\ v[1] = x
    BY <1>2
  <2> QED
    BY <1>6, <2>1, Zenon
<1> QED
  BY <1>1, <1>2, <1>4, <1>5, <1>7

(* What is behind s when y is x, and added only if there is one.           *)
Extends(t, s, isOne, x) ==
    /\ t \in Seq(ElementSet) /\ Len(t) = Len(s) + (IF isOne THEN 1 ELSE 0)
    /\ \A i \in 1 .. Len(s) : t[i] = s[i]
    /\ isOne => t[Len(s) + 1] = x

LEMMA MaybeOneMore ==
    ASSUME NEW s \in Seq(ElementSet), NEW x \in ElementSet, NEW isOne \in BOOLEAN,
           NEW t, t = s \o (IF isOne THEN <<x>> ELSE <<>>)
    PROVE  Extends(t, s, isOne, x)
<1>0. Len(s) \in Nat
  BY LenProperties
<1>1. CASE isOne
  <2>1. t = s \o <<x>>
    BY <1>1
  <2>2. /\ s \o <<x>> \in Seq(ElementSet) /\ Len(s \o <<x>>) = Len(s) + 1
        /\ \A i \in 1 .. Len(s) : (s \o <<x>>)[i] = s[i]
        /\ (s \o <<x>>)[Len(s) + 1] = x
    BY OneMore
  <2>3. /\ t \in Seq(ElementSet) /\ Len(t) = Len(s) + 1
        /\ \A i \in 1 .. Len(s) : t[i] = s[i]
        /\ t[Len(s) + 1] = x
    BY <2>1, <2>2, Zenon
  <2> QED
    BY <1>1, <2>3 DEF Extends
<1>2. CASE ~isOne
  <2>1. t = s
    BY <1>2, ConcatEmptySeq
  <2> QED
    BY <1>0, <1>2, <2>1 DEF Extends
<1> QED
  BY <1>1, <1>2

LEMMA ElementsAre ==
    ASSUME NEW r \in Requests, NEW es, es = Elements(r)
    PROVE  /\ es \in Seq(ElementSet) /\ Len(es) = Size(r)
           /\ es[1] = Element("url", Url(r.query))
           /\ \A i \in 1 .. Len(r.headers) :
                 /\ es[2 * i] = Element("name", r.headers[i].name)
                 /\ es[2 * i + 1] = Element("value", r.headers[i].value)
           /\ r.bad => es[EndAt(r) - 1] = Element("bad", <<>>)
           /\ es[EndAt(r)] = Element("end", <<>>)
           /\ r.body # <<>> => es[Size(r)] = Element("body", r.body)
<1>1. PICK hs, H, p : hs = r.headers /\ H = Len(hs) /\ p = EndAt(r)
  OBVIOUS
<1>2. /\ hs \in Seq([name : Texts, value : Texts]) /\ H \in Nat /\ r.bad \in BOOLEAN
      /\ Url(r.query) \in Texts /\ r.body \in Texts /\ <<>> \in Texts
  <2>1. hs \in Seq([name : Texts, value : Texts]) /\ r.bad \in BOOLEAN
        /\ Url(r.query) \in Texts /\ r.body \in Texts
    BY <1>1, RequestIs
  <2>2. <<>> \in Texts
    BY TextsJoin DEF Joined
  <2>3. H \in Nat
    BY <1>1, <2>1, LenProperties
  <2> QED
    BY <2>1, <2>2, <2>3
<1>3. PICK url, bad, end, text : /\ url = Element("url", Url(r.query))
                                 /\ bad = Element("bad", <<>>) /\ end = Element("end", <<>>)
                                 /\ text = Element("body", r.body)
  OBVIOUS
<1>4. url \in ElementSet /\ bad \in ElementSet /\ end \in ElementSet /\ text \in ElementSet
  BY <1>2, <1>3, ElementIs, Zenon
<1>5. PICK a : a = [j \in 1 .. 2 * Len(hs) |->
                       IF j % 2 = 1 THEN Element("name", hs[(j + 1) \div 2].name)
                       ELSE Element("value", hs[j \div 2].value)]
  OBVIOUS
<1>6. /\ a \in Seq(ElementSet) /\ Len(a) = 2 * H
      /\ \A i \in 1 .. H : /\ a[2 * i - 1] = Element("name", hs[i].name)
                           /\ a[2 * i] = Element("value", hs[i].value)
  BY <1>1, <1>2, <1>5, HeaderElements
<1>7. PICK b : b = <<url>> \o a
  OBVIOUS
<1>8. PICK c : c = b \o (IF r.bad THEN <<bad>> ELSE <<>>)
  OBVIOUS
<1>9. PICK d : d = c \o <<end>>
  OBVIOUS
<1>10. PICK hasBody \in BOOLEAN : hasBody <=> r.body # <<>>
  OBVIOUS
<1>11. es = d \o (IF hasBody THEN <<text>> ELSE <<>>)
  BY <1>1, <1>3, <1>5, <1>7, <1>8, <1>9, <1>10 DEF Elements
<1>12. /\ b \in Seq(ElementSet) /\ Len(b) = 1 + 2 * H /\ b[1] = url
       /\ \A i \in 1 .. 2 * H : b[1 + i] = a[i]
  <2>1. PICK v : v = <<url>>
    OBVIOUS
  <2>2. v \in Seq(ElementSet) /\ Len(v) = 1 /\ v[1] = url
    BY <1>4, <2>1
  <2>3. v \in Seq(ElementSet) /\ a \in Seq(ElementSet)
    BY <1>6, <2>2
  <2>4. v \o a \in Seq(ElementSet) /\ Len(v \o a) = Len(v) + Len(a)
    BY <2>3, JoinedIs
  <2>5. \A i \in 1 .. Len(v) : (v \o a)[i] = v[i]
    BY <2>3, JoinedIs
  <2>6. \A i \in 1 .. Len(a) : (v \o a)[Len(v) + i] = a[i]
    BY <2>3, JoinedIs
  <2>7. b = v \o a
    BY <1>7, <2>1
  <2>8. 1 \in 1 .. Len(v)
    BY <2>2
  <2> QED
    BY <1>6, <2>2, <2>4, <2>5, <2>6, <2>7, <2>8, Zenon
<1>13. Extends(c, b, r.bad, bad)
  BY <1>2, <1>4, <1>8, <1>12, MaybeOneMore
<1>14. /\ d \in Seq(ElementSet) /\ Len(d) = Len(c) + 1 /\ d[Len(c) + 1] = end
       /\ \A i \in 1 .. Len(c) : d[i] = c[i]
  <2>1. c \in Seq(ElementSet)
    BY <1>13 DEF Extends
  <2> QED
    BY <1>4, <1>9, <2>1, OneMore, Zenon
<1>15. Extends(es, d, hasBody, text)
  BY <1>4, <1>10, <1>11, <1>14, MaybeOneMore
<1>16. /\ Len(d) = p /\ p = 2 * H + 2 + (IF r.bad THEN 1 ELSE 0)
       /\ Len(c) = 1 + 2 * H + (IF r.bad THEN 1 ELSE 0)
  <2>1. p = 2 * H + 2 + (IF r.bad THEN 1 ELSE 0)
    BY <1>1 DEF EndAt
  <2>2. Len(c) = 1 + 2 * H + (IF r.bad THEN 1 ELSE 0)
    BY <1>12, <1>13 DEF Extends
  <2>3. Len(d) = 1 + 2 * H + (IF r.bad THEN 1 ELSE 0) + 1
    BY <1>14, <2>2
  <2>4. 1 + 2 * H + (IF r.bad THEN 1 ELSE 0) + 1 = 2 * H + 2 + (IF r.bad THEN 1 ELSE 0)
    BY <1>2
  <2> QED
    BY <2>1, <2>2, <2>3, <2>4
<1>17. /\ es \in Seq(ElementSet) /\ Len(es) = Size(r)
       /\ r.body # <<>> => es[Size(r)] = Element("body", r.body)
  <2>1. Size(r) = p + (IF hasBody THEN 1 ELSE 0)
    BY <1>1, <1>10 DEF Size
  <2>2. /\ es \in Seq(ElementSet) /\ Len(es) = p + (IF hasBody THEN 1 ELSE 0)
        /\ hasBody => es[p + 1] = text
    BY <1>15, <1>16 DEF Extends
  <2>3. hasBody => Size(r) = p + 1
    BY <2>1
  <2> QED
    BY <1>3, <1>10, <2>1, <2>2, <2>3, Zenon
<1>18. /\ es[p] = end /\ (r.bad => es[p - 1] = bad)
       /\ \A i \in 1 .. 2 * H + 1 : es[i] = b[i]
  <2>1. \A i \in 1 .. p : es[i] = d[i]
    BY <1>15, <1>16 DEF Extends
  <2>2. p \in 1 .. p /\ p - 1 \in 1 .. Len(c) /\ p - 1 \in 1 .. p /\ Len(c) + 1 = p
    BY <1>2, <1>16
  <2>3. \A i \in 1 .. 2 * H + 1 : i \in 1 .. p /\ i \in 1 .. Len(c) /\ i \in 1 .. Len(b)
    BY <1>2, <1>12, <1>16
  <2>4. es[p] = end
    BY <1>14, <2>1, <2>2
  <2>5. ASSUME r.bad
        PROVE  es[p - 1] = bad
    <3>1. p - 1 = Len(b) + 1
      BY <1>2, <1>12, <1>16, <2>5
    <3>2. c[p - 1] = bad
      BY <1>13, <2>5, <3>1 DEF Extends
    <3>3. es[p - 1] = d[p - 1] /\ d[p - 1] = c[p - 1]
      BY <1>14, <2>1, <2>2, Zenon
    <3> QED
      BY <3>2, <3>3
  <2>6. \A i \in 1 .. Len(b) : c[i] = b[i]
    BY <1>13 DEF Extends
  <2> QED
    BY <1>14, <2>1, <2>3, <2>4, <2>5, <2>6, Zenon
<1>19. es[1] = url
  BY <1>2, <1>12, <1>18
<1>20. ASSUME NEW i \in 1 .. H
       PROVE  /\ es[2 * i] = Element("name", hs[i].name)
              /\ es[2 * i + 1] = Element("value", hs[i].value)
  <2>1. PICK j, k : j = 2 * i - 1 /\ k = 2 * i
    OBVIOUS
  <2>2. /\ j \in 1 .. 2 * H /\ k \in 1 .. 2 * H /\ 1 + j = k /\ 1 + k = 2 * i + 1
        /\ 1 + j \in 1 .. 2 * H + 1 /\ 1 + k \in 1 .. 2 * H + 1
    BY <1>2, <2>1
  <2>3. es[1 + j] = a[j] /\ es[1 + k] = a[k]
    BY <1>12, <1>18, <2>2, Zenon
  <2>4. a[j] = Element("name", hs[i].name) /\ a[k] = Element("value", hs[i].value)
    BY <1>6, <2>1
  <2> QED
    BY <2>1, <2>2, <2>3, <2>4, Zenon
<1> QED
  <2>1. es[EndAt(r)] = Element("end", <<>>) /\ (r.bad => es[EndAt(r) - 1] = Element("bad", <<>>))
    BY <1>1, <1>3, <1>18, Zenon
  <2>2. \A i \in 1 .. Len(r.headers) :
           /\ es[2 * i] = Element("name", r.headers[i].name)
           /\ es[2 * i + 1] = Element("value", r.headers[i].value)
    BY <1>1, <1>20, Zenon
  <2> QED
    BY <1>3, <1>17, <1>19, <2>1, <2>2, Zenon

(* Every element is one of these.                                          *)
LEMMA PositionsAre ==
    ASSUME NEW r \in Requests, NEW k \in 1 .. Size(r)
    PROVE  \/ k = 1
           \/ \E i \in 1 .. Len(r.headers) : k = 2 * i \/ k = 2 * i + 1
           \/ r.bad /\ k = EndAt(r) - 1
           \/ k = EndAt(r)
           \/ r.body # <<>> /\ k = Size(r) /\ k = EndAt(r) + 1
<1>1. PICK H : H = Len(r.headers)
  OBVIOUS
<1>2. H \in Nat /\ r.bad \in BOOLEAN
  BY <1>1, RequestIs, LenProperties
<1>3. CASE k \in 2 .. 2 * H + 1
  <2>1. PICK i : i = k \div 2
    OBVIOUS
  <2>2. i \in 1 .. H /\ (k = 2 * i \/ k = 2 * i + 1)
    BY <1>2, <1>3, <2>1
  <2> QED
    BY <1>1, <2>2
<1>4. CASE k \notin 2 .. 2 * H + 1
  <2>1. PICK p, n : p = EndAt(r) /\ n = Size(r)
    OBVIOUS
  <2>2. /\ p = 2 * H + 2 + (IF r.bad THEN 1 ELSE 0)
        /\ n = p + (IF r.body = <<>> THEN 0 ELSE 1)
    BY <1>1, <2>1 DEF Size, EndAt
  <2>3. p \in Nat /\ k \in 1 .. n
    BY <1>2, <2>1, <2>2
  <2>4. k = 1 \/ k >= 2 * H + 2
    BY <1>2, <1>4, <2>3
  <2> QED
    BY <1>2, <2>1, <2>2, <2>3, <2>4
<1> QED
  BY <1>3, <1>4

LEMMA PositionOf ==
    ASSUME NEW r \in Requests, NEW es, es = Elements(r), NEW k \in 1 .. Size(r)
    PROVE  /\ es[k].kind = "url" => k = 1
           /\ es[k].kind = "name" => \E i \in 1 .. Len(r.headers) : k = 2 * i
           /\ es[k].kind = "value" => \E i \in 1 .. Len(r.headers) : k = 2 * i + 1
           /\ es[k].kind = "end" => k = EndAt(r)
           /\ es[k].kind = "body" => r.body # <<>> /\ k = Size(r)
           /\ r.bad /\ k = EndAt(r) - 1 => es[k].kind = "bad"
<1>1. /\ es[1].kind = "url" /\ es[EndAt(r)].kind = "end"
      /\ r.bad => es[EndAt(r) - 1].kind = "bad"
      /\ r.body # <<>> => es[Size(r)].kind = "body"
      /\ \A i \in 1 .. Len(r.headers) : es[2 * i].kind = "name" /\ es[2 * i + 1].kind = "value"
  <2>1. \A kind, text : Element(kind, text).kind = kind
    BY DEF Element
  <2>2. /\ es[1] = Element("url", Url(r.query)) /\ es[EndAt(r)] = Element("end", <<>>)
        /\ r.bad => es[EndAt(r) - 1] = Element("bad", <<>>)
        /\ r.body # <<>> => es[Size(r)] = Element("body", r.body)
        /\ \A i \in 1 .. Len(r.headers) :
              /\ es[2 * i] = Element("name", r.headers[i].name)
              /\ es[2 * i + 1] = Element("value", r.headers[i].value)
    BY ElementsAre
  <2>3. ASSUME NEW i \in 1 .. Len(r.headers)
        PROVE  es[2 * i].kind = "name" /\ es[2 * i + 1].kind = "value"
    <3>1. /\ es[2 * i] = Element("name", r.headers[i].name)
          /\ es[2 * i + 1] = Element("value", r.headers[i].value)
      BY <2>2
    <3> QED
      BY <2>1, <3>1
  <2>4. es[1].kind = "url" /\ es[EndAt(r)].kind = "end"
    BY <2>1, <2>2
  <2>5. (r.bad => es[EndAt(r) - 1].kind = "bad") /\ (r.body # <<>> => es[Size(r)].kind = "body")
    BY <2>1, <2>2
  <2> QED
    BY <2>3, <2>4, <2>5
<1>2. CASE k = 1
  <2>1. Len(r.headers) \in Nat
    BY RequestIs, LenProperties
  <2>2. ~(r.bad /\ k = EndAt(r) - 1) \/ es[k].kind = "bad"
    BY <1>1
  <2> QED
    BY <1>1, <1>2, <2>2
<1>3. CASE \E i \in 1 .. Len(r.headers) : k = 2 * i
  <2>1. es[k].kind = "name"
    BY <1>1, <1>3
  <2> QED
    BY <1>1, <1>3, <2>1
<1>4. CASE \E i \in 1 .. Len(r.headers) : k = 2 * i + 1
  <2>1. es[k].kind = "value"
    BY <1>1, <1>4
  <2> QED
    BY <1>1, <1>4, <2>1
<1>5. CASE r.bad /\ k = EndAt(r) - 1
  <2>1. es[k].kind = "bad"
    BY <1>1, <1>5
  <2> QED
    BY <2>1
<1>6. CASE k = EndAt(r)
  <2>1. es[k].kind = "end"
    BY <1>1, <1>6
  <2> QED
    BY <1>1, <1>6, <2>1
<1>7. CASE r.body # <<>> /\ k = Size(r)
  <2>1. es[k].kind = "body"
    BY <1>1, <1>7
  <2> QED
    BY <1>1, <1>7, <2>1
<1> QED
  BY <1>2, <1>3, <1>4, <1>5, <1>6, <1>7, PositionsAre

-----------------------------------------------------------------------------
(* HttpRequest: what the parser has done                                   *)

(* Of the elements es the first n are finished; of every one the text done *)
(* was called back for, and left is what is left.                          *)
Progress(es, left, n, done) ==
    /\ n \in 0 .. Len(es)
    /\ done \in [1 .. Len(es) -> Texts]
    /\ left \in Seq(ElementSet) /\ Len(left) = Len(es) - n
    /\ \A e \in 1 .. Len(es) : /\ e <= n => done[e] = es[e].text
                               /\ e > n + 1 => done[e] = <<>>
    /\ n < Len(es) => /\ left[1].kind = es[n + 1].kind
                      /\ done[n + 1] \o left[1].text = es[n + 1].text
    /\ \A i \in 2 .. Len(left) : left[i] = es[n + i]

LEMMA SmallerOfTwo ==
    ASSUME NEW a \in Nat, NEW b \in Nat
    PROVE  /\ Min({a, b}) \in Nat /\ Min({a, b}) <= a /\ Min({a, b}) <= b
           /\ a >= b => Min({a, b}) = b
<1>1. {a, b} \in SUBSET Nat /\ {a, b} # {}
  OBVIOUS
<1>2. PICK m : m = Min({a, b})
  OBVIOUS
<1>3. m \in {a, b} /\ \A y \in {a, b} : m <= y
  BY <1>1, <1>2, LeastIs
<1>4. m \in Nat /\ m <= a /\ m <= b /\ (a >= b => m = b)
  BY <1>3
<1> QED
  BY <1>2, <1>4

(* A text is taken in two parts.                                           *)
LEMMA TakenInParts ==
    ASSUME NEW b \in Texts, NEW x \in Texts, NEW m \in Nat, m <= Len(x)
    PROVE  /\ SubSeq(x, 1, m) \in Texts /\ Len(SubSeq(x, 1, m)) = m
           /\ b \o SubSeq(x, 1, m) \in Texts
           /\ SubSeq(x, m + 1, Len(x)) \in Texts
           /\ (b \o SubSeq(x, 1, m)) \o SubSeq(x, m + 1, Len(x)) = b \o x
           /\ m = Len(x) => SubSeq(x, 1, m) = x
<1>1. PICK T : T = RequestUnits
  OBVIOUS
<1>2. b \in Seq(T) /\ x \in Seq(T)
  BY <1>1 DEF Texts
<1>3. PICK c \in Nat : c = 0
  OBVIOUS
<1>4. Len(x) \in Nat
  BY <1>2, LenProperties
<1>5. c + 1 = 1 /\ c + m = m /\ c + m <= Len(x)
  BY <1>3, <1>4
<1>6. /\ b \o SubSeq(x, c + 1, c + m) \in Seq(T)
      /\ (b \o SubSeq(x, c + 1, c + m)) \o SubSeq(x, c + m + 1, Len(x))
            = b \o SubSeq(x, c + 1, Len(x))
  BY <1>2, <1>5, CommitMoves
<1>7. \A i \in 1 .. Len(x) : x[i] \in T
  BY <1>2, ElementOfSeq
<1>8. SubSeq(x, 1, m) \in Seq(T) /\ Len(SubSeq(x, 1, m)) = m
  <2>1. \A i \in 1 .. m : x[i] \in T
    BY <1>4, <1>7
  <2> QED
    BY <2>1, SubSeqProperties
<1>9. SubSeq(x, m + 1, Len(x)) \in Seq(T)
  <2>1. \A i \in m + 1 .. Len(x) : x[i] \in T
    BY <1>4, <1>7
  <2> QED
    BY <1>4, <2>1, SubSeqProperties
<1>10. SubSeq(x, 1, Len(x)) = x
  BY <1>2
<1> QED
  BY <1>1, <1>5, <1>6, <1>8, <1>9, <1>10, Zenon DEF Texts

(* A piece of data reaches a part of the current element: done has the     *)
(* part more, and the element is finished when that was all of it.         *)
LEMMA ParsedMoves ==
    ASSUME NEW es \in Seq(ElementSet), NEW n, NEW done, Progress(es, rest, n, done),
           piece \in Nat, NEW kind, NEW changed, Parsed(kind, changed)
    PROVE  /\ n + 1 \in 1 .. Len(es) /\ es[n + 1].kind = kind
           /\ Part \in Texts /\ done[n + 1] \o Part \in Texts /\ piece' \in Nat
           /\ \E n2 \in {n, n + 1} :
                 Progress(es, rest', n2, [done EXCEPT ![n + 1] = done[n + 1] \o Part])
<1>0. /\ n \in 0 .. Len(es) /\ done \in [1 .. Len(es) -> Texts]
      /\ rest \in Seq(ElementSet) /\ Len(rest) = Len(es) - n
  BY DEF Progress
<1>1. Len(es) \in Nat /\ n \in Nat
  BY <1>0, LenProperties
<1>2. rest # <<>> /\ Head(rest).kind = kind
  BY DEF Parsed
<1>3. PICK e : e = rest[1]
  OBVIOUS
<1>4. Len(rest) # 0 /\ Head(rest) = e /\ e \in ElementSet /\ Len(rest) \in Nat
  <2>1. Len(rest) # 0 /\ Len(rest) \in Nat
    BY <1>0, <1>2, EmptySeq, LenProperties
  <2>2. 1 \in 1 .. Len(rest)
    BY <2>1
  <2>3. e \in ElementSet
    BY <1>0, <1>3, <2>2, ElementOfSeq
  <2>4. Head(rest) = e
    BY <1>0, <1>2, <1>3
  <2> QED
    BY <2>1, <2>3, <2>4
<1>5. PICK text : text = e.text
  OBVIOUS
<1>6. text \in Texts /\ Len(text) \in Nat
  <2>1. PICK texts : texts = Texts
    OBVIOUS
  <2>2. text \in Texts
    BY <1>4, <1>5, <2>1 DEF ElementSet
  <2>3. text \in Seq(RequestUnits)
    BY <2>2 DEF Texts
  <2> QED
    BY <2>2, <2>3, LenProperties
<1>7. PICK m : m = Min({piece, Len(text)})
  OBVIOUS
<1>8. m \in Nat /\ m <= Len(text) /\ m <= piece /\ (piece >= Len(text) => m = Len(text))
  BY <1>6, <1>7, SmallerOfTwo
<1>9. PICK part : part = SubSeq(text, 1, m)
  OBVIOUS
<1>10. Part = part /\ Current = text
  BY <1>4, <1>5, <1>7, <1>9 DEF Part, Current
<1>11. n + 1 \in 1 .. Len(es) /\ es[n + 1].kind = kind /\ n < Len(es)
       /\ done[n + 1] \in Texts /\ done[n + 1] \o text = es[n + 1].text
  <2>1. n < Len(es)
    BY <1>0, <1>1, <1>4
  <2>2. n + 1 \in 1 .. Len(es)
    BY <1>1, <2>1
  <2>3. done[n + 1] \in Texts
    BY <1>0, <2>2
  <2>4. es[n + 1].kind = kind /\ done[n + 1] \o text = es[n + 1].text
    BY <1>2, <1>3, <1>4, <1>5, <2>1 DEF Progress
  <2> QED
    BY <2>1, <2>2, <2>3, <2>4
<1>12. PICK left : left = SubSeq(text, m + 1, Len(text))
  OBVIOUS
<1>13. PICK b : b = done[n + 1] \o part
  OBVIOUS
<1>14. /\ part \in Texts /\ Len(part) = m /\ b \in Texts /\ left \in Texts
       /\ b \o left = es[n + 1].text
       /\ m = Len(text) => b = es[n + 1].text
  <2>1. /\ part \in Texts /\ Len(part) = m /\ done[n + 1] \o part \in Texts /\ left \in Texts
        /\ (done[n + 1] \o part) \o left = done[n + 1] \o text
        /\ m = Len(text) => part = text
    BY <1>6, <1>8, <1>9, <1>11, <1>12, TakenInParts, Zenon
  <2> QED
    BY <1>11, <1>13, <2>1, Zenon
<1>15. PICK done2 : done2 = [done EXCEPT ![n + 1] = b]
  OBVIOUS
<1>16. /\ done2 \in [1 .. Len(es) -> Texts] /\ done2[n + 1] = b
       /\ \A i \in 1 .. Len(es) : i # n + 1 => done2[i] = done[i]
  BY <1>0, <1>11, <1>14, <1>15
<1>17. PICK whole \in BOOLEAN : whole <=> piece >= Len(text) + Delimiter
  OBVIOUS
<1>18. Delimiter \in {0, 1}
  BY DEF Delimiter
<1>19. /\ rest' = IF whole THEN Tail(rest)
                  ELSE [rest EXCEPT ![1].text = SubSeq(@, m + 1, Len(@))]
       /\ piece' = IF rest' = <<>> THEN 0 ELSE piece - m - (IF whole THEN Delimiter ELSE 0)
  BY <1>10, <1>14, <1>17 DEF Parsed
<1>20. piece' \in Nat
  <2>1. CASE rest' = <<>>
    BY <1>19, <2>1
  <2>2. CASE rest' # <<>> /\ whole
    BY <1>6, <1>8, <1>17, <1>18, <1>19, <2>2
  <2>3. CASE rest' # <<>> /\ ~whole
    <3>1. piece' = piece - m - 0
      BY <1>19, <2>3, Zenon
    <3> QED
      BY <1>8, <3>1
  <2> QED
    BY <2>1, <2>2, <2>3
<1>21. /\ \A i \in 1 .. Len(es) : /\ i <= n => done[i] = es[i].text
                                  /\ i > n + 1 => done[i] = <<>>
       /\ \A i \in 2 .. Len(rest) : rest[i] = es[n + i]
  BY DEF Progress
<1>22. CASE whole
  <2>1. m = Len(text)
    BY <1>6, <1>8, <1>17, <1>18, <1>22
  <2>2. /\ rest' \in Seq(ElementSet) /\ Len(rest') = Len(rest) - 1
        /\ \A i \in 1 .. Len(rest) - 1 : rest'[i] = rest[i + 1]
    <3>1. rest' = Tail(rest)
      BY <1>19, <1>22, Zenon
    <3>2. /\ Tail(rest) \in Seq(ElementSet) /\ Len(Tail(rest)) = Len(rest) - 1
          /\ \A i \in 1 .. Len(Tail(rest)) : Tail(rest)[i] = rest[i + 1]
      BY <1>0, <1>2, HeadTailProperties
    <3> QED
      BY <3>1, <3>2, Zenon
  <2>3. \A i \in 1 .. Len(es) : /\ i <= n + 1 => done2[i] = es[i].text
                                /\ i > (n + 1) + 1 => done2[i] = <<>>
    BY <1>1, <1>14, <1>16, <1>21, <2>1
  <2>4. ASSUME n + 1 < Len(es)
        PROVE  /\ rest'[1].kind = es[n + 2].kind
               /\ done2[n + 2] \o rest'[1].text = es[n + 2].text
    <3>1. n + 2 \in 1 .. Len(es) /\ 1 \in 1 .. Len(rest) - 1 /\ 2 \in 2 .. Len(rest)
      BY <1>0, <1>1, <2>4
    <3>2. rest'[1] = es[n + 2]
      BY <1>21, <2>2, <3>1
    <3>3. done2[n + 2] = <<>>
      BY <1>1, <1>16, <1>21, <3>1
    <3>4. es[n + 2] \in ElementSet
      BY <3>1, ElementOfSeq
    <3>5. PICK next : next = es[n + 2].text
      OBVIOUS
    <3>6. next \in Seq(RequestUnits)
      <4>1. PICK texts : texts = Texts
        OBVIOUS
      <4>2. next \in texts
        BY <3>4, <3>5, <4>1 DEF ElementSet
      <4> QED
        BY <4>1, <4>2 DEF Texts
    <3>7. <<>> \o next = next
      BY <3>6, ConcatEmptySeq
    <3> QED
      BY <3>2, <3>3, <3>5, <3>7
  <2>5. \A i \in 2 .. Len(rest') : rest'[i] = es[(n + 1) + i]
    <3>1. ASSUME NEW i \in 2 .. Len(rest')
          PROVE  rest'[i] = es[(n + 1) + i]
      <4>1. PICK size1 : size1 = Len(rest)
        OBVIOUS
      <4>2. size1 \in Nat /\ i \in 2 .. size1 - 1
        BY <1>4, <2>2, <4>1
      <4>3. i \in 1 .. size1 - 1 /\ i + 1 \in 2 .. size1 /\ n + (i + 1) = (n + 1) + i
        BY <1>1, <4>2
      <4>4. rest'[i] = rest[i + 1] /\ rest[i + 1] = es[n + (i + 1)]
        BY <1>21, <2>2, <4>1, <4>3, Zenon
      <4> QED
        BY <4>3, <4>4
    <3> QED
      BY <3>1
  <2>6. n + 1 \in 0 .. Len(es) /\ Len(rest') = Len(es) - (n + 1) /\ (n + 1) + 1 = n + 2
    BY <1>0, <1>1, <1>11, <2>2
  <2>7. Progress(es, rest', n + 1, done2)
    BY <1>16, <2>2, <2>3, <2>4, <2>5, <2>6 DEF Progress
  <2> QED
    BY <1>10, <1>11, <1>13, <1>14, <1>15, <1>20, <2>7
<1>23. CASE ~whole
  <2>1. PICK f : f = [e EXCEPT !.text = left]
    OBVIOUS
  <2>2. f \in ElementSet /\ f.kind = e.kind /\ f.text = left
    <3>1. PICK texts, kinds : texts = Texts /\ kinds = Kinds
      OBVIOUS
    <3> QED
      BY <1>4, <1>14, <2>1, <3>1 DEF ElementSet
  <2>3. rest' = [rest EXCEPT ![1] = f]
    BY <1>3, <1>5, <1>12, <1>19, <1>23, <2>1
  <2>4. /\ rest' \in Seq(ElementSet) /\ Len(rest') = Len(rest) /\ rest'[1] = f
        /\ \A i \in 2 .. Len(rest) : rest'[i] = rest[i]
    BY <1>0, <1>4, <2>2, <2>3
  <2>5. \A i \in 1 .. Len(es) : /\ i <= n => done2[i] = es[i].text
                                /\ i > n + 1 => done2[i] = <<>>
    BY <1>1, <1>16, <1>21
  <2>6. rest'[1].kind = es[n + 1].kind /\ done2[n + 1] \o rest'[1].text = es[n + 1].text
    BY <1>2, <1>4, <1>11, <1>14, <1>16, <2>2, <2>4
  <2>7. Progress(es, rest', n, done2)
    BY <1>0, <1>16, <1>21, <2>4, <2>5, <2>6 DEF Progress
  <2> QED
    BY <1>10, <1>11, <1>13, <1>14, <1>15, <1>20, <2>7
<1> QED
  BY <1>22, <1>23

(* The members of an HttpRequest.                                          *)
Fields(q) ==
    q = [url |-> q.url, path |-> q.path, query_parameters |-> q.query_parameters,
         header_fields |-> q.header_fields, body |-> q.body, state |-> q.state]

(* The names and values that were called back for.                         *)
NamesAndValues(hs, nm, vl, done) ==
    /\ nm \in [1 .. Len(hs) -> Texts] /\ vl \in [1 .. Len(hs) -> Texts]
    /\ \A i \in 1 .. Len(hs) : nm[i] = done[2 * i] /\ vl[i] = done[2 * i + 1]

HeadersBuilt(hs, hf, done) ==
    /\ hf \in Seq([name : Texts, value : Texts])
    /\ \E nm, vl : NamesAndValues(hs, nm, vl, done) /\ HeadersAre(hs, hf, nm, vl)

(* What the HttpRequest q is when of the elements of r the first n are     *)
(* finished and the texts done were called back for.                       *)
Built(r, q, n, done) ==
    /\ Fields(q) /\ HeadersBuilt(r.headers, q.header_fields, done)
    /\ q.url = done[1]
    /\ q.body = IF r.body = <<>> THEN <<>> ELSE done[Size(r)]
    /\ r.query # <<>> /\ n >= EndAt(r) => q.query_parameters = QueryParameters(r.query)
    /\ r.bad => n < EndAt(r) - 1

RequestInv ==
    /\ sent \in Requests /\ piece \in Nat
    /\ \E n, done : Progress(Elements(sent), rest, n, done) /\ Built(sent, req, n, done)
    /\ req.state = "complete" => rest = <<>>

(* A callback for an element of the kind, which is the one behind the      *)
(* first n: it may be finished then, which makes them n2.                  *)
Arrives(kind, n, done, n2, done2) ==
    /\ sent \in Requests
    /\ Progress(Elements(sent), rest, n, done) /\ Built(sent, req, n, done)
    /\ n \in Nat /\ n + 1 \in 1 .. Size(sent) /\ Elements(sent)[n + 1].kind = kind
    /\ done \in [1 .. Size(sent) -> Texts]
    /\ n2 \in {n, n + 1} /\ done2 = [done EXCEPT ![n + 1] = done[n + 1] \o Part]
    /\ Part \in Texts /\ done[n + 1] \o Part \in Texts

LEMMA CallbackFor ==
    ASSUME RequestInv, NEW kind, NEW changed, Parsed(kind, changed)
    PROVE  /\ piece' \in Nat /\ req.state # "complete"
           /\ \E n, done, n2, done2 : /\ Arrives(kind, n, done, n2, done2)
                                      /\ Progress(Elements(sent), rest', n2, done2)
<1>1. PICK n, done : Progress(Elements(sent), rest, n, done) /\ Built(sent, req, n, done)
  BY DEF RequestInv
<1>2. PICK es : es = Elements(sent)
  OBVIOUS
<1>3. es \in Seq(ElementSet) /\ Len(es) = Size(sent) /\ sent \in Requests /\ piece \in Nat
  BY <1>2, ElementsAre DEF RequestInv
<1>4. /\ n + 1 \in 1 .. Len(es) /\ es[n + 1].kind = kind
      /\ Part \in Texts /\ done[n + 1] \o Part \in Texts /\ piece' \in Nat
      /\ \E n2 \in {n, n + 1} :
            Progress(es, rest', n2, [done EXCEPT ![n + 1] = done[n + 1] \o Part])
  BY <1>1, <1>2, <1>3, ParsedMoves, Zenon
<1>5. PICK n2 \in {n, n + 1} :
          Progress(es, rest', n2, [done EXCEPT ![n + 1] = done[n + 1] \o Part])
  BY <1>4
<1>6. PICK done2 : done2 = [done EXCEPT ![n + 1] = done[n + 1] \o Part]
  OBVIOUS
<1>7. n \in Nat /\ done \in [1 .. Size(sent) -> Texts]
  <2>1. n \in 0 .. Len(es) /\ done \in [1 .. Len(es) -> Texts]
    BY <1>1, <1>2 DEF Progress
  <2>2. Len(es) \in Nat
    BY <1>3, LenProperties
  <2> QED
    BY <1>3, <2>1, <2>2
<1>8. Arrives(kind, n, done, n2, done2)
  BY <1>1, <1>2, <1>3, <1>4, <1>5, <1>6, <1>7, Zenon DEF Arrives
<1>9. req.state # "complete"
  BY DEF RequestInv, Parsed
<1> QED
  BY <1>2, <1>4, <1>5, <1>6, <1>8, <1>9, Zenon

LEMMA CalledBack ==
    ASSUME RequestInv, NEW kind, NEW changed, Parsed(kind, changed),
           NEW n2, NEW done2, Progress(Elements(sent), rest', n2, done2),
           piece' \in Nat, req.state # "complete",
           Built(sent, changed, n2, done2), changed.state = req.state
    PROVE  RequestInv'
<1>1. sent' = sent /\ sent \in Requests
  BY DEF Parsed, RequestInv
<1>2. CASE rest' = <<>>
  <2>1. req' = [changed EXCEPT !.state = "complete"]
    BY <1>2 DEF Parsed
  <2>2. /\ Fields(req') /\ req'.url = changed.url /\ req'.body = changed.body
        /\ req'.header_fields = changed.header_fields
        /\ req'.query_parameters = changed.query_parameters
    BY <2>1 DEF Built, Fields
  <2>3. Built(sent, req', n2, done2)
    BY <2>2 DEF Built
  <2> QED
    BY <1>1, <1>2, <2>3 DEF RequestInv
<1>3. CASE rest' # <<>>
  <2>1. req' = changed
    BY <1>3 DEF Parsed
  <2> QED
    BY <1>1, <2>1 DEF RequestInv
<1> QED
  BY <1>2, <1>3

LEMMA SizesAre ==
    ASSUME NEW r \in Requests
    PROVE  /\ Len(r.headers) \in Nat /\ EndAt(r) \in Nat /\ Size(r) \in Nat
           /\ 2 * Len(r.headers) + 2 <= EndAt(r) /\ EndAt(r) <= Size(r)
           /\ r.bad => 2 * Len(r.headers) + 2 <= EndAt(r) - 1
           /\ r.body # <<>> => Size(r) = EndAt(r) + 1
<1>1. PICK H : H = Len(r.headers)
  OBVIOUS
<1>2. H \in Nat /\ r.bad \in BOOLEAN
  BY <1>1, RequestIs, LenProperties
<1>3. PICK p, s : p = EndAt(r) /\ s = Size(r)
  OBVIOUS
<1>4. /\ p = 2 * H + 2 + (IF r.bad THEN 1 ELSE 0)
      /\ s = p + (IF r.body = <<>> THEN 0 ELSE 1)
  BY <1>1, <1>3 DEF EndAt, Size
<1>5. /\ p \in Nat /\ 2 * H + 2 <= p /\ (r.bad => 2 * H + 2 <= p - 1)
  BY <1>2, <1>4
<1>6. s \in Nat /\ p <= s /\ (r.body # <<>> => s = p + 1)
  BY <1>4, <1>5
<1> QED
  BY <1>1, <1>2, <1>3, <1>5, <1>6

(* Only the element at the end of the headers passes it, and the parser    *)
(* stops at an error.                                                      *)
LEMMA PassesNone ==
    ASSUME NEW r \in Requests, NEW n \in Nat, n + 1 \in 1 .. Size(r), NEW n2 \in {n, n + 1},
           Elements(r)[n + 1].kind # "bad"
    PROVE  /\ Elements(r)[n + 1].kind # "end" /\ n2 >= EndAt(r) => n >= EndAt(r)
           /\ r.bad /\ n < EndAt(r) - 1 => n2 < EndAt(r) - 1
<1>1. PICK p : p = EndAt(r)
  OBVIOUS
<1>2. p \in Nat
  BY <1>1, SizesAre
<1>3. Elements(r)[n + 1].kind # "end" => n + 1 # p
  <2>1. p \in 1 .. Size(r) /\ Elements(r)[p].kind = "end"
    <3>1. Elements(r)[p] = Element("end", <<>>)
      BY <1>1, ElementsAre
    <3>3. p \in 1 .. Size(r)
      BY <1>1, SizesAre
    <3> QED
      BY <3>1, <3>3 DEF Element
  <2> QED
    BY <2>1
<1>4. r.bad => n + 1 # p - 1
  BY <1>1, PositionOf
<1> QED
  BY <1>1, <1>2, <1>3, <1>4

LEMMA UrlBuilt ==
    ASSUME NEW r \in Requests, NEW q, NEW n, NEW done, NEW n2, NEW done2, NEW part,
           Built(r, q, n, done), n = 0, n2 \in {n, n + 1}, Elements(r)[n + 1].kind = "url",
           done \in [1 .. Size(r) -> Texts], done2 = [done EXCEPT ![n + 1] = done[n + 1] \o part]
    PROVE  Built(r, [q EXCEPT !.url = @ \o part], n2, done2)
<1>1. PICK H, s, p : H = Len(r.headers) /\ s = Size(r) /\ p = EndAt(r)
  OBVIOUS
<1>2. H \in Nat /\ s \in Nat /\ p \in Nat /\ 2 * H + 2 <= p /\ p <= s /\ (r.bad => 2 * H + 2 <= p - 1)
  BY <1>1, SizesAre
<1>3. n2 \in {0, 1}
  OBVIOUS
<1>4. done2[1] = done[1] \o part /\ \A i \in 2 .. s : done2[i] = done[i]
  <2>1. PICK b : b = done[1] \o part
    OBVIOUS
  <2>2. done2 = [done EXCEPT ![1] = b]
    BY <2>1
  <2>3. 1 \in 1 .. s /\ \A i \in 2 .. s : i \in 1 .. s /\ i # 1
    BY <1>2
  <2> QED
    BY <1>1, <2>1, <2>2, <2>3
<1>5. PICK q2 : q2 = [q EXCEPT !.url = @ \o part]
  OBVIOUS
<1>6. /\ Fields(q2) /\ q2.url = done2[1] /\ q2.body = q.body
      /\ q2.header_fields = q.header_fields
  BY <1>4, <1>5 DEF Built, Fields
<1>7. HeadersBuilt(r.headers, q2.header_fields, done2)
  <2>1. PICK nm, vl : /\ NamesAndValues(r.headers, nm, vl, done)
                      /\ HeadersAre(r.headers, q.header_fields, nm, vl)
    BY DEF Built, HeadersBuilt
  <2>2. \A i \in 1 .. H : 2 * i \in 2 .. s /\ 2 * i + 1 \in 2 .. s
    BY <1>2
  <2>3. NamesAndValues(r.headers, nm, vl, done2)
    BY <1>1, <1>4, <2>1, <2>2 DEF NamesAndValues
  <2> QED
    BY <1>6, <2>1, <2>3 DEF Built, HeadersBuilt
<1>8. q2.body = IF r.body = <<>> THEN <<>> ELSE done2[s]
  <2>1. s \in 2 .. s
    BY <1>2
  <2> QED
    BY <1>1, <1>4, <1>6, <2>1 DEF Built
<1>9. ~(n2 >= p) /\ (r.bad => n2 < p - 1)
  BY <1>2, <1>3
<1> QED
  BY <1>1, <1>5, <1>6, <1>7, <1>8, <1>9 DEF Built

LEMMA BodyBuilt ==
    ASSUME NEW r \in Requests, NEW q, NEW n, NEW done, NEW n2, NEW done2, NEW part,
           Built(r, q, n, done), n \in Nat, n2 \in {n, n + 1}, n + 1 = Size(r), r.body # <<>>,
           Elements(r)[n + 1].kind = "body", done \in [1 .. Size(r) -> Texts],
           done2 = [done EXCEPT ![n + 1] = done[n + 1] \o part]
    PROVE  Built(r, [q EXCEPT !.body = @ \o part], n2, done2)
<1>1. PICK H, s, p : H = Len(r.headers) /\ s = Size(r) /\ p = EndAt(r)
  OBVIOUS
<1>2. /\ H \in Nat /\ s \in Nat /\ p \in Nat /\ 2 * H + 2 <= p /\ s = p + 1
      /\ 1 \in 1 .. s - 1 /\ n + 1 = s
  BY <1>1, SizesAre
<1>4. done2[s] = done[s] \o part /\ \A i \in 1 .. s - 1 : done2[i] = done[i]
  <2>1. PICK b : b = done[s] \o part
    OBVIOUS
  <2>2. done2 = [done EXCEPT ![s] = b]
    BY <1>2, <2>1
  <2>3. s \in 1 .. s /\ \A i \in 1 .. s - 1 : i \in 1 .. s /\ i # s
    BY <1>2
  <2> QED
    BY <1>1, <2>1, <2>2, <2>3
<1>5. PICK q2 : q2 = [q EXCEPT !.body = @ \o part]
  OBVIOUS
<1>6. /\ Fields(q2) /\ q2.url = q.url /\ q2.body = q.body \o part
      /\ q2.header_fields = q.header_fields /\ q2.query_parameters = q.query_parameters
  BY <1>5 DEF Built, Fields
<1>7. HeadersBuilt(r.headers, q2.header_fields, done2)
  <2>1. PICK nm, vl : /\ NamesAndValues(r.headers, nm, vl, done)
                      /\ HeadersAre(r.headers, q.header_fields, nm, vl)
    BY DEF Built, HeadersBuilt
  <2>2. \A i \in 1 .. H : 2 * i \in 1 .. s - 1 /\ 2 * i + 1 \in 1 .. s - 1
    BY <1>2
  <2>3. NamesAndValues(r.headers, nm, vl, done2)
    BY <1>1, <1>4, <2>1, <2>2 DEF NamesAndValues
  <2> QED
    BY <1>6, <2>1, <2>3 DEF Built, HeadersBuilt
<1>8. q2.body = (IF r.body = <<>> THEN <<>> ELSE done2[s]) /\ q2.url = done2[1]
  BY <1>1, <1>2, <1>4, <1>6 DEF Built
<1>9. n >= p /\ (r.bad => FALSE)
  BY <1>1, <1>2 DEF Built
<1> QED
  BY <1>1, <1>5, <1>6, <1>7, <1>8, <1>9 DEF Built

OnlyHeaders(q, q2) ==
    /\ Fields(q2) /\ q2.url = q.url /\ q2.body = q.body
    /\ q2.query_parameters = q.query_parameters

(* The parser is at the name or the value of the i-th header.              *)
HeaderAt(r, n, done, left, i) ==
    /\ r \in Requests /\ n \in Nat /\ Progress(Elements(r), left, n, done)
    /\ i \in 1 .. Len(r.headers) /\ n + 1 \in {2 * i, 2 * i + 1}

(* A callback that leaves url, body and query alone.                       *)
LEMMA HeadersGo ==
    ASSUME NEW r, NEW q, NEW n, NEW done, NEW left, NEW i, HeaderAt(r, n, done, left, i),
           Built(r, q, n, done), NEW n2, n2 \in {n, n + 1}, NEW done2, NEW q2,
           Elements(r)[n + 1].kind \in {"name", "value"},
           \A e \in 1 .. Size(r) : e # n + 1 => done2[e] = done[e],
           OnlyHeaders(q, q2), HeadersBuilt(r.headers, q2.header_fields, done2)
    PROVE  Built(r, q2, n2, done2)
<1>0. r \in Requests /\ n \in Nat /\ i \in 1 .. Len(r.headers) /\ n + 1 \in {2 * i, 2 * i + 1}
  BY DEF HeaderAt
<1>1. PICK H, s, p, k : H = Len(r.headers) /\ s = Size(r) /\ p = EndAt(r) /\ k = n + 1
  OBVIOUS
<1>2. H \in Nat /\ s \in Nat /\ p \in Nat /\ 2 * H + 2 <= p /\ p <= s
  BY <1>0, <1>1, SizesAre
<1>3. k \in 2 .. 2 * H + 1 /\ k \in 1 .. s /\ 1 \in 1 .. s /\ s \in 1 .. s /\ s # k /\ 1 # k
  <2>1. i \in 1 .. H /\ (k = 2 * i \/ k = 2 * i + 1)
    BY <1>0, <1>1
  <2>2. k \in 2 .. 2 * H + 1
    BY <1>2, <2>1
  <2> QED
    BY <1>2, <2>2
<1>4. done2[1] = done[1] /\ done2[s] = done[s]
  BY <1>1, <1>3
<1>5. /\ n2 >= p => n >= p
      /\ r.bad /\ n < p - 1 => n2 < p - 1
  BY <1>0, <1>1, <1>3, PassesNone
<1> QED
  BY <1>1, <1>4, <1>5 DEF Built, OnlyHeaders

LEMMA OddAndEven ==
    ASSUME NEW i \in Nat, NEW j \in Nat
    PROVE  2 * j + 1 # 2 * i /\ (j # i => 2 * j # 2 * i /\ 2 * j + 1 # 2 * i + 1)
  OBVIOUS

(* The headers before the one the parser is at were delivered, and the     *)
(* name before its value.                                                  *)
DeliveredTo(hs, n, nm, vl, i) ==
    /\ HeadersTo(hs, nm, vl, i)
    /\ n + 1 = 2 * i => vl[i] = <<>>
    /\ n + 1 = 2 * i + 1 => nm[i] # <<>>

LEMMA HeadersBefore ==
    ASSUME NEW r, NEW n, NEW done, NEW left, NEW i, HeaderAt(r, n, done, left, i),
           NEW nm, NEW vl, NamesAndValues(r.headers, nm, vl, done)
    PROVE  DeliveredTo(r.headers, n, nm, vl, i)
<1>0. /\ r \in Requests /\ n \in Nat /\ Progress(Elements(r), left, n, done)
      /\ i \in 1 .. Len(r.headers) /\ n + 1 \in {2 * i, 2 * i + 1}
  BY DEF HeaderAt
<1>1. PICK es, hs, H, s : es = Elements(r) /\ hs = r.headers /\ H = Len(hs) /\ s = Size(r)
  OBVIOUS
<1>2. H \in Nat /\ s \in Nat /\ 2 * H + 2 <= s
  <2>1. PICK p : p = EndAt(r)
    OBVIOUS
  <2>2. H \in Nat /\ s \in Nat /\ p \in Nat /\ 2 * H + 2 <= p /\ p <= s
    BY <1>0, <1>1, <2>1, SizesAre
  <2> QED
    BY <2>2
<1>3. /\ Len(es) = s
      /\ \A j \in 1 .. H : es[2 * j].text = hs[j].name /\ es[2 * j + 1].text = hs[j].value
  <2>1. /\ Len(es) = s
        /\ \A j \in 1 .. H : /\ es[2 * j] = Element("name", hs[j].name)
                             /\ es[2 * j + 1] = Element("value", hs[j].value)
    BY <1>0, <1>1, ElementsAre
  <2>2. \A kind, text : Element(kind, text).text = text
    BY DEF Element
  <2>3. ASSUME NEW j \in 1 .. H
        PROVE  es[2 * j].text = hs[j].name /\ es[2 * j + 1].text = hs[j].value
    <3>1. /\ es[2 * j] = Element("name", hs[j].name)
          /\ es[2 * j + 1] = Element("value", hs[j].value)
      BY <2>1
    <3> QED
      BY <2>2, <3>1
  <2> QED
    BY <2>1, <2>3
<1>4. \A e \in 1 .. s : /\ e <= n => done[e] = es[e].text
                        /\ e > n + 1 => done[e] = <<>>
  BY <1>0, <1>1, <1>3 DEF Progress
<1>6. \A j \in 1 .. H : nm[j] = done[2 * j] /\ vl[j] = done[2 * j + 1]
  BY <1>1 DEF NamesAndValues
<1>7. \A j \in 1 .. H : hs[j].name # <<>>
  BY <1>0, <1>1, RequestIs
<1>8. ASSUME NEW j \in 1 .. H
      PROVE  /\ j < i => nm[j] = hs[j].name /\ vl[j] = hs[j].value
             /\ j > i => nm[j] = <<>> /\ vl[j] = <<>>
             /\ j = i /\ n + 1 = 2 * i => vl[j] = <<>>
             /\ j = i /\ n + 1 = 2 * i + 1 => nm[j] = hs[j].name
  <2>1. PICK a, b : a = 2 * j /\ b = 2 * j + 1
    OBVIOUS
  <2>2. a \in 1 .. s /\ b \in 1 .. s
    BY <1>2, <2>1
  <2>3. i \in 1 .. H
    BY <1>0, <1>1
  <2>4. /\ j < i => a <= n /\ b <= n
        /\ j > i => a > n + 1 /\ b > n + 1
        /\ j = i /\ n + 1 = 2 * i => b > n + 1
        /\ j = i /\ n + 1 = 2 * i + 1 => a <= n
    BY <1>0, <1>2, <2>1, <2>3
  <2>5. /\ nm[j] = done[a] /\ vl[j] = done[b]
        /\ es[a].text = hs[j].name /\ es[b].text = hs[j].value
    BY <1>3, <1>6, <2>1
  <2>6. /\ a <= n => done[a] = es[a].text
        /\ a > n + 1 => done[a] = <<>>
        /\ b <= n => done[b] = es[b].text
        /\ b > n + 1 => done[b] = <<>>
    BY <1>4, <2>2
  <2> QED
    BY <2>4, <2>5, <2>6
<1>9. i \in 1 .. H /\ \A j \in 1 .. i - 1 : j \in 1 .. H /\ j < i
  BY <1>0, <1>1, <1>2
<1>10. \A j \in i + 1 .. H : j \in 1 .. H /\ j > i
  BY <1>2, <1>9
<1>11. HeadersTo(hs, nm, vl, i)
  <2>1. \A j \in 1 .. i - 1 : nm[j] = hs[j].name /\ nm[j] # <<>> /\ vl[j] = hs[j].value
    BY <1>7, <1>8, <1>9
  <2>2. \A j \in i + 1 .. H : nm[j] = <<>> /\ vl[j] = <<>>
    BY <1>8, <1>10
  <2> QED
    BY <1>1, <2>1, <2>2 DEF HeadersTo
<1>12. (n + 1 = 2 * i => vl[i] = <<>>) /\ (n + 1 = 2 * i + 1 => nm[i] # <<>>)
  BY <1>7, <1>8, <1>9
<1> QED
  BY <1>1, <1>11, <1>12 DEF DeliveredTo

LEMMA NameBuilt ==
    ASSUME NEW n, NEW done, NEW n2, NEW done2, Arrives("name", n, done, n2, done2),
           NEW i \in 1 .. Len(sent.headers), n + 1 = 2 * i, Part # <<>>,
           NEW q2, OnlyHeaders(req, q2), q2.header_fields = NameAdded(req.header_fields, Part)
    PROVE  Built(sent, q2, n2, done2)
<1>a. /\ sent \in Requests /\ n \in Nat /\ n2 \in {n, n + 1} /\ n + 1 \in 1 .. Size(sent)
      /\ Progress(Elements(sent), rest, n, done) /\ Built(sent, req, n, done)
      /\ Elements(sent)[n + 1].kind = "name"
  BY DEF Arrives
<1>b. PICK r, part : r = sent /\ part = Part
  OBVIOUS
<1>c. /\ part \in Texts /\ done[n + 1] \o part \in Texts
      /\ done \in [1 .. Size(r) -> Texts] /\ done2 = [done EXCEPT ![n + 1] = done[n + 1] \o part]
  BY <1>b DEF Arrives
<1>1. PICK nm, vl : /\ NamesAndValues(sent.headers, nm, vl, done)
                    /\ HeadersAre(sent.headers, req.header_fields, nm, vl)
  BY <1>a DEF Built, HeadersBuilt
<1>2. PICK hs, H, hf, k, name : /\ hs = sent.headers /\ H = Len(hs) /\ hf = req.header_fields
                                /\ k = n + 1 /\ name = done[k] \o part
  OBVIOUS
<1>3. /\ hs \in Seq([name : Texts, value : Texts]) /\ hf \in Seq([name : Texts, value : Texts])
      /\ nm \in [1 .. Len(hs) -> Texts] /\ vl \in [1 .. Len(hs) -> Texts]
      /\ H \in Nat /\ i \in 1 .. Len(hs) /\ nm[i] = done[k] /\ name \in Texts
  <2>1. hs \in Seq([name : Texts, value : Texts]) /\ H \in Nat
    BY <1>a, <1>2, RequestIs, SizesAre
  <2>2. hf \in Seq([name : Texts, value : Texts])
    BY <1>a, <1>2 DEF Built, HeadersBuilt
  <2>3. /\ nm \in [1 .. Len(hs) -> Texts] /\ vl \in [1 .. Len(hs) -> Texts]
        /\ nm[i] = done[2 * i]
    BY <1>1, <1>2 DEF NamesAndValues
  <2> QED
    BY <1>b, <1>c, <1>2, <2>1, <2>2, <2>3
<1>4. HeadersTo(hs, nm, vl, i) /\ vl[i] = <<>>
  <2>1. HeaderAt(sent, n, done, rest, i)
    BY <1>a DEF HeaderAt
  <2>2. DeliveredTo(sent.headers, n, nm, vl, i)
    BY <1>1, <2>1, HeadersBefore, Zenon
  <2> QED
    BY <1>2, <2>2 DEF DeliveredTo
<1>5. name # <<>> /\ (nm[i] = <<>> => name = part)
  <2>1. done[k] \in Seq(RequestUnits) /\ part \in Seq(RequestUnits)
    BY <1>b, <1>c, <1>2, <1>3 DEF Texts
  <2>2. PICK u : u = done[k]
    OBVIOUS
  <2>3. u \o part # <<>> /\ (u = <<>> => u \o part = part)
    <3>1. u \in Seq(RequestUnits) /\ part \in Seq(RequestUnits)
      BY <2>1, <2>2
    <3>2. Len(u \o part) = Len(u) + Len(part) /\ Len(u) \in Nat /\ Len(part) \in Nat
      BY <3>1, ConcatProperties, LenProperties
    <3>3. Len(part) # 0
      BY <1>b, <3>1, EmptySeq
    <3>4. Len(u \o part) # 0
      BY <3>2, <3>3
    <3>5. u = <<>> => u \o part = part
      BY <3>1, ConcatEmptySeq
    <3> QED
      BY <3>4, <3>5
  <2> QED
    BY <1>2, <1>3, <2>2, <2>3
<1>6. PICK nm2 : nm2 = [nm EXCEPT ![i] = name]
  OBVIOUS
<1>7. /\ NameAdded(hf, part) \in Seq([name : Texts, value : Texts])
      /\ HeadersAre(hs, NameAdded(hf, part), [nm EXCEPT ![i] = name], vl)
  <2>1. HeadersAre(hs, hf, nm, vl) /\ name = nm[i] \o part
    BY <1>1, <1>2, <1>3
  <2>2. PICK X : X = Texts
    OBVIOUS
  <2>3. /\ Joined(X) /\ hs \in Seq([name : X, value : X]) /\ hf \in Seq([name : X, value : X])
        /\ nm \in [1 .. Len(hs) -> X] /\ vl \in [1 .. Len(hs) -> X]
        /\ part \in X /\ part # <<>> /\ name \in X
    BY <1>b, <1>c, <1>3, <2>2, TextsJoin, Zenon
  <2>4. i \in 1 .. Len(hs)
    BY <1>3
  <2>5. /\ NameAdded(hf, part) \in Seq([name : X, value : X])
        /\ HeadersAre(hs, NameAdded(hf, part), [nm EXCEPT ![i] = name], vl)
    BY <1>4, <1>5, <2>1, <2>3, <2>4, NameArrives
  <2> QED
    BY <2>2, <2>5
<1>8. done2[k] = name /\ \A e \in 1 .. Size(r) : e # k => done2[e] = done[e]
  <2>0. done \in [1 .. Size(r) -> Texts]
    BY <1>c
  <2>1. k \in 1 .. Size(r) /\ done2 = [done EXCEPT ![k] = name]
    BY <1>a, <1>b, <1>c, <1>2
  <2> QED
    BY <2>0, <2>1
<1>9. NamesAndValues(hs, nm2, vl, done2)
  <2>1. ASSUME NEW j \in 1 .. H
        PROVE  nm2[j] = done2[2 * j] /\ vl[j] = done2[2 * j + 1]
    <3>1. PICK a, b : a = 2 * j /\ b = 2 * j + 1
      OBVIOUS
    <3>2. a \in 1 .. Size(r) /\ b \in 1 .. Size(r) /\ b # k /\ (j # i => a # k) /\ (j = i => a = k)
      <4>1. PICK s, p : s = Size(r) /\ p = EndAt(r)
        OBVIOUS
      <4>2. s \in Nat /\ p \in Nat /\ 2 * H + 2 <= p /\ p <= s
        BY <1>a, <1>b, <1>2, <4>1, SizesAre
      <4>3. k = 2 * i /\ i \in 1 .. H /\ H \in Nat
        BY <1>2, <1>3
      <4>4. i \in Nat /\ j \in Nat /\ a \in 1 .. s /\ b \in 1 .. s
        BY <3>1, <4>2, <4>3
      <4>5. 2 * i + 1 # 2 * j
        BY <4>4, OddAndEven
      <4> QED
        BY <3>1, <4>1, <4>3, <4>4, <4>5, OddAndEven
    <3>3. nm[j] = done[a] /\ vl[j] = done[b]
      BY <1>1, <1>2, <3>1 DEF NamesAndValues
    <3>4. nm2[j] = IF j = i THEN name ELSE nm[j]
      BY <1>2, <1>3, <1>6
    <3> QED
      BY <1>8, <3>1, <3>2, <3>3, <3>4
  <2>2. nm2 \in [1 .. Len(hs) -> Texts]
    BY <1>3, <1>6
  <2> QED
    BY <1>2, <1>3, <2>1, <2>2 DEF NamesAndValues
<1>10. HeadersBuilt(sent.headers, q2.header_fields, done2)
  BY <1>b, <1>2, <1>6, <1>7, <1>9 DEF HeadersBuilt
<1>11. /\ HeaderAt(sent, n, done, rest, i) /\ Elements(sent)[n + 1].kind \in {"name", "value"}
       /\ \A e \in 1 .. Size(sent) : e # n + 1 => done2[e] = done[e]
  BY <1>a, <1>b, <1>2, <1>8 DEF HeaderAt
<1> QED
  BY <1>a, <1>10, <1>11, HeadersGo

LEMMA ValueBuilt ==
    ASSUME NEW n, NEW done, NEW n2, NEW done2, Arrives("value", n, done, n2, done2),
           NEW i \in 1 .. Len(sent.headers), n + 1 = 2 * i + 1,
           NEW q2, OnlyHeaders(req, q2), q2.header_fields = ValueAdded(req.header_fields, Part)
    PROVE  Built(sent, q2, n2, done2)
<1>a. /\ sent \in Requests /\ n \in Nat /\ n2 \in {n, n + 1} /\ n + 1 \in 1 .. Size(sent)
      /\ Progress(Elements(sent), rest, n, done) /\ Built(sent, req, n, done)
      /\ Elements(sent)[n + 1].kind = "value"
  BY DEF Arrives
<1>b. PICK r, part : r = sent /\ part = Part
  OBVIOUS
<1>c. /\ part \in Texts /\ done[n + 1] \o part \in Texts
      /\ done \in [1 .. Size(r) -> Texts] /\ done2 = [done EXCEPT ![n + 1] = done[n + 1] \o part]
  BY <1>b DEF Arrives
<1>1. PICK nm, vl : /\ NamesAndValues(sent.headers, nm, vl, done)
                    /\ HeadersAre(sent.headers, req.header_fields, nm, vl)
  BY <1>a DEF Built, HeadersBuilt
<1>2. PICK hs, H, hf, k, value : /\ hs = sent.headers /\ H = Len(hs) /\ hf = req.header_fields
                                 /\ k = n + 1 /\ value = done[k] \o part
  OBVIOUS
<1>3. /\ hs \in Seq([name : Texts, value : Texts]) /\ hf \in Seq([name : Texts, value : Texts])
      /\ nm \in [1 .. Len(hs) -> Texts] /\ vl \in [1 .. Len(hs) -> Texts]
      /\ H \in Nat /\ i \in 1 .. Len(hs) /\ vl[i] = done[k] /\ value \in Texts
  <2>1. hs \in Seq([name : Texts, value : Texts]) /\ H \in Nat
    BY <1>a, <1>2, RequestIs, SizesAre
  <2>2. hf \in Seq([name : Texts, value : Texts])
    BY <1>a, <1>2 DEF Built, HeadersBuilt
  <2>3. /\ nm \in [1 .. Len(hs) -> Texts] /\ vl \in [1 .. Len(hs) -> Texts]
        /\ vl[i] = done[2 * i + 1]
    BY <1>1, <1>2 DEF NamesAndValues
  <2> QED
    BY <1>b, <1>c, <1>2, <2>1, <2>2, <2>3
<1>4. HeadersTo(hs, nm, vl, i) /\ nm[i] # <<>>
  <2>1. HeaderAt(sent, n, done, rest, i)
    BY <1>a DEF HeaderAt
  <2>2. DeliveredTo(sent.headers, n, nm, vl, i)
    BY <1>1, <2>1, HeadersBefore, Zenon
  <2> QED
    BY <1>2, <2>2 DEF DeliveredTo
<1>6. PICK vl2 : vl2 = [vl EXCEPT ![i] = value]
  OBVIOUS
<1>7. /\ ValueAdded(hf, part) \in Seq([name : Texts, value : Texts])
      /\ HeadersAre(hs, ValueAdded(hf, part), nm, [vl EXCEPT ![i] = value])
  <2>1. HeadersAre(hs, hf, nm, vl) /\ value = vl[i] \o part
    BY <1>1, <1>2, <1>3
  <2>2. PICK X : X = Texts
    OBVIOUS
  <2>3. /\ Joined(X) /\ hs \in Seq([name : X, value : X]) /\ hf \in Seq([name : X, value : X])
        /\ nm \in [1 .. Len(hs) -> X] /\ vl \in [1 .. Len(hs) -> X]
        /\ part \in X /\ value \in X
    BY <1>b, <1>c, <1>3, <2>2, TextsJoin, Zenon
  <2>4. i \in 1 .. Len(hs)
    BY <1>3
  <2>5. /\ ValueAdded(hf, part) \in Seq([name : X, value : X])
        /\ HeadersAre(hs, ValueAdded(hf, part), nm, [vl EXCEPT ![i] = value])
    BY <1>4, <2>1, <2>3, <2>4, ValueArrives
  <2> QED
    BY <2>2, <2>5
<1>8. done2[k] = value /\ \A e \in 1 .. Size(r) : e # k => done2[e] = done[e]
  <2>0. done \in [1 .. Size(r) -> Texts]
    BY <1>c
  <2>1. k \in 1 .. Size(r) /\ done2 = [done EXCEPT ![k] = value]
    BY <1>a, <1>b, <1>c, <1>2
  <2> QED
    BY <2>0, <2>1
<1>9. NamesAndValues(hs, nm, vl2, done2)
  <2>1. ASSUME NEW j \in 1 .. H
        PROVE  nm[j] = done2[2 * j] /\ vl2[j] = done2[2 * j + 1]
    <3>1. PICK a, b : a = 2 * j /\ b = 2 * j + 1
      OBVIOUS
    <3>2. a \in 1 .. Size(r) /\ b \in 1 .. Size(r) /\ a # k /\ (j # i => b # k) /\ (j = i => b = k)
      <4>1. PICK s, p : s = Size(r) /\ p = EndAt(r)
        OBVIOUS
      <4>2. s \in Nat /\ p \in Nat /\ 2 * H + 2 <= p /\ p <= s
        BY <1>a, <1>b, <1>2, <4>1, SizesAre
      <4>3. k = 2 * i + 1 /\ i \in 1 .. H /\ H \in Nat
        BY <1>2, <1>3
      <4>4. i \in Nat /\ j \in Nat /\ a \in 1 .. s /\ b \in 1 .. s
        BY <3>1, <4>2, <4>3
      <4>5. 2 * i + 1 # 2 * j
        BY <4>4, OddAndEven
      <4> QED
        BY <3>1, <4>1, <4>3, <4>4, <4>5, OddAndEven
    <3>3. nm[j] = done[a] /\ vl[j] = done[b]
      BY <1>1, <1>2, <3>1 DEF NamesAndValues
    <3>4. vl2[j] = IF j = i THEN value ELSE vl[j]
      BY <1>2, <1>3, <1>6
    <3> QED
      BY <1>8, <3>1, <3>2, <3>3, <3>4
  <2>2. vl2 \in [1 .. Len(hs) -> Texts]
    BY <1>3, <1>6
  <2> QED
    BY <1>2, <1>3, <2>1, <2>2 DEF NamesAndValues
<1>10. HeadersBuilt(sent.headers, q2.header_fields, done2)
  BY <1>b, <1>2, <1>6, <1>7, <1>9 DEF HeadersBuilt
<1>11. /\ HeaderAt(sent, n, done, rest, i) /\ Elements(sent)[n + 1].kind \in {"name", "value"}
       /\ \A e \in 1 .. Size(sent) : e # n + 1 => done2[e] = done[e]
  BY <1>a, <1>b, <1>2, <1>8 DEF HeaderAt
<1> QED
  BY <1>a, <1>10, <1>11, HeadersGo

(* A value has a field to go to.                                           *)
LEMMA ValueHasName ==
    ASSUME NEW n, NEW done, NEW n2, NEW done2, Arrives("value", n, done, n2, done2),
           NEW i \in 1 .. Len(sent.headers), n + 1 = 2 * i + 1
    PROVE  req.header_fields # <<>>
<1>1. /\ sent \in Requests /\ n \in Nat
      /\ Progress(Elements(sent), rest, n, done) /\ Built(sent, req, n, done)
  BY DEF Arrives
<1>2. PICK nm, vl : /\ NamesAndValues(sent.headers, nm, vl, done)
                    /\ HeadersAre(sent.headers, req.header_fields, nm, vl)
  BY <1>1 DEF Built, HeadersBuilt
<1>3. DeliveredTo(sent.headers, n, nm, vl, i)
  <2>1. HeaderAt(sent, n, done, rest, i)
    BY <1>1 DEF HeaderAt
  <2> QED
    BY <1>2, <2>1, HeadersBefore, Zenon
<1>4. PICK hs, hf, X : hs = sent.headers /\ hf = req.header_fields /\ X = Texts
  OBVIOUS
<1>5. /\ hs \in Seq([name : X, value : X]) /\ Len(hs) \in Nat
      /\ hf \in Seq([name : X, value : X]) /\ i \in 1 .. Len(hs) /\ 1 \in 1 .. Len(hs)
  <2>1. hs \in Seq([name : X, value : X]) /\ Len(hs) \in Nat /\ i \in 1 .. Len(hs)
    BY <1>1, <1>4, RequestIs, SizesAre
  <2>2. hf \in Seq([name : X, value : X])
    BY <1>1, <1>4 DEF Built, HeadersBuilt
  <2> QED
    BY <2>1, <2>2
<1>6. /\ \A j \in 1 .. i - 1 : nm[j] # <<>>
      /\ nm[i] # <<>>
  BY <1>3, <1>4 DEF DeliveredTo, HeadersTo
<1>7. nm[1] # <<>>
  <2>1. 1 = i \/ 1 \in 1 .. i - 1
    BY <1>5
  <2> QED
    BY <1>6, <2>1
<1>8. Clean(hs, 1)
  BY DEF Clean
<1>9. 1 <= Len(hf)
  BY <1>2, <1>4, <1>5, <1>7, <1>8 DEF HeadersAre
<1> QED
  BY <1>4, <1>9, EmptySeq

(* The query that is taken apart is the client's.                          *)
LEMMA QueryIs ==
    ASSUME NEW q \in Seq(RequestUnits), q # <<>>
    PROVE  Contains(Url(q), "?") /\ QueryOf(Url(q)) = q
<1>1. PICK a, u : a = <<"/", "?">> /\ u = a \o q
  OBVIOUS
<1>2. Url(q) = u
  BY <1>1 DEF Url
<1>3. a \in Seq(RequestUnits) /\ Len(a) = 2 /\ a[1] = "/" /\ a[2] = "?"
  <2>1. "/" \in RequestUnits /\ "?" \in RequestUnits
    BY DEF RequestUnits
  <2> QED
    BY <1>1, <2>1
<1>4. Len(q) \in Nat
  BY LenProperties
<1>5. /\ u \in Seq(RequestUnits) /\ Len(u) = Len(q) + 2 /\ u[1] = "/" /\ u[2] = "?"
      /\ \A i \in 1 .. Len(q) : u[i + 2] = q[i]
  <2>0. a \in Seq(RequestUnits)
    BY <1>3
  <2>1. u \in Seq(RequestUnits) /\ Len(u) = Len(a) + Len(q)
    BY <1>1, <2>0, JoinedIs
  <2>2. \A i \in 1 .. Len(a) : u[i] = a[i]
    BY <1>1, <2>0, JoinedIs
  <2>3. \A i \in 1 .. Len(q) : u[Len(a) + i] = q[i]
    BY <1>1, <2>0, JoinedIs
  <2>4. 1 \in 1 .. Len(a) /\ 2 \in 1 .. Len(a)
    BY <1>3
  <2>5. u[1] = "/" /\ u[2] = "?"
    BY <1>3, <2>2, <2>4
  <2>6. \A i \in 1 .. Len(q) : u[i + 2] = q[i]
    <3>1. \A i \in 1 .. Len(q) : Len(a) + i = i + 2
      BY <1>3, <1>4
    <3> QED
      BY <2>3, <3>1
  <2>7. Len(u) = Len(q) + 2
    BY <1>3, <1>4, <2>1
  <2> QED
    BY <2>1, <2>5, <2>6, <2>7
<1>6. 1 \in 1 .. Len(u) /\ 2 \in 1 .. Len(u) /\ Len(u) \in Nat
  BY <1>4, <1>5
<1>7. Contains(u, "?")
  BY <1>5, <1>6 DEF Contains
<1>8. PICK I : I = {i \in 1 .. Len(u) : u[i] = "?"}
  OBVIOUS
<1>9. Min(I) = 2 /\ I # {}
  <2>1. 2 \in I /\ 1 \notin I /\ I \in SUBSET Nat
    BY <1>5, <1>6, <1>8
  <2>2. PICK m : m = Min(I)
    OBVIOUS
  <2>3. m \in I /\ \A y \in I : m <= y
    BY <2>1, <2>2, LeastIs
  <2>4. m \in 1 .. Len(u) /\ m # 1 /\ m <= 2
    BY <1>8, <2>1, <2>3
  <2>5. m = 2
    BY <1>6, <2>4
  <2> QED
    BY <2>1, <2>2, <2>5
<1>10. SelectInSeq(u, LAMBDA x : x = "?") = 2
  BY <1>8, <1>9 DEF SelectInSeq
<1>11. QueryOf(u) = SubSeq(u, 3, Len(u))
  BY <1>10 DEF QueryOf
<1>12. SubSeq(u, 3, Len(u)) = q
  <2>0. PICK two \in Nat : two = 2
    OBVIOUS
  <2>1. PICK v : v = SubSeq(u, two + 1, Len(u))
    OBVIOUS
  <2>2. /\ v \in Seq(RequestUnits) /\ Len(v) = IF two <= Len(u) THEN Len(u) - two ELSE 0
        /\ \A i \in 1 .. Len(u) - two : v[i] = u[two + i]
    BY <1>5, <1>6, <2>1, PartOf
  <2>3. Len(v) = Len(q) /\ \A i \in 1 .. Len(q) : i \in 1 .. Len(u) - two /\ two + i = i + 2
    BY <1>4, <1>5, <2>0, <2>2
  <2>4. \A i \in 1 .. Len(q) : v[i] = q[i]
    BY <1>5, <2>2, <2>3
  <2>5. v = q
    BY <2>2, <2>3, <2>4, SeqEqual
  <2> QED
    BY <2>0, <2>1, <2>5
<1> QED
  BY <1>2, <1>7, <1>11, <1>12

LEMMA EndBuilt ==
    ASSUME NEW n, NEW done, NEW n2, NEW done2, Arrives("end", n, done, n2, done2),
           NEW q2, Fields(q2), q2.url = req.url, q2.body = req.body,
           q2.header_fields = req.header_fields,
           Contains(req.url, "?") => q2.query_parameters = QueryParameters(QueryOf(req.url))
    PROVE  Built(sent, q2, n2, done2)
<1>1. /\ sent \in Requests /\ Progress(Elements(sent), rest, n, done)
      /\ Built(sent, req, n, done) /\ n \in Nat /\ n + 1 \in 1 .. Size(sent)
      /\ Elements(sent)[n + 1].kind = "end" /\ done \in [1 .. Size(sent) -> Texts]
  BY DEF Arrives
<1>2. PICK H, s, p : H = Len(sent.headers) /\ s = Size(sent) /\ p = EndAt(sent)
  OBVIOUS
<1>3. /\ H \in Nat /\ s \in Nat /\ p \in Nat /\ 2 * H + 2 <= p /\ p <= s
      /\ sent.body # <<>> => s = p + 1
  BY <1>1, <1>2, SizesAre
<1>4. n + 1 = p
  BY <1>1, <1>2, PositionOf
<1>5. \A e \in 1 .. s : e # p => done2[e] = done[e]
  <2>1. PICK b : b = done[n + 1] \o Part
    OBVIOUS
  <2>2. done2 = [done EXCEPT ![p] = b]
    BY <1>4, <2>1 DEF Arrives
  <2> QED
    BY <1>1, <1>2, <2>2
<1>6. HeadersBuilt(sent.headers, q2.header_fields, done2)
  <2>1. PICK nm, vl : /\ NamesAndValues(sent.headers, nm, vl, done)
                      /\ HeadersAre(sent.headers, req.header_fields, nm, vl)
    BY <1>1 DEF Built, HeadersBuilt
  <2>2. \A i \in 1 .. H : /\ 2 * i \in 1 .. s /\ 2 * i + 1 \in 1 .. s
                          /\ 2 * i # p /\ 2 * i + 1 # p
    BY <1>3
  <2>3. NamesAndValues(sent.headers, nm, vl, done2)
    BY <1>2, <1>5, <2>1, <2>2 DEF NamesAndValues
  <2> QED
    BY <1>1, <2>1, <2>3 DEF Built, HeadersBuilt
<1>7. /\ q2.url = done2[1]
      /\ q2.body = IF sent.body = <<>> THEN <<>> ELSE done2[s]
  <2>1. 1 \in 1 .. s /\ 1 # p /\ s \in 1 .. s /\ (sent.body # <<>> => s # p)
    BY <1>3
  <2>2. /\ req.url = done[1]
        /\ req.body = IF sent.body = <<>> THEN <<>> ELSE done[s]
    BY <1>1, <1>2 DEF Built
  <2> QED
    BY <1>5, <2>1, <2>2
<1>8. ASSUME sent.query # <<>>
      PROVE  q2.query_parameters = QueryParameters(sent.query)
  <2>1. PICK es : es = Elements(sent)
    OBVIOUS
  <2>2. Len(es) = s /\ es[1] = Element("url", Url(sent.query))
    BY <1>1, <1>2, <2>1, ElementsAre
  <2>3. 1 \in 1 .. s /\ 1 <= n
    BY <1>1, <1>3, <1>4
  <2>4. done[1] = es[1].text
    BY <1>1, <2>1, <2>2, <2>3 DEF Progress
  <2>5. req.url = Url(sent.query)
    <3>1. req.url = done[1]
      BY <1>1 DEF Built
    <3> QED
      BY <2>2, <2>4, <3>1 DEF Element
  <2>6. sent.query \in Seq(RequestUnits)
    BY <1>1, RequestIs DEF Texts
  <2>7. Contains(req.url, "?") /\ QueryOf(req.url) = sent.query
    BY <1>8, <2>5, <2>6, QueryIs
  <2> QED
    BY <2>7
<1>9. ~sent.bad
  <2>1. sent.bad => n < p - 1
    BY <1>1, <1>2 DEF Built
  <2> QED
    BY <1>1, <1>3, <1>4, <2>1
<1> QED
  BY <1>2, <1>6, <1>7, <1>8, <1>9 DEF Built

-----------------------------------------------------------------------------
(* HttpRequest: what a handler sees                                        *)

LEMMA UrlKeeps ==
    ASSUME RequestInv, OnUrl
    PROVE  RequestInv'
<1>1. PICK changed : changed = [req EXCEPT !.url = @ \o Part]
  OBVIOUS
<1>2. Parsed("url", changed)
  BY <1>1 DEF OnUrl
<1>3. piece' \in Nat /\ req.state # "complete"
  BY <1>2, CallbackFor
<1>4. PICK n, done, n2, done2 : /\ Arrives("url", n, done, n2, done2)
                                /\ Progress(Elements(sent), rest', n2, done2)
  BY <1>2, CallbackFor
<1>5. /\ sent \in Requests /\ Built(sent, req, n, done) /\ n \in Nat
      /\ n + 1 \in 1 .. Size(sent) /\ n2 \in {n, n + 1} /\ Elements(sent)[n + 1].kind = "url"
      /\ done \in [1 .. Size(sent) -> Texts] /\ done2 = [done EXCEPT ![n + 1] = done[n + 1] \o Part]
  BY <1>4 DEF Arrives
<1>6. n = 0
  <2>1. n + 1 = 1
    BY <1>5, PositionOf
  <2> QED
    BY <1>5, <2>1
<1>7. Built(sent, changed, n2, done2)
  BY <1>1, <1>5, <1>6, UrlBuilt
<1>8. changed.state = req.state
  BY <1>1, <1>5 DEF Built, Fields
<1> QED
  BY <1>2, <1>3, <1>4, <1>7, <1>8, CalledBack

LEMMA NameKeeps ==
    ASSUME RequestInv, OnHeaderField
    PROVE  RequestInv'
<1>1. PICK hf, changed :
          /\ hf = req.header_fields
          /\ changed = IF Part = <<>> THEN req
                       ELSE IF IsNewField
                       THEN [req EXCEPT !.header_fields = Append(@, Header(Part, <<>>))]
                       ELSE [req EXCEPT !.header_fields[Len(req.header_fields)].name = @ \o Part]
  OBVIOUS
<1>2. Parsed("name", changed)
  BY <1>1 DEF OnHeaderField
<1>3. piece' \in Nat /\ req.state # "complete"
  BY <1>2, CallbackFor
<1>4. PICK n, done, n2, done2 : /\ Arrives("name", n, done, n2, done2)
                                /\ Progress(Elements(sent), rest', n2, done2)
  BY <1>2, CallbackFor
<1>5. /\ sent \in Requests /\ Progress(Elements(sent), rest, n, done)
      /\ Built(sent, req, n, done) /\ n \in Nat /\ n + 1 \in 1 .. Size(sent)
      /\ n2 \in {n, n + 1} /\ Elements(sent)[n + 1].kind = "name"
      /\ done \in [1 .. Size(sent) -> Texts]
      /\ done2 = [done EXCEPT ![n + 1] = done[n + 1] \o Part]
  BY <1>4 DEF Arrives
<1>6. PICK i \in 1 .. Len(sent.headers) : n + 1 = 2 * i
  BY <1>5, PositionOf
<1>7. Fields(req) /\ hf \in Seq([name : Texts, value : Texts])
  BY <1>1, <1>5 DEF Built, HeadersBuilt
<1>8. CASE Part = <<>>
  <2>1. changed = req
    BY <1>1, <1>8
  <2>2. done2 = done
    <3>1. done[n + 1] \in Texts
      BY <1>5
    <3>2. done[n + 1] \o Part = done[n + 1]
      BY <1>8, <3>1, ConcatEmptySeq DEF Texts
    <3> QED
      BY <1>5, <3>2
  <2>3. HeaderAt(sent, n, done, rest, i)
    BY <1>5, <1>6 DEF HeaderAt
  <2>4. OnlyHeaders(req, req) /\ HeadersBuilt(sent.headers, req.header_fields, done)
    BY <1>5 DEF Built, OnlyHeaders
  <2>5. /\ Elements(sent)[n + 1].kind \in {"name", "value"}
        /\ \A e \in 1 .. Size(sent) : e # n + 1 => done[e] = done[e]
    BY <1>5
  <2>6. Built(sent, req, n2, done)
    BY <1>5, <2>3, <2>4, <2>5, HeadersGo
  <2> QED
    BY <1>2, <1>3, <1>4, <2>1, <2>2, <2>6, CalledBack
<1>9. CASE Part # <<>>
  <2>1. OnlyHeaders(req, changed) /\ changed.header_fields = NameAdded(hf, Part)
        /\ changed.state = req.state
    <3>1. IsNewField <=> hf = <<>> \/ Last(hf).value # <<>>
      BY <1>1 DEF IsNewField
    <3>2. CASE IsNewField
      <4>1. PICK fields : fields = Append(hf, Header(Part, <<>>))
        OBVIOUS
      <4>2. changed = [req EXCEPT !.header_fields = fields]
        BY <1>1, <1>9, <3>2, <4>1
      <4>3. NameAdded(hf, Part) = fields
        BY <3>1, <3>2, <4>1 DEF NameAdded
      <4> QED
        BY <1>7, <4>2, <4>3 DEF Fields, OnlyHeaders
    <3>3. CASE ~IsNewField
      <4>1. PICK k, fields : k = Len(hf) /\ fields = [hf EXCEPT ![k].name = @ \o Part]
        OBVIOUS
      <4>2. changed = [req EXCEPT !.header_fields = fields]
        BY <1>1, <1>7, <1>9, <3>3, <4>1 DEF Fields
      <4>3. NameAdded(hf, Part) = fields
        <5>1. hf # <<>>
          BY <3>1, <3>3
        <5>2. k \in 1 .. Len(hf)
          BY <1>7, <4>1, <5>1, EmptySeq, LenProperties
        <5>3. PICK texts : texts = Texts
          OBVIOUS
        <5>4. hf[k] \in [name : texts, value : texts]
          BY <1>7, <5>2, <5>3, ElementOfSeq
        <5>5. [hf[k] EXCEPT !.name = @ \o Part] = Header(hf[k].name \o Part, hf[k].value)
          <6>1. PICK h, text : h = hf[k] /\ text = h.name \o Part
            OBVIOUS
          <6>2. h \in [name : texts, value : texts]
            BY <5>4, <6>1
          <6>3. [h EXCEPT !.name = text] = Header(text, h.value)
            BY <6>2 DEF Header
          <6> QED
            BY <6>1, <6>3
        <5>6. fields = [hf EXCEPT ![k] = [hf[k] EXCEPT !.name = @ \o Part]]
          BY <1>7, <4>1, <5>2
        <5>7. NameAdded(hf, Part) = [hf EXCEPT ![k] = Header(hf[k].name \o Part, hf[k].value)]
          BY <3>1, <3>3, <4>1 DEF NameAdded
        <5> QED
          BY <5>5, <5>6, <5>7
      <4> QED
        BY <1>7, <4>2, <4>3 DEF Fields, OnlyHeaders
    <3> QED
      BY <3>2, <3>3
  <2>2. Built(sent, changed, n2, done2)
    BY <1>1, <1>4, <1>6, <1>9, <2>1, NameBuilt
  <2> QED
    BY <1>2, <1>3, <1>4, <2>1, <2>2, CalledBack
<1> QED
  BY <1>8, <1>9

LEMMA ValueKeeps ==
    ASSUME RequestInv, OnHeaderValue
    PROVE  RequestInv'
<1>1. PICK hf, k, changed :
          /\ hf = req.header_fields /\ k = Len(hf)
          /\ changed = [req EXCEPT !.header_fields[k].value = @ \o Part]
  OBVIOUS
<1>2. Parsed("value", changed)
  BY <1>1 DEF OnHeaderValue
<1>3. piece' \in Nat /\ req.state # "complete"
  BY <1>2, CallbackFor
<1>4. PICK n, done, n2, done2 : /\ Arrives("value", n, done, n2, done2)
                                /\ Progress(Elements(sent), rest', n2, done2)
  BY <1>2, CallbackFor
<1>5. /\ sent \in Requests /\ Progress(Elements(sent), rest, n, done)
      /\ Built(sent, req, n, done) /\ n \in Nat /\ n + 1 \in 1 .. Size(sent)
      /\ Elements(sent)[n + 1].kind = "value"
  BY <1>4 DEF Arrives
<1>6. PICK i \in 1 .. Len(sent.headers) : n + 1 = 2 * i + 1
  BY <1>5, PositionOf
<1>7. Fields(req) /\ hf \in Seq([name : Texts, value : Texts])
  BY <1>1, <1>5 DEF Built, HeadersBuilt
<1>8. hf # <<>>
  BY <1>1, <1>4, <1>6, ValueHasName
<1>9. OnlyHeaders(req, changed) /\ changed.header_fields = ValueAdded(hf, Part)
      /\ changed.state = req.state
  <2>1. PICK fields : fields = [hf EXCEPT ![k].value = @ \o Part]
    OBVIOUS
  <2>2. changed = [req EXCEPT !.header_fields = fields]
    BY <1>1, <1>7, <2>1 DEF Fields
  <2>3. ValueAdded(hf, Part) = fields
    <3>1. k \in 1 .. Len(hf)
      BY <1>1, <1>7, <1>8, EmptySeq, LenProperties
    <3>2. PICK texts : texts = Texts
      OBVIOUS
    <3>3. hf[k] \in [name : texts, value : texts]
      BY <1>7, <3>1, <3>2, ElementOfSeq
    <3>4. [hf[k] EXCEPT !.value = @ \o Part] = Header(hf[k].name, hf[k].value \o Part)
      <4>1. PICK h, text : h = hf[k] /\ text = h.value \o Part
        OBVIOUS
      <4>2. h \in [name : texts, value : texts]
        BY <3>3, <4>1
      <4>3. [h EXCEPT !.value = text] = Header(h.name, text)
        BY <4>2 DEF Header
      <4> QED
        BY <4>1, <4>3
    <3>5. fields = [hf EXCEPT ![k] = [hf[k] EXCEPT !.value = @ \o Part]]
      BY <1>7, <2>1, <3>1
    <3>6. ValueAdded(hf, Part) = [hf EXCEPT ![k] = Header(hf[k].name, hf[k].value \o Part)]
      BY <1>1 DEF ValueAdded
    <3> QED
      BY <3>4, <3>5, <3>6
  <2> QED
    BY <1>7, <2>2, <2>3 DEF Fields, OnlyHeaders
<1>10. Built(sent, changed, n2, done2)
  BY <1>1, <1>4, <1>6, <1>9, ValueBuilt
<1> QED
  BY <1>2, <1>3, <1>4, <1>9, <1>10, CalledBack

LEMMA BodyKeeps ==
    ASSUME RequestInv, OnBody
    PROVE  RequestInv'
<1>1. PICK changed : changed = [req EXCEPT !.body = @ \o Part]
  OBVIOUS
<1>2. Parsed("body", changed)
  BY <1>1 DEF OnBody
<1>3. piece' \in Nat /\ req.state # "complete"
  BY <1>2, CallbackFor
<1>4. PICK n, done, n2, done2 : /\ Arrives("body", n, done, n2, done2)
                                /\ Progress(Elements(sent), rest', n2, done2)
  BY <1>2, CallbackFor
<1>5. /\ sent \in Requests /\ Built(sent, req, n, done) /\ n \in Nat
      /\ n + 1 \in 1 .. Size(sent) /\ n2 \in {n, n + 1} /\ Elements(sent)[n + 1].kind = "body"
      /\ done \in [1 .. Size(sent) -> Texts] /\ done2 = [done EXCEPT ![n + 1] = done[n + 1] \o Part]
  BY <1>4 DEF Arrives
<1>6. n + 1 = Size(sent) /\ sent.body # <<>>
  BY <1>5, PositionOf
<1>7. Built(sent, changed, n2, done2)
  BY <1>1, <1>5, <1>6, BodyBuilt
<1>8. changed.state = req.state
  BY <1>1, <1>5 DEF Built, Fields
<1> QED
  BY <1>2, <1>3, <1>4, <1>7, <1>8, CalledBack

LEMMA EndKeeps ==
    ASSUME RequestInv, OnHeadersComplete
    PROVE  RequestInv'
<1>1. PICK changed :
          changed = IF Contains(req.url, "?")
                    THEN [req EXCEPT !.path = <<"/">>,
                                     !.query_parameters = QueryParameters(QueryOf(req.url))]
                    ELSE [req EXCEPT !.path = req.url]
  OBVIOUS
<1>2. Parsed("end", changed)
  BY <1>1 DEF OnHeadersComplete
<1>3. piece' \in Nat /\ req.state # "complete"
  BY <1>2, CallbackFor
<1>4. PICK n, done, n2, done2 : /\ Arrives("end", n, done, n2, done2)
                                /\ Progress(Elements(sent), rest', n2, done2)
  BY <1>2, CallbackFor
<1>5. Fields(req)
  BY <1>4 DEF Arrives, Built
<1>6. /\ Fields(changed) /\ changed.url = req.url /\ changed.body = req.body
      /\ changed.header_fields = req.header_fields /\ changed.state = req.state
      /\ Contains(req.url, "?") => changed.query_parameters = QueryParameters(QueryOf(req.url))
  <2>1. PICK parameters : parameters = QueryParameters(QueryOf(req.url))
    OBVIOUS
  <2>2. CASE Contains(req.url, "?")
    <3>1. changed = [req EXCEPT !.path = <<"/">>, !.query_parameters = parameters]
      BY <1>1, <2>1, <2>2
    <3> QED
      BY <1>5, <2>1, <3>1 DEF Fields
  <2>3. CASE ~Contains(req.url, "?")
    <3>1. changed = [req EXCEPT !.path = req.url]
      BY <1>1, <2>3
    <3> QED
      BY <1>5, <2>3, <3>1 DEF Fields
  <2> QED
    BY <2>2, <2>3
<1>7. Built(sent, changed, n2, done2)
  BY <1>4, <1>6, EndBuilt
<1> QED
  BY <1>2, <1>3, <1>4, <1>6, <1>7, CalledBack

LEMMA RequestBegins ==
    ASSUME RequestInit
    PROVE  RequestInv
<1>1. PICK es, done : es = Elements(sent) /\ done = [e \in 1 .. Size(sent) |-> <<>>]
  OBVIOUS
<1>2. /\ sent \in Requests /\ rest = es /\ piece = 0 /\ req = NewRequest
  BY <1>1 DEF RequestInit
<1>3. /\ es \in Seq(ElementSet) /\ Len(es) = Size(sent) /\ <<>> \in Texts
      /\ \A e \in 1 .. Size(sent) : done[e] = <<>>
  BY <1>1, <1>2, ElementsAre, TextsJoin DEF Joined
<1>4. PICK H, s, p : H = Len(sent.headers) /\ s = Size(sent) /\ p = EndAt(sent)
  OBVIOUS
<1>5. /\ H \in Nat /\ s \in Nat /\ p \in Nat /\ 2 * H + 2 <= p /\ p <= s
      /\ sent.bad => 2 * H + 2 <= p - 1
  BY <1>2, <1>4, SizesAre
<1>6. 1 \in 1 .. s /\ s \in 1 .. s /\ ~(0 >= p) /\ (sent.bad => 0 < p - 1)
  BY <1>5
<1>7. Progress(es, rest, 0, done)
  <2>1. es[1].kind = es[0 + 1].kind /\ <<>> \o es[1].text = es[0 + 1].text
    <3>1. es[1] \in ElementSet
      BY <1>3, <1>4, <1>6, ElementOfSeq
    <3>2. es[1].text \in Seq(RequestUnits)
      BY <3>1 DEF ElementSet, Texts
    <3> QED
      BY <3>2, ConcatEmptySeq
  <2>2. done \in [1 .. Len(es) -> Texts] /\ done[0 + 1] = <<>>
    BY <1>1, <1>3, <1>4, <1>6
  <2>3. 0 \in 0 .. Len(es) /\ Len(rest) = Len(es) - 0 /\ rest \in Seq(ElementSet)
    BY <1>2, <1>3, <1>4, <1>5
  <2>4. \A i \in 2 .. Len(rest) : rest[i] = es[0 + i]
    BY <1>2, <1>3, <1>4, <1>5
  <2>5. \A e \in 1 .. Len(es) : ~(e <= 0) /\ done[e] = <<>>
    BY <1>3, <1>4, <1>5
  <2> QED
    BY <1>2, <2>1, <2>2, <2>3, <2>4, <2>5 DEF Progress
<1>8. HeadersBuilt(sent.headers, <<>>, done)
  <2>1. PICK nm : nm = [i \in 1 .. Len(sent.headers) |-> <<>>]
    OBVIOUS
  <2>2. nm \in [1 .. Len(sent.headers) -> Texts] /\ \A i \in 1 .. Len(sent.headers) : nm[i] = <<>>
    BY <1>3, <2>1
  <2>3. NamesAndValues(sent.headers, nm, nm, done)
    <3>1. \A i \in 1 .. H : 2 * i \in 1 .. s /\ 2 * i + 1 \in 1 .. s
      BY <1>5
    <3> QED
      BY <1>3, <1>4, <2>2, <3>1 DEF NamesAndValues
  <2>4. HeadersAre(sent.headers, <<>>, nm, nm)
    <3>1. Len(<<>>) = 0 /\ \A i \in 1 .. H : ~(i <= 0) /\ 0 <= i
      BY <1>5
    <3> QED
      BY <1>4, <2>2, <3>1 DEF HeadersAre
  <2>5. <<>> \in Seq([name : Texts, value : Texts])
    OBVIOUS
  <2> QED
    BY <2>3, <2>4, <2>5 DEF HeadersBuilt
<1>9. Built(sent, req, 0, done)
  <2>1. /\ Fields(req) /\ req.header_fields = <<>> /\ req.url = <<>> /\ req.body = <<>>
        /\ req.state = "incomplete"
    BY <1>2 DEF NewRequest, Fields
  <2>2. done[1] = <<>> /\ done[s] = <<>>
    BY <1>3, <1>4, <1>6
  <2> QED
    BY <1>4, <1>6, <1>8, <2>1, <2>2 DEF Built
<1>10. req.state # "complete" /\ piece \in Nat
  BY <1>2 DEF NewRequest
<1> QED
  BY <1>1, <1>2, <1>7, <1>9, <1>10 DEF RequestInv

LEMMA RequestKeeps ==
    ASSUME RequestInv, RequestNext
    PROVE  RequestInv'
<1>1. CASE \E n \in Pieces : ReadFrom(n)
  BY <1>1, RequestAssumption DEF ReadFrom, RequestInv
<1>2. CASE OnError
  BY <1>2 DEF OnError, RequestInv
<1> QED
  BY <1>1, <1>2, UrlKeeps, NameKeeps, ValueKeeps, EndKeeps, BodyKeeps DEF RequestNext

(* All of the request was called back for when it is complete.             *)
LEMMA AllArrived ==
    ASSUME RequestInv, req.state = "complete"
    PROVE  \E done : /\ Built(sent, req, Size(sent), done)
                     /\ \A e \in 1 .. Size(sent) : done[e] = Elements(sent)[e].text
<1>1. PICK n, done : Progress(Elements(sent), rest, n, done) /\ Built(sent, req, n, done)
  BY DEF RequestInv
<1>2. PICK es : es = Elements(sent)
  OBVIOUS
<1>3. Len(es) = Size(sent) /\ Size(sent) \in Nat /\ Len(rest) = 0
  BY <1>2, ElementsAre, SizesAre, EmptySeq DEF RequestInv
<1>4. /\ n \in 0 .. Len(es) /\ Len(rest) = Len(es) - n
      /\ \A e \in 1 .. Len(es) : e <= n => done[e] = es[e].text
  BY <1>1, <1>2 DEF Progress
<1>5. n = Size(sent)
  BY <1>3, <1>4
<1>6. \A e \in 1 .. Size(sent) : done[e] = es[e].text
  BY <1>3, <1>4, <1>5
<1> QED
  BY <1>1, <1>2, <1>5, <1>6

AllDelivered(hs, nm, vl) ==
    \A i \in 1 .. Len(hs) : nm[i] = hs[i].name /\ nm[i] # <<>> /\ vl[i] = hs[i].value

(* The headers some are seen as they were sent.                            *)
ExactTo(hs, exact, some) ==
    /\ exact = Min({Len(hs)} \cup WithoutValue(hs))
    /\ some = IF exact \in WithoutValue(hs) /\ exact < Len(hs) THEN exact - 1 ELSE exact

(* All names and values delivered, the fields are the headers before the   *)
(* first one without a value, and all if there is none behind it.          *)
LEMMA HeadersExact ==
    ASSUME NEW X, NEW hs \in Seq([name : X, value : X]), NEW hf \in Seq([name : X, value : X]),
           NEW nm, NEW vl, HeadersAre(hs, hf, nm, vl), AllDelivered(hs, nm, vl),
           NEW exact, NEW some, ExactTo(hs, exact, some)
    PROVE  /\ SubSeq(hf, 1, some) = SubSeq(hs, 1, some)
           /\ some = Len(hs) => Len(hf) = some
<1>1. Len(hs) \in Nat /\ Len(hf) \in Nat
  BY LenProperties
<1>2. PICK W, S : W = WithoutValue(hs) /\ S = {Len(hs)} \cup W
  OBVIOUS
<1>3. \A i : i \in W <=> i \in 1 .. Len(hs) /\ hs[i].value = <<>>
  BY <1>1, <1>2 DEF WithoutValue
<1>4. exact \in S /\ \A y \in S : exact <= y
  <2>1. S \in SUBSET Nat /\ S # {}
    BY <1>1, <1>2, <1>3
  <2> QED
    BY <1>2, <2>1, LeastIs DEF ExactTo
<1>5. exact \in 0 .. Len(hs) /\ exact \in Nat
  BY <1>1, <1>2, <1>3, <1>4
<1>6. \A i \in 1 .. Len(hs) : i < exact => hs[i].value # <<>>
  <2>1. ASSUME NEW i \in 1 .. Len(hs), i < exact, hs[i].value = <<>>
        PROVE  FALSE
    <3>1. i \in S
      BY <1>2, <1>3, <2>1
    <3>2. exact <= i
      BY <1>4, <3>1
    <3> QED
      BY <1>1, <1>5, <2>1, <3>2
  <2> QED
    BY <2>1
<1>7. \A i \in 1 .. Len(hs) : i <= exact => Clean(hs, i)
  <2>1. ASSUME NEW i \in 1 .. Len(hs), i <= exact, NEW j \in 1 .. i - 1
        PROVE  hs[j].value # <<>>
    <3>1. j \in 1 .. Len(hs) /\ j < exact
      BY <1>1, <1>5, <2>1
    <3> QED
      BY <1>6, <3>1
  <2> QED
    BY <2>1 DEF Clean
<1>8. /\ some \in 0 .. exact /\ some \in Nat
      /\ (exact \in W /\ exact < Len(hs)) \/ some = exact
      /\ exact \in W /\ exact < Len(hs) => some = exact - 1
  BY <1>2, <1>3, <1>5 DEF ExactTo
<1>9. ASSUME NEW i \in 1 .. some
      PROVE  i \in 1 .. Len(hs) /\ i <= Len(hf) /\ hf[i] = hs[i]
  <2>1. i \in 1 .. Len(hs) /\ i <= exact
    BY <1>1, <1>5, <1>8
  <2>2. /\ Clean(hs, i) /\ nm[i] # <<>> /\ nm[i] = hs[i].name /\ vl[i] = hs[i].value
    BY <1>7, <2>1 DEF AllDelivered
  <2>3. i <= Len(hf)
    BY <2>1, <2>2 DEF HeadersAre
  <2>4. i = Len(hs) \/ hs[i].value # <<>>
    <3>1. CASE i < exact
      BY <1>6, <2>1, <3>1
    <3>2. CASE i = exact
      <4>1. i = some
        BY <1>8, <3>2
      <4>2. ~(exact \in W /\ exact < Len(hs))
        BY <1>5, <1>8, <3>2, <4>1
      <4> QED
        BY <1>1, <1>3, <2>1, <3>2, <4>2
    <3> QED
      BY <1>5, <2>1, <3>1, <3>2
  <2>5. hf[i] = Header(nm[i], vl[i])
    BY <2>1, <2>2, <2>3, <2>4 DEF HeadersAre
  <2>6. hs[i] = Header(hs[i].name, hs[i].value)
    <3>1. hs[i] \in [name : X, value : X]
      BY <2>1, ElementOfSeq
    <3> QED
      BY <3>1 DEF Header
  <2> QED
    BY <2>1, <2>2, <2>3, <2>5, <2>6
<1>10. some <= Len(hs) /\ some <= Len(hf)
  <2>1. CASE some = 0
    BY <1>1, <2>1
  <2>2. CASE some # 0
    <3>1. some \in 1 .. some
      BY <1>8, <2>2
    <3> QED
      BY <1>1, <1>5, <1>8, <1>9, <3>1
  <2> QED
    BY <2>1, <2>2
<1>11. SubSeq(hf, 1, some) = SubSeq(hs, 1, some)
  <2>1. \A i \in 1 .. some : hf[i] = hs[i]
    BY <1>9
  <2> QED
    BY <1>1, <1>8, <1>10, <2>1
<1>12. ASSUME some = Len(hs)
       PROVE  Len(hf) = some
  <2>1. CASE Len(hs) = 0
    <3>1. hs = <<>>
      BY <2>1, EmptySeq
    <3>2. hf = <<>>
      BY <3>1 DEF HeadersAre
    <3> QED
      BY <1>12, <2>1, <3>2
  <2>2. CASE Len(hs) # 0
    <3>1. Len(hs) \in 1 .. Len(hs) /\ Len(hs) <= exact
      BY <1>1, <1>8, <1>12, <2>2
    <3>2. Clean(hs, Len(hs))
      BY <1>7, <3>1
    <3>3. Len(hf) <= Len(hs)
      BY <3>1, <3>2 DEF HeadersAre
    <3> QED
      BY <1>1, <1>10, <1>12, <3>3
  <2> QED
    BY <2>1, <2>2
<1> QED
  BY <1>11, <1>12

LEMMA RequestIsThere ==
    ASSUME RequestInv
    PROVE  RequestIsExact
<1>1. CASE req.state # "complete"
  BY <1>1 DEF RequestIsExact
<1>2. CASE req.state = "complete"
  <2>1. PICK done : /\ Built(sent, req, Size(sent), done)
                    /\ \A e \in 1 .. Size(sent) : done[e] = Elements(sent)[e].text
    BY <1>2, AllArrived
  <2>2. sent \in Requests
    BY DEF RequestInv
  <2>3. PICK hs, hf, H, s, p, X : /\ hs = sent.headers /\ hf = req.header_fields /\ H = Len(hs)
                                  /\ s = Size(sent) /\ p = EndAt(sent) /\ X = Texts
    OBVIOUS
  <2>4. /\ H \in Nat /\ s \in Nat /\ p \in Nat /\ 2 * H + 2 <= p /\ p <= s
        /\ 1 \in 1 .. s /\ s \in 1 .. s
    BY <2>2, <2>3, SizesAre
  <2>5. ~sent.bad
    <3>1. sent.bad => s < p - 1
      BY <2>1, <2>3 DEF Built
    <3> QED
      BY <2>4, <3>1
  <2>6. PICK es : es = Elements(sent)
    OBVIOUS
  <2>7. /\ es[1] = Element("url", Url(sent.query))
        /\ \A i \in 1 .. H : /\ es[2 * i] = Element("name", hs[i].name)
                             /\ es[2 * i + 1] = Element("value", hs[i].value)
        /\ sent.body # <<>> => es[s] = Element("body", sent.body)
    BY <2>2, <2>3, <2>6, ElementsAre
  <2>8. \A kind, text : Element(kind, text).text = text
    BY DEF Element
  <2>9. req.url = Url(sent.query)
    <3>1. req.url = done[1] /\ done[1] = es[1].text
      BY <2>1, <2>3, <2>4, <2>6 DEF Built
    <3> QED
      BY <2>7, <2>8, <3>1
  <2>10. req.body = sent.body
    <3>1. req.body = IF sent.body = <<>> THEN <<>> ELSE done[s]
      BY <2>1, <2>3 DEF Built
    <3>2. done[s] = es[s].text
      BY <2>1, <2>3, <2>4, <2>6
    <3> QED
      BY <2>7, <2>8, <3>1, <3>2
  <2>11. PICK nm, vl : NamesAndValues(hs, nm, vl, done) /\ HeadersAre(hs, hf, nm, vl)
    BY <2>1, <2>3 DEF Built, HeadersBuilt
  <2>12. /\ hs \in Seq([name : X, value : X]) /\ hf \in Seq([name : X, value : X])
         /\ \A i \in 1 .. Len(hs) : hs[i].name # <<>>
    <3>1. /\ hs \in Seq([name : Texts, value : Texts])
          /\ \A i \in 1 .. Len(hs) : hs[i].name # <<>>
      BY <2>2, <2>3, RequestIs
    <3>2. hf \in Seq([name : Texts, value : Texts])
      BY <2>1, <2>3 DEF Built, HeadersBuilt
    <3> QED
      BY <2>3, <3>1, <3>2
  <2>13. ASSUME NEW i \in 1 .. H
         PROVE  nm[i] = hs[i].name /\ nm[i] # <<>> /\ vl[i] = hs[i].value
    <3>1. PICK a, b : a = 2 * i /\ b = 2 * i + 1
      OBVIOUS
    <3>2. a \in 1 .. s /\ b \in 1 .. s
      BY <2>4, <3>1
    <3>3. nm[i] = done[a] /\ vl[i] = done[b]
      BY <2>3, <2>11, <3>1 DEF NamesAndValues
    <3>4. done[a] = es[a].text /\ done[b] = es[b].text
      BY <2>1, <2>3, <2>6, <3>2
    <3>5. es[a] = Element("name", hs[i].name) /\ es[b] = Element("value", hs[i].value)
      BY <2>7, <3>1
    <3>6. hs[i].name # <<>>
      BY <2>3, <2>12
    <3> QED
      BY <2>8, <3>3, <3>4, <3>5, <3>6
  <2>14. PICK exact : exact = Min({Len(hs)} \cup WithoutValue(hs))
    OBVIOUS
  <2>15. PICK some : some = IF exact \in WithoutValue(hs) /\ exact < Len(hs)
                            THEN exact - 1 ELSE exact
    OBVIOUS
  <2>16. /\ SubSeq(hf, 1, some) = SubSeq(hs, 1, some)
         /\ some = Len(hs) => Len(hf) = some
    <3>1. AllDelivered(hs, nm, vl)
      BY <2>3, <2>13 DEF AllDelivered
    <3>2. ExactTo(hs, exact, some)
      BY <2>14, <2>15 DEF ExactTo
    <3>3. HeadersAre(hs, hf, nm, vl)
      BY <2>11
    <3> QED
      BY <2>12, <3>1, <3>2, <3>3, HeadersExact
  <2> QED
    BY <2>3, <2>5, <2>9, <2>10, <2>14, <2>15, <2>16, Zenon DEF RequestIsExact
<1> QED
  BY <1>1, <1>2

LEMMA RequestInvariant == RequestSpec => []RequestInv
<1>1. RequestInit => RequestInv
  BY RequestBegins
<1>2. RequestInv /\ [RequestNext]_requestVars => RequestInv'
  <2>1. CASE UNCHANGED requestVars
    BY <2>1 DEF requestVars, RequestInv
  <2> QED
    BY <2>1, RequestKeeps
<1> QED
  BY <1>1, <1>2, PTL DEF RequestSpec

(* However a request was cut, a handler sees its url and its body, and the *)
(* headers in front of the first one with an empty value: all of them when *)
(* none has, or only the last.  An erroneous request is never complete.    *)
THEOREM RequestsAreExact == RequestSpec => []RequestIsExact
<1>1. RequestInv => RequestIsExact
  BY RequestIsThere
<1> QED
  BY <1>1, RequestInvariant, PTL

-----------------------------------------------------------------------------
(* HttpRequest: the query taken apart                                      *)

Parameters(U) == [name : Seq(U), value : Seq(U)]
Cursors(U) == [kv : Parameters(U), text : Seq(U), parameters : Seq(Parameters(U))]

LEMMA DecodedIs ==
    ASSUME NEW U, "&" \in U, NEW text \in Seq(U)
    PROVE  decode_uri_escape_sequences(text) \in Seq(U)
<1>1. Len(text) \in Nat /\ text \in [1 .. Len(text) -> U] /\ DOMAIN text = 1 .. Len(text)
  BY LenProperties
<1>2. PICK t : t = [i \in 1 .. Len(text) |-> IF text[i] = "%26" THEN "&" ELSE text[i]]
  OBVIOUS
<1>3. t \in [1 .. Len(text) -> U]
  BY <1>1, <1>2
<1>4. t \in Seq(U)
  BY <1>1, <1>3
<1> QED
  BY <1>1, <1>2, <1>4 DEF decode_uri_escape_sequences

(* What is decoded stays as it is when it is decoded again.                *)
LEMMA DecodedTwice ==
    ASSUME NEW U, "&" \in U, NEW text \in Seq(U)
    PROVE  decode_uri_escape_sequences(decode_uri_escape_sequences(text))
              = decode_uri_escape_sequences(text)
<1>1. PICK once : once = decode_uri_escape_sequences(text)
  OBVIOUS
<1>2. Len(text) \in Nat /\ DOMAIN text = 1 .. Len(text)
  BY LenProperties
<1>3. once = [i \in 1 .. Len(text) |-> IF text[i] = "%26" THEN "&" ELSE text[i]]
  BY <1>1, <1>2 DEF decode_uri_escape_sequences
<1>4. DOMAIN once = 1 .. Len(text) /\ \A i \in 1 .. Len(text) : once[i] # "%26"
  BY <1>3
<1>5. once = [i \in DOMAIN once |-> IF once[i] = "%26" THEN "&" ELSE once[i]]
  BY <1>3, <1>4
<1> QED
  BY <1>1, <1>5 DEF decode_uri_escape_sequences

(* What stands before a "&" goes into a parameter.                         *)
LEMMA ValueEnds ==
    ASSUME NEW U, "&" \in U, NEW p \in Cursors(U)
    PROVE  \E kv \in Parameters(U) :
              /\ kv = Decoded(Header(p.kv.name, p.text))
              /\ EndOfValue(p) = [kv |-> kv, text |-> <<>>, parameters |-> Append(p.parameters, kv)]
<1>1. PICK X, P : X = Seq(U) /\ P = Seq(Parameters(U))
  OBVIOUS
<1>2. p.kv \in [name : X, value : X] /\ p.text \in X /\ p.parameters \in P
  BY <1>1 DEF Cursors, Parameters
<1>3. [p.kv EXCEPT !.value = p.text] = Header(p.kv.name, p.text)
  BY <1>2 DEF Header
<1>4. PICK kv : kv = Decoded(Header(p.kv.name, p.text))
  OBVIOUS
<1>5. PICK name, value : /\ name = decode_uri_escape_sequences(p.kv.name)
                         /\ value = decode_uri_escape_sequences(p.text)
  OBVIOUS
<1>6. name \in X /\ value \in X
  BY <1>1, <1>2, <1>5, DecodedIs
<1>7. kv = [name |-> name, value |-> value]
  BY <1>4, <1>5 DEF Decoded, Header
<1>8. kv \in Parameters(U)
  BY <1>1, <1>6, <1>7 DEF Parameters
<1>9. EndOfValue(p) = [kv |-> kv, text |-> <<>>, parameters |-> Append(p.parameters, kv)]
  BY <1>3, <1>4 DEF EndOfValue
<1> QED
  BY <1>4, <1>8, <1>9

LEMMA CursorMoves ==
    ASSUME NEW U, "&" \in U, NEW p \in Cursors(U), NEW u \in U
    PROVE  /\ Cursor(p, u) \in Cursors(U)
           /\ u = "=" => /\ Cursor(p, u).kv.name = p.text /\ Cursor(p, u).text = <<>>
                         /\ Cursor(p, u).parameters = p.parameters
           /\ u = "&" => /\ Cursor(p, u).text = <<>>
                         /\ Cursor(p, u).kv = Decoded(Header(p.kv.name, p.text))
                         /\ Cursor(p, u).parameters
                               = Append(p.parameters, Decoded(Header(p.kv.name, p.text)))
           /\ u \notin {"=", "&"} => /\ Cursor(p, u).text = Append(p.text, u)
                                     /\ Cursor(p, u).kv = p.kv
                                     /\ Cursor(p, u).parameters = p.parameters
<1>1. PICK X, P, K : X = Seq(U) /\ P = Seq(K) /\ K = Parameters(U)
  OBVIOUS
<1>2. /\ p.kv \in K /\ p.text \in X /\ p.parameters \in P /\ <<>> \in X
      /\ K = [name : X, value : X] /\ Cursors(U) = [kv : K, text : X, parameters : P]
      /\ p = [kv |-> p.kv, text |-> p.text, parameters |-> p.parameters]
  BY <1>1 DEF Cursors, Parameters
<1>3. CASE u = "="
  <2>1. PICK kv : kv = [p.kv EXCEPT !.name = p.text]
    OBVIOUS
  <2>2. kv \in K /\ kv.name = p.text
    BY <1>2, <2>1
  <2>3. EndOfName(p) = [kv |-> kv, text |-> <<>>, parameters |-> p.parameters]
    <3>1. EndOfName(p) = [p EXCEPT !.kv = kv, !.text = <<>>]
      BY <1>2, <2>1 DEF EndOfName
    <3> QED
      BY <1>2, <3>1
  <2>4. Cursor(p, u) = [kv |-> kv, text |-> <<>>, parameters |-> p.parameters]
    BY <1>3, <2>3 DEF Cursor
  <2> QED
    BY <1>2, <1>3, <2>2, <2>4
<1>4. CASE u = "&"
  <2>1. PICK kv \in K : /\ kv = Decoded(Header(p.kv.name, p.text))
                        /\ EndOfValue(p) = [kv |-> kv, text |-> <<>>,
                                            parameters |-> Append(p.parameters, kv)]
    BY <1>1, ValueEnds
  <2>2. PICK parameters : parameters = Append(p.parameters, kv)
    OBVIOUS
  <2>3. parameters \in P
    BY <1>1, <1>2, <2>1, <2>2, AppendProperties
  <2>4. Cursor(p, u) = [kv |-> kv, text |-> <<>>, parameters |-> parameters]
    BY <1>4, <2>1, <2>2 DEF Cursor
  <2> QED
    <3>1. Cursor(p, u) \in Cursors(U)
      BY <1>2, <2>1, <2>3, <2>4
    <3>2. /\ Cursor(p, u).text = <<>> /\ Cursor(p, u).kv = kv
          /\ Cursor(p, u).parameters = parameters
      BY <2>4
    <3>3. u # "=" /\ u \in {"=", "&"}
      BY <1>4
    <3> QED
      BY <2>1, <2>2, <3>1, <3>2, <3>3
<1>5. CASE u \notin {"=", "&"}
  <2>1. PICK text : text = Append(p.text, u)
    OBVIOUS
  <2>2. text \in X
    BY <1>1, <1>2, <2>1, AppendProperties
  <2>3. Cursor(p, u) = [kv |-> p.kv, text |-> text, parameters |-> p.parameters]
    BY <1>2, <1>5, <2>1 DEF Cursor
  <2> QED
    BY <1>2, <1>5, <2>1, <2>2, <2>3
<1> QED
  BY <1>3, <1>4, <1>5

(* The "&" among the first i units, and the beginning.                     *)
Starts(q, i) == {0} \cup {c \in 1 .. i : q[c] = "&"}

(* Between the ends S every text has its parameter.                        *)
Finished(q, S, parameters) ==
    /\ Len(parameters) = Cardinality(S) - 1
    /\ \A a \in S, b \in S :
          Neighbours(S, a, b) =>
              LET n == Cardinality({c \in S : c <= a})
              IN  IsParameter(SubSeq(q, a + 1, b - 1), NameBefore(parameters, n), parameters[n])

(* The "=" of the text behind a up to i, and its beginning.                *)
Marks(q, a, i) == {a} \cup {j \in a + 1 .. i : q[j] = "="}

(* Its value is in the cursor, and its name beside it; before there is one *)
(* the name of the parameter before is.                                    *)
Unfinished(q, p, a, i, inherited) ==
    LET marks == Marks(q, a, i) IN
    /\ \A j \in marks : LastOf(marks, j) => p.text = SubSeq(q, j + 1, i)
    /\ \A j \in marks, k \in marks :
          LastOf(marks, j) /\ Neighbours(marks, k, j) => p.kv.name = SubSeq(q, k + 1, j - 1)
    /\ marks = {a} => p.kv.name = inherited

(* The name that a text without "=" is given next.                         *)
NextName(parameters) == NameBefore(parameters, Len(parameters) + 1)

LEMMA EndsGrow ==
    ASSUME NEW q, NEW S \in SUBSET Nat, IsFiniteSet(S), NEW a, LastOf(S, a),
           NEW e \in Nat, a < e, NEW K, NEW parameters \in Seq(K), NEW kv \in K,
           Finished(q, S, parameters),
           IsParameter(SubSeq(q, a + 1, e - 1), NextName(parameters), kv)
    PROVE  Finished(q, S \cup {e}, Append(parameters, kv))
<1>1. PICK S2, new : S2 = S \cup {e} /\ new = Append(parameters, kv)
  OBVIOUS
<1>2. a \in S /\ a \in Nat /\ (\A c \in S : c <= a /\ c < e) /\ e \notin S
  BY DEF LastOf
<1>3. /\ IsFiniteSet(S2) /\ Cardinality(S2) = Cardinality(S) + 1 /\ Cardinality(S) \in Nat
      /\ Cardinality(S2) \in Nat
  BY <1>1, <1>2, FS_AddElement, FS_CardinalityType
<1>4. /\ Len(parameters) = Cardinality(S) - 1 /\ Len(parameters) \in Nat
      /\ Len(new) = Len(parameters) + 1 /\ new[Len(parameters) + 1] = kv
      /\ \A i \in 1 .. Len(parameters) : new[i] = parameters[i]
  BY <1>1, AppendProperties, LenProperties DEF Finished
<1>7. \A n \in 1 .. Len(parameters) + 1 : NameBefore(new, n) = NameBefore(parameters, n)
  <2>1. ASSUME NEW n \in 1 .. Len(parameters) + 1, n # 1
        PROVE  new[n - 1] = parameters[n - 1]
    BY <1>4, <2>1
  <2> QED
    BY <2>1 DEF NameBefore
<1>5. ASSUME NEW b \in S2, NEW d \in S2, Neighbours(S2, b, d)
      PROVE  LET n == Cardinality({c \in S2 : c <= b})
             IN  IsParameter(SubSeq(q, b + 1, d - 1), NameBefore(new, n), new[n])
  <2>1. b < d /\ b # e /\ b \in S /\ b \in Nat /\ d \in Nat
    BY <1>1, <1>2, <1>5 DEF Neighbours
  <2>2. PICK R : R = {c \in S : c <= b}
    OBVIOUS
  <2>3. {c \in S2 : c <= b} = R
    BY <1>1, <1>2, <2>1, <2>2
  <2>4. CASE d = e
    <3>1. b = a
      <4>1. a <= b \/ d <= a
        BY <1>1, <1>2, <1>5 DEF Neighbours
      <4> QED
        BY <1>2, <2>1, <2>4, <4>1
    <3>2. R = S
      BY <1>2, <2>2, <3>1
    <3>3. Cardinality(R) = Len(parameters) + 1
      BY <1>3, <1>4, <3>2
    <3>4. NameBefore(new, Len(parameters) + 1) = NextName(parameters)
      BY <1>7 DEF NextName
    <3> QED
      BY <1>4, <2>3, <2>4, <3>1, <3>3, <3>4
  <2>5. CASE d # e
    <3>1. d \in S
      BY <1>1, <2>5
    <3>2. Neighbours(S, b, d)
      BY <1>1, <1>5 DEF Neighbours
    <3>3. IsParameter(SubSeq(q, b + 1, d - 1), NameBefore(parameters, Cardinality(R)),
                      parameters[Cardinality(R)])
      BY <2>1, <2>2, <3>1, <3>2 DEF Finished
    <3>4. Cardinality(R) \in 1 .. Len(parameters)
      <4>1. R \in SUBSET S /\ b \in R /\ d \notin R /\ R # {}
        BY <2>1, <2>2
      <4>2. IsFiniteSet(R) /\ Cardinality(R) <= Cardinality(S) /\ Cardinality(R) # Cardinality(S)
        BY <3>1, <4>1, FS_Subset
      <4>3. Cardinality(R) \in Nat /\ Cardinality(R) # 0
        BY <4>1, <4>2, FS_CardinalityType, FS_EmptySet
      <4>4. PICK r, k : r = Cardinality(R) /\ k = Cardinality(S)
        OBVIOUS
      <4>5. r \in Nat /\ r # 0 /\ k \in Nat /\ r <= k /\ r # k /\ Len(parameters) = k - 1
        BY <1>3, <1>4, <4>2, <4>3, <4>4
      <4>6. r \in 1 .. k - 1
        BY <4>5
      <4> QED
        BY <4>4, <4>5, <4>6
    <3>5. /\ NameBefore(new, Cardinality(R)) = NameBefore(parameters, Cardinality(R))
          /\ new[Cardinality(R)] = parameters[Cardinality(R)]
      <4>1. PICK r : r = Cardinality(R) /\ r \in 1 .. Len(parameters)
        BY <3>4
      <4>2. r \in 1 .. Len(parameters) + 1
        BY <1>4, <4>1
      <4> QED
        BY <1>4, <1>7, <4>1, <4>2
    <3> QED
      BY <2>3, <3>3, <3>5
  <2> QED
    BY <2>4, <2>5
<1>6. Len(new) = Cardinality(S2) - 1
  BY <1>3, <1>4
<1> QED
  BY <1>1, <1>5, <1>6 DEF Finished

(* A part of a part.                                                       *)
LEMMA PartOfPart ==
    ASSUME NEW U, NEW q \in Seq(U), NEW a \in Nat, NEW i \in Nat, a <= i, i <= Len(q),
           NEW k \in Nat, NEW n \in Nat, n <= i - a
    PROVE  SubSeq(SubSeq(q, a + 1, i), k + 1, n) = SubSeq(q, (a + k) + 1, a + n)
<1>1. PICK v, l, j : v = SubSeq(q, a + 1, i) /\ l = a + k /\ j = a + n
  OBVIOUS
<1>2. /\ v \in Seq(U) /\ Len(v) = i - a /\ \A m \in 1 .. i - a : v[m] = q[a + m]
      /\ l \in Nat /\ j \in Nat /\ j <= Len(q) /\ n <= Len(v) /\ Len(q) \in Nat
  BY <1>1, PartOf, LenProperties
<1>3. PICK x, y : x = SubSeq(v, k + 1, n) /\ y = SubSeq(q, l + 1, j)
  OBVIOUS
<1>4. /\ x \in Seq(U) /\ Len(x) = (IF k <= n THEN n - k ELSE 0)
      /\ \A m \in 1 .. n - k : x[m] = v[k + m]
  BY <1>2, <1>3, PartOf
<1>5. /\ y \in Seq(U) /\ Len(y) = (IF l <= j THEN j - l ELSE 0)
      /\ \A m \in 1 .. j - l : y[m] = q[l + m]
  BY <1>2, <1>3, PartOf
<1>6. j - l = n - k /\ (k <= n <=> l <= j)
  BY <1>1, <1>2
<1>7. ASSUME NEW m \in 1 .. n - k
      PROVE  x[m] = y[m]
  <2>1. k + m \in 1 .. i - a /\ a + (k + m) = l + m
    BY <1>1
  <2> QED
    BY <1>2, <1>4, <1>5, <1>6, <2>1
<1>8. Len(x) = Len(y) /\ (Len(x) = n - k \/ Len(x) = 0)
  BY <1>4, <1>5, <1>6
<1>9. \A m \in 1 .. Len(x) : x[m] = y[m]
  BY <1>7, <1>8
<1>10. x = y
  BY <1>4, <1>5, <1>8, <1>9, SeqEqual
<1> QED
  BY <1>1, <1>3, <1>10

(* The unfinished text is the next parameter.                              *)
LEMMA ValueIs ==
    ASSUME NEW U, NEW q \in Seq(U), NEW a \in Nat, NEW i \in Nat, a <= i, i <= Len(q),
           NEW inherited, decode_uri_escape_sequences(inherited) = inherited,
           NEW p, Unfinished(q, p, a, i, inherited)
    PROVE  IsParameter(SubSeq(q, a + 1, i), inherited, Decoded(Header(p.kv.name, p.text)))
<1>1. PICK v : v = SubSeq(q, a + 1, i)
  OBVIOUS
<1>2. /\ v \in Seq(U) /\ Len(v) = i - a /\ \A k \in 1 .. i - a : v[k] = q[a + k]
  BY <1>1, PartOf
<1>3. DOMAIN v = 1 .. i - a
  BY <1>2, LenProperties
<1>4. PICK E, V, M : /\ E = {k \in DOMAIN v : v[k] = "="}
                     /\ V = {0} \cup E /\ M = Marks(q, a, i)
  OBVIOUS
<1>5. ASSUME NEW k \in V
      PROVE  k \in Nat /\ k <= i - a /\ a + k \in M
  <2>1. CASE k = 0
    BY <1>4, <2>1 DEF Marks
  <2>2. CASE k \in E
    <3>1. k \in 1 .. i - a /\ q[a + k] = "="
      BY <1>2, <1>3, <1>4, <2>2
    <3>2. a + k \in a + 1 .. i
      BY <3>1
    <3> QED
      BY <1>4, <3>1, <3>2 DEF Marks
  <2> QED
    BY <1>4, <2>1, <2>2
<1>6. ASSUME NEW j \in M
      PROVE  j \in Nat /\ a <= j /\ j - a \in V
  <2>1. CASE j = a
    BY <1>4, <2>1
  <2>2. CASE j # a
    <3>1. j \in a + 1 .. i /\ q[j] = "="
      BY <1>4, <2>2 DEF Marks
    <3>2. j - a \in 1 .. i - a /\ a + (j - a) = j
      BY <3>1
    <3>3. v[j - a] = "="
      BY <1>2, <3>1, <3>2
    <3> QED
      BY <1>3, <1>4, <3>1, <3>2, <3>3
  <2> QED
    BY <2>1, <2>2
<1>7. /\ \A j \in M : LastOf(M, j) => p.text = SubSeq(q, j + 1, i)
      /\ \A j \in M, k \in M :
            LastOf(M, j) /\ Neighbours(M, k, j) => p.kv.name = SubSeq(q, k + 1, j - 1)
      /\ M = {a} => p.kv.name = inherited
  BY <1>4 DEF Unfinished
<1>8. ASSUME E = {}
      PROVE  Decoded(Header(p.kv.name, p.text)) = Header(inherited, decode_uri_escape_sequences(v))
  <2>1. M = {a}
    <3>1. \A j \in M : j = a
      BY <1>4, <1>6, <1>8
    <3> QED
      BY <1>4, <3>1 DEF Marks
  <2>2. LastOf(M, a)
    BY <2>1 DEF LastOf
  <2>3. p.kv.name = inherited /\ p.text = v
    BY <1>1, <1>7, <2>1, <2>2
  <2> QED
    BY <2>3 DEF Decoded, Header
<1>9. ASSUME NEW m \in E, NEW k \in V, LastOf(V, m), Neighbours(V, k, m)
      PROVE  Header(p.kv.name, p.text)
                = Header(SubSeq(v, k + 1, m - 1), SubSeq(v, m + 1, Len(v)))
  <2>1. m \in V /\ m \in 1 .. i - a
    BY <1>3, <1>4, <1>9
  <2>2. PICK j, l : j = a + m /\ l = a + k
    OBVIOUS
  <2>3. j \in M /\ l \in M /\ k \in Nat /\ k < m
    BY <1>5, <1>9, <2>1, <2>2 DEF Neighbours
  <2>4. LastOf(M, j)
    <3>1. ASSUME NEW c \in M
          PROVE  c <= j
      <4>1. c - a \in V /\ c - a <= m /\ c \in Nat
        BY <1>6, <1>9, <3>1 DEF LastOf
      <4> QED
        BY <2>1, <2>2, <4>1
    <3> QED
      BY <2>3, <3>1 DEF LastOf
  <2>5. Neighbours(M, l, j)
    <3>1. ASSUME NEW c \in M
          PROVE  c <= l \/ j <= c
      <4>1. c - a \in V /\ (c - a <= k \/ m <= c - a) /\ c \in Nat
        BY <1>6, <1>9, <3>1 DEF Neighbours
      <4> QED
        BY <2>1, <2>2, <2>3, <4>1
    <3>2. l < j
      BY <2>1, <2>2, <2>3
    <3> QED
      BY <3>1, <3>2 DEF Neighbours
  <2>6. p.kv.name = SubSeq(q, l + 1, j - 1) /\ p.text = SubSeq(q, j + 1, i)
    BY <1>7, <2>3, <2>4, <2>5
  <2>7. SubSeq(v, k + 1, m - 1) = SubSeq(q, l + 1, j - 1)
    <3>1. PICK n \in Nat : n = m - 1
      BY <2>1
    <3>2. n <= i - a /\ a + n = j - 1
      BY <2>1, <2>2, <3>1
    <3>3. SubSeq(SubSeq(q, a + 1, i), k + 1, n) = SubSeq(q, (a + k) + 1, a + n)
      BY <2>3, <3>2, PartOfPart
    <3> QED
      BY <1>1, <2>2, <3>1, <3>2, <3>3
  <2>8. SubSeq(v, m + 1, Len(v)) = SubSeq(q, j + 1, i)
    <3>1. PICK n \in Nat : n = i - a
      OBVIOUS
    <3>2. n <= i - a /\ a + n = i /\ m \in Nat
      BY <2>1, <3>1
    <3>3. SubSeq(SubSeq(q, a + 1, i), m + 1, n) = SubSeq(q, (a + m) + 1, a + n)
      BY <3>2, PartOfPart
    <3> QED
      BY <1>1, <1>2, <2>2, <3>1, <3>2, <3>3
  <2> QED
    BY <2>6, <2>7, <2>8
<1>10. IsParameter(v, inherited, Decoded(Header(p.kv.name, p.text)))
  BY <1>4, <1>8, <1>9 DEF IsParameter
<1> QED
  BY <1>1, <1>10

LEMMA OneUnitMore ==
    ASSUME NEW U, NEW q \in Seq(U), NEW c \in Nat, NEW i \in Nat, c <= i, i < Len(q)
    PROVE  Append(SubSeq(q, c + 1, i), q[i + 1]) = SubSeq(q, c + 1, i + 1)
<1>0. Len(q) \in Nat
  BY LenProperties
<1>1. PICK d \in Nat : d = i + 1
  OBVIOUS
<1>2. PICK x, y : x = SubSeq(q, c + 1, i) /\ y = SubSeq(q, c + 1, d)
  OBVIOUS
<1>3. /\ x \in Seq(U) /\ Len(x) = (IF c <= i THEN i - c ELSE 0)
      /\ \A k \in 1 .. i - c : x[k] = q[c + k]
  <2>1. i <= Len(q)
    BY <1>0
  <2> QED
    BY <1>2, <2>1, PartOf
<1>4. /\ y \in Seq(U) /\ Len(y) = (IF c <= d THEN d - c ELSE 0)
      /\ \A k \in 1 .. d - c : y[k] = q[c + k]
  <2>1. d <= Len(q)
    BY <1>0, <1>1
  <2> QED
    BY <1>2, <2>1, PartOf
<1>5. PICK u \in U : u = q[i + 1]
  <2>1. i + 1 \in 1 .. Len(q)
    BY <1>0
  <2> QED
    BY <2>1, ElementOfSeq
<1>6. PICK z : z = Append(x, u)
  OBVIOUS
<1>7. /\ z \in Seq(U) /\ Len(z) = Len(x) + 1 /\ z[Len(x) + 1] = u
      /\ \A k \in 1 .. Len(x) : z[k] = x[k]
  BY <1>3, <1>6, AppendProperties
<1>8. PICK n \in Nat : n = i - c
  OBVIOUS
<1>9. Len(x) = n /\ Len(y) = n + 1 /\ Len(z) = n + 1 /\ d - c = n + 1 /\ c + (n + 1) = i + 1
  BY <1>1, <1>3, <1>4, <1>7, <1>8
<1>10. ASSUME NEW k \in 1 .. n + 1
       PROVE  z[k] = y[k]
  <2>1. y[k] = q[c + k]
    BY <1>4, <1>9
  <2>2. CASE k \in 1 .. n
    BY <1>3, <1>7, <1>8, <1>9, <2>1, <2>2
  <2>3. CASE k = n + 1
    BY <1>5, <1>7, <1>9, <2>1, <2>3
  <2> QED
    BY <2>2, <2>3
<1>11. z = y
  BY <1>4, <1>7, <1>9, <1>10, SeqEqual
<1> QED
  BY <1>1, <1>2, <1>5, <1>6, <1>11

(* The next unit belongs to the text ...                                   *)
LEMMA TextGoesOn ==
    ASSUME NEW U, NEW q \in Seq(U), NEW a \in Nat, NEW i \in Nat, a <= i, i < Len(q),
           NEW inherited, NEW p, Unfinished(q, p, a, i, inherited), NEW p2,
           q[i + 1] = "=" => p2.kv.name = p.text /\ p2.text = <<>>,
           q[i + 1] # "=" => p2.text = Append(p.text, q[i + 1]) /\ p2.kv = p.kv
    PROVE  Unfinished(q, p2, a, i + 1, inherited)
<1>1. PICK E, F, j : E = Marks(q, a, i) /\ F = Marks(q, a, i + 1) /\ j = i + 1
  OBVIOUS
<1>2. /\ \A k \in E : LastOf(E, k) => p.text = SubSeq(q, k + 1, i)
      /\ \A k \in E, l \in E :
            LastOf(E, k) /\ Neighbours(E, l, k) => p.kv.name = SubSeq(q, l + 1, k - 1)
      /\ E = {a} => p.kv.name = inherited
  BY <1>1 DEF Unfinished
<1>3. /\ j \in Nat /\ j - 1 = i /\ j # a /\ a + 1 .. i + 1 = (a + 1 .. i) \cup {j}
      /\ \A k \in E : k \in Nat /\ k <= i /\ k < j
  BY <1>1 DEF Marks
<1>4. CASE q[j] = "="
  <2>1. F = E \cup {j}
    BY <1>1, <1>3, <1>4 DEF Marks
  <2>2. ASSUME NEW k \in F, LastOf(F, k)
        PROVE  k = j
    <3>1. j <= k
      BY <2>1, <2>2 DEF LastOf
    <3>2. k \in E => k \in Nat /\ k < j
      BY <1>3
    <3> QED
      BY <1>3, <2>1, <3>1, <3>2
  <2>3. p2.kv.name = p.text /\ p2.text = <<>> /\ SubSeq(q, j + 1, i + 1) = <<>>
    BY <1>1, <1>4, SubSeqEmpty
  <2>4. ASSUME NEW k \in F, LastOf(F, k)
        PROVE  p2.text = SubSeq(q, k + 1, i + 1)
    BY <2>2, <2>3, <2>4
  <2>5. ASSUME NEW k \in F, NEW l \in F, LastOf(F, k), Neighbours(F, l, k)
        PROVE  p2.kv.name = SubSeq(q, l + 1, k - 1)
    <3>1. k = j /\ l < j
      BY <2>2, <2>5 DEF Neighbours
    <3>2. l \in E
      BY <1>3, <2>1, <3>1
    <3>3. LastOf(E, l)
      <4>1. ASSUME NEW c \in E
            PROVE  c <= l
        <5>1. c <= l \/ j <= c
          BY <2>1, <2>5, <3>1 DEF Neighbours
        <5> QED
          BY <1>3, <3>2, <5>1
      <4> QED
        BY <3>2, <4>1 DEF LastOf
    <3> QED
      BY <1>2, <1>3, <2>3, <3>1, <3>2, <3>3
  <2>6. F # {a}
    BY <1>3, <2>1
  <2> QED
    BY <1>1, <2>4, <2>5, <2>6 DEF Unfinished
<1>5. CASE q[j] # "="
  <2>1. F = E
    BY <1>1, <1>3, <1>5 DEF Marks
  <2>2. p2.text = Append(p.text, q[i + 1]) /\ p2.kv = p.kv
    BY <1>1, <1>5
  <2>3. ASSUME NEW k \in F, LastOf(F, k)
        PROVE  p2.text = SubSeq(q, k + 1, i + 1)
    <3>1. k \in Nat /\ k <= i /\ p.text = SubSeq(q, k + 1, i)
      BY <1>2, <1>3, <2>1, <2>3
    <3>2. Append(SubSeq(q, k + 1, i), q[i + 1]) = SubSeq(q, k + 1, i + 1)
      BY <3>1, OneUnitMore
    <3> QED
      BY <2>2, <3>1, <3>2
  <2> QED
    BY <1>1, <1>2, <2>1, <2>2, <2>3 DEF Unfinished
<1> QED
  BY <1>4, <1>5

(* ... or a new one begins.                                                *)
LEMMA TextBegins ==
    ASSUME NEW q, NEW a \in Nat, NEW p, p.text = <<>>
    PROVE  Unfinished(q, p, a, a, p.kv.name)
<1>1. Marks(q, a, a) = {a}
  BY DEF Marks
<1>2. SubSeq(q, a + 1, a) = <<>>
  BY SubSeqEmpty
<1>3. \A j \in {a}, k \in {a} : ~Neighbours({a}, k, j)
  BY DEF Neighbours
<1> QED
  BY <1>1, <1>2, <1>3 DEF Unfinished

TakenApart(q, p, i) ==
    /\ decode_uri_escape_sequences(NextName(p.parameters)) = NextName(p.parameters)
    /\ \E a \in Starts(q, i) : /\ LastOf(Starts(q, i), a)
                               /\ Finished(q, Starts(q, i), p.parameters)
                               /\ Unfinished(q, p, a, i, NextName(p.parameters))

LEMMA StartsAre ==
    ASSUME NEW q, NEW i \in Nat
    PROVE  /\ Starts(q, i) \in SUBSET Nat /\ IsFiniteSet(Starts(q, i))
           /\ \A c \in Starts(q, i) : c <= i
           /\ q[i + 1] = "&" => Starts(q, i + 1) = Starts(q, i) \cup {i + 1}
           /\ q[i + 1] # "&" => Starts(q, i + 1) = Starts(q, i)
<1>1. Starts(q, i) \in SUBSET (0 .. i)
  BY DEF Starts
<1>2. IsFiniteSet(Starts(q, i))
  <2>1. IsFiniteSet(0 .. i)
    BY FS_Interval
  <2> QED
    BY <1>1, <2>1, FS_Subset
<1>3. 1 .. i + 1 = (1 .. i) \cup {i + 1}
  OBVIOUS
<1>4. /\ q[i + 1] = "&" => Starts(q, i + 1) = Starts(q, i) \cup {i + 1}
      /\ q[i + 1] # "&" => Starts(q, i + 1) = Starts(q, i)
  BY <1>3 DEF Starts
<1> QED
  BY <1>1, <1>2, <1>4

(* What is left behind the last end becomes a parameter at the end e.      *)
LEMMA EndTaken ==
    ASSUME NEW U, "&" \in U, NEW q \in Seq(U), NEW p \in Cursors(U), NEW i \in Nat, i <= Len(q),
           TakenApart(q, p, i)
    PROVE  Finished(q, Starts(q, i) \cup {i + 1},
                    Append(p.parameters, Decoded(Header(p.kv.name, p.text))))
<1>1. PICK S : S = Starts(q, i)
  OBVIOUS
<1>2. PICK a \in S : /\ LastOf(S, a) /\ Finished(q, S, p.parameters)
                      /\ Unfinished(q, p, a, i, NextName(p.parameters))
  BY <1>1 DEF TakenApart
<1>3. S \in SUBSET Nat /\ IsFiniteSet(S) /\ a \in Nat /\ a <= i
  BY <1>1, <1>2, StartsAre
<1>4. PICK e \in Nat : e = i + 1
  OBVIOUS
<1>5. a < e /\ e - 1 = i
  BY <1>3, <1>4
<1>6. PICK K : K = Parameters(U)
  OBVIOUS
<1>7. PICK kv \in K : kv = Decoded(Header(p.kv.name, p.text))
  BY <1>6, ValueEnds
<1>8. p.parameters \in Seq(K)
  BY <1>6 DEF Cursors
<1>9. IsParameter(SubSeq(q, a + 1, e - 1), NextName(p.parameters), kv)
  <2>1. PICK inherited : inherited = NextName(p.parameters)
    OBVIOUS
  <2>2. decode_uri_escape_sequences(inherited) = inherited /\ Unfinished(q, p, a, i, inherited)
    BY <1>2, <2>1 DEF TakenApart
  <2>3. IsParameter(SubSeq(q, a + 1, i), inherited, Decoded(Header(p.kv.name, p.text)))
    BY <1>3, <2>2, ValueIs
  <2> QED
    BY <1>5, <1>7, <2>1, <2>3
<1>10. PICK parameters \in Seq(K) : parameters = p.parameters
  BY <1>8
<1>11. Finished(q, S \cup {e}, Append(parameters, kv))
  BY <1>2, <1>3, <1>5, <1>9, <1>10, EndsGrow
<1> QED
  BY <1>1, <1>4, <1>7, <1>10, <1>11

(* The parameter added last has the name a text without "=" is given.      *)
LEMMA NameIsNext ==
    ASSUME NEW U, "&" \in U, NEW p \in Cursors(U), NEW p2,
           p2.kv = Decoded(Header(p.kv.name, p.text)),
           p2.parameters = Append(p.parameters, Decoded(Header(p.kv.name, p.text)))
    PROVE  NextName(p2.parameters) = p2.kv.name
<1>1. PICK K : K = Parameters(U)
  OBVIOUS
<1>2. PICK kv \in K : kv = Decoded(Header(p.kv.name, p.text))
  BY <1>1, ValueEnds
<1>3. PICK old \in Seq(K) : old = p.parameters
  BY <1>1 DEF Cursors
<1>4. PICK new : new = Append(old, kv)
  OBVIOUS
<1>5. PICK n \in Nat : n = Len(old)
  BY LenProperties
<1>6. Len(new) = n + 1 /\ new[n + 1] = kv
  BY <1>4, <1>5, AppendProperties
<1>7. (n + 1) + 1 # 1 /\ ((n + 1) + 1) - 1 = n + 1
  BY <1>5
<1>8. NextName(new) = kv.name
  BY <1>6, <1>7 DEF NextName, NameBefore
<1> QED
  BY <1>2, <1>3, <1>4, <1>8

LEMMA UnitTaken ==
    ASSUME NEW U, "&" \in U, NEW q \in Seq(U), NEW p \in Cursors(U), NEW i \in Nat, i < Len(q),
           TakenApart(q, p, i)
    PROVE  /\ Cursor(p, q[i + 1]) \in Cursors(U)
           /\ TakenApart(q, Cursor(p, q[i + 1]), i + 1)
<1>0. Len(q) \in Nat
  BY LenProperties
<1>1. PICK u \in U : u = q[i + 1]
  <2>1. i + 1 \in 1 .. Len(q)
    BY <1>0
  <2> QED
    BY <2>1, ElementOfSeq
<1>2. PICK p2 : p2 = Cursor(p, u)
  OBVIOUS
<1>3. /\ p2 \in Cursors(U)
      /\ u = "=" => /\ p2.kv.name = p.text /\ p2.text = <<>>
                    /\ p2.parameters = p.parameters
      /\ u = "&" => /\ p2.text = <<>>
                    /\ p2.kv = Decoded(Header(p.kv.name, p.text))
                    /\ p2.parameters = Append(p.parameters, Decoded(Header(p.kv.name, p.text)))
      /\ u \notin {"=", "&"} => /\ p2.text = Append(p.text, u)
                                /\ p2.kv = p.kv
                                /\ p2.parameters = p.parameters
  <2>1. Cursor(p, u) \in Cursors(U)
    BY CursorMoves
  <2>2. u = "=" => /\ Cursor(p, u).kv.name = p.text /\ Cursor(p, u).text = <<>>
                   /\ Cursor(p, u).parameters = p.parameters
    BY CursorMoves
  <2>3. u = "&" => /\ Cursor(p, u).text = <<>>
                   /\ Cursor(p, u).kv = Decoded(Header(p.kv.name, p.text))
                   /\ Cursor(p, u).parameters
                         = Append(p.parameters, Decoded(Header(p.kv.name, p.text)))
    BY CursorMoves
  <2>4. u \notin {"=", "&"} => /\ Cursor(p, u).text = Append(p.text, u)
                               /\ Cursor(p, u).kv = p.kv
                               /\ Cursor(p, u).parameters = p.parameters
    BY CursorMoves
  <2> QED
    BY <1>2, <2>1, <2>2, <2>3, <2>4
<1>4. PICK S, e : S = Starts(q, i) /\ e = i + 1
  OBVIOUS
<1>5. PICK a \in S : /\ LastOf(S, a) /\ Finished(q, S, p.parameters)
                      /\ Unfinished(q, p, a, i, NextName(p.parameters))
  BY <1>4 DEF TakenApart
<1>6. S \in SUBSET Nat /\ a \in Nat /\ a <= i /\ e \in Nat
  BY <1>4, <1>5, StartsAre
<1>7. CASE u = "&"
  <2>1. Starts(q, e) = S \cup {e}
    BY <1>1, <1>4, <1>7, StartsAre
  <2>2. Finished(q, S \cup {e}, p2.parameters)
    <3>1. i <= Len(q)
      BY <1>0
    <3>2. Finished(q, Starts(q, i) \cup {i + 1},
                   Append(p.parameters, Decoded(Header(p.kv.name, p.text))))
      BY <3>1, EndTaken
    <3> QED
      BY <1>3, <1>4, <1>7, <3>2
  <2>3. Unfinished(q, p2, e, e, p2.kv.name)
    BY <1>3, <1>6, <1>7, TextBegins
  <2>4. LastOf(S \cup {e}, e)
    <3>1. \A c \in S : c <= i /\ c \in Nat
      BY <1>4, StartsAre
    <3> QED
      BY <1>4, <3>1 DEF LastOf
  <2>6. NextName(p2.parameters) = p2.kv.name
    BY <1>3, <1>7, NameIsNext
  <2>7. decode_uri_escape_sequences(p2.kv.name) = p2.kv.name
    <3>1. PICK name \in Seq(U) : name = p.kv.name
      BY DEF Cursors, Parameters
    <3>2. p2.kv.name = decode_uri_escape_sequences(name)
      BY <1>3, <1>7, <3>1 DEF Decoded, Header
    <3> QED
      BY <3>2, DecodedTwice
  <2>5. TakenApart(q, p2, e)
    BY <2>1, <2>2, <2>3, <2>4, <2>6, <2>7 DEF TakenApart
  <2> QED
    BY <1>1, <1>2, <1>3, <1>4, <2>5
<1>8. CASE u # "&"
  <2>1. Starts(q, e) = S
    BY <1>1, <1>4, <1>8, StartsAre
  <2>2. Unfinished(q, p2, a, i + 1, NextName(p.parameters))
    <3>1. /\ q[i + 1] = "=" => p2.kv.name = p.text /\ p2.text = <<>>
          /\ q[i + 1] # "=" => p2.text = Append(p.text, q[i + 1]) /\ p2.kv = p.kv
      BY <1>1, <1>3, <1>8
    <3> QED
      BY <1>5, <1>6, <3>1, TextGoesOn
  <2>3. p2.parameters = p.parameters
    BY <1>3, <1>8
  <2>4. decode_uri_escape_sequences(NextName(p.parameters)) = NextName(p.parameters)
    BY DEF TakenApart
  <2>5. TakenApart(q, p2, e)
    BY <1>4, <1>5, <2>1, <2>2, <2>3, <2>4 DEF TakenApart
  <2> QED
    BY <1>1, <1>2, <1>3, <1>4, <2>5
<1> QED
  BY <1>7, <1>8

(* Every text between two "&" has its parameter.                           *)
LEMMA QueryTaken ==
    ASSUME NEW U, "&" \in U, NEW q \in Seq(U)
    PROVE  Finished(q, Ends(q), QueryParameters(q))
<1> DEFINE Def(h) == [i \in 0 .. Len(q) |->
                         IF i = 0 THEN NewCursor ELSE Cursor(h[i - 1], q[i])]
<1>0. PICK L : L = Len(q)
  OBVIOUS
<1>1. L \in Nat
  BY <1>0, LenProperties
<1>2. PICK V : V = Cursors(U)
  OBVIOUS
<1>3. PICK start \in V : start = NewCursor
  <2>1. PICK X, K : X = Seq(U) /\ K = Parameters(U)
    OBVIOUS
  <2>2. <<>> \in X /\ <<>> \in Seq(K)
    BY <2>1
  <2>3. Header(<<>>, <<>>) \in K
    BY <2>1, <2>2 DEF Header, Parameters
  <2>4. Cursors(U) = [kv : K, text : X, parameters : Seq(K)]
    BY <2>1 DEF Cursors
  <2> QED
    BY <1>2, <2>2, <2>3, <2>4 DEF NewCursor
<1>4. PICK F : F = [x \in V \X Nat |-> IF x[2] \in 1 .. L THEN Cursor(x[1], q[x[2]]) ELSE x[1]]
  OBVIOUS
<1>5. \A v \in V, i \in 1 .. L : Cursor(v, q[i]) \in V
  <2>1. \A i \in 1 .. L : q[i] \in U
    BY <1>0, ElementOfSeq
  <2> QED
    BY <1>2, <2>1, CursorMoves
<1>6. F \in [V \X Nat -> V]
  BY <1>4, <1>5
<1>7. \A v \in V, i \in 1 .. L : F[<<v, i>>] = Cursor(v, q[i])
  BY <1>1, <1>4
<1>8. PICK g \in [0 .. L -> V] : Computes(g, L, start, F)
  BY <1>1, <1>6, LoopExists
<1>9. g = Def(g)
  <2>1. ASSUME NEW i \in 0 .. L, i # 0
        PROVE  g[i] = Cursor(g[i - 1], q[i])
    <3>1. i \in 1 .. L /\ i - 1 \in 0 .. L
      BY <1>1, <2>1
    <3>2. g[i - 1] \in V
      BY <1>8, <3>1
    <3>3. g[i] = F[<<g[i - 1], i>>]
      BY <1>8, <3>1 DEF Computes
    <3> QED
      BY <1>7, <3>1, <3>2, <3>3
  <2>2. g[0] = NewCursor
    BY <1>3, <1>8 DEF Computes
  <2>3. g = [i \in 0 .. L |-> g[i]]
    BY <1>8
  <2> QED
    BY <1>0, <2>1, <2>2, <2>3
<1>10. PICK h : h = CHOOSE f : f = Def(f)
  OBVIOUS
<1>11. h = Def(h)
  <2> HIDE DEF Def
  <2> QED
    BY <1>9, <1>10
<1>12. QueryParameters(q) = EndOfValue(h[L]).parameters
  BY <1>0, <1>10 DEF QueryParameters
<1>13. h[0] = start
  BY <1>0, <1>1, <1>3, <1>11
<1>14. ASSUME NEW i \in 0 .. L - 1
       PROVE  h[i + 1] = Cursor(h[i], q[i + 1])
  <2>1. i + 1 \in 0 .. L /\ i + 1 # 0 /\ (i + 1) - 1 = i
    BY <1>1
  <2> QED
    BY <1>0, <1>11, <2>1
<1> DEFINE P == {i \in Nat : i \in 0 .. L => h[i] \in V /\ TakenApart(q, h[i], i)}
<1>15. 0 \in P
  <2>1. start.text = <<>> /\ start.parameters = <<>>
    BY <1>3 DEF NewCursor
  <2>2. PICK z \in Nat : z = 0
    OBVIOUS
  <2>3. Starts(q, z) = {z} /\ LastOf({z}, z)
    BY <2>2 DEF Starts, LastOf
  <2>4. Finished(q, {z}, start.parameters)
    <3>1. Cardinality({z}) = 1
      BY FS_Singleton
    <3>2. Len(start.parameters) = Cardinality({z}) - 1
      BY <2>1, <3>1
    <3>3. \A a \in {z}, b \in {z} : ~Neighbours({z}, a, b)
      BY DEF Neighbours
    <3> QED
      BY <3>2, <3>3 DEF Finished
  <2>7. /\ NextName(start.parameters) = <<>> /\ start.kv.name = <<>>
        /\ decode_uri_escape_sequences(<<>>) = <<>>
    <3>1. Len(start.parameters) + 1 = 1
      BY <2>1
    <3>2. NextName(start.parameters) = <<>>
      BY <3>1 DEF NextName, NameBefore
    <3>3. start.kv.name = <<>>
      BY <1>3 DEF NewCursor, Header
    <3>4. decode_uri_escape_sequences(<<>>) = <<>>
      BY DEF decode_uri_escape_sequences
    <3> QED
      BY <3>2, <3>3, <3>4
  <2>5. Unfinished(q, start, z, z, start.kv.name)
    BY <2>1, TextBegins
  <2>6. TakenApart(q, start, z)
    BY <2>3, <2>4, <2>5, <2>7 DEF TakenApart
  <2> QED
    BY <1>13, <2>2, <2>6
<1>16. ASSUME NEW i \in P
       PROVE  i + 1 \in P
  <2>1. CASE i + 1 \in 0 .. L
    <3>1. i \in 0 .. L - 1 /\ i \in 0 .. L /\ i \in Nat /\ i < Len(q)
      BY <1>0, <1>1, <2>1
    <3>2. PICK p \in V : p = h[i]
      BY <1>16, <3>1
    <3>3. TakenApart(q, p, i) /\ p \in Cursors(U)
      BY <1>2, <1>16, <3>1, <3>2
    <3>4. /\ Cursor(p, q[i + 1]) \in Cursors(U)
          /\ TakenApart(q, Cursor(p, q[i + 1]), i + 1)
      BY <3>1, <3>3, UnitTaken
    <3>5. h[i + 1] = Cursor(p, q[i + 1])
      BY <1>14, <3>1, <3>2
    <3> QED
      BY <1>2, <3>1, <3>4, <3>5
  <2>2. CASE i + 1 \notin 0 .. L
    BY <2>2
  <2> QED
    BY <2>1, <2>2
<1>17. P = Nat
  <2>1. P \in SUBSET Nat
    OBVIOUS
  <2> HIDE DEF P
  <2> QED
    BY <1>15, <1>16, <2>1, ByInduction
<1>18. PICK p \in V : p = h[L] /\ TakenApart(q, p, L)
  <2>1. L \in P /\ L \in 0 .. L
    BY <1>1, <1>17
  <2> QED
    BY <2>1
<1>19. p \in Cursors(U) /\ L <= Len(q)
  BY <1>0, <1>1, <1>2
<1>20. Finished(q, Starts(q, L) \cup {L + 1},
                Append(p.parameters, Decoded(Header(p.kv.name, p.text))))
  BY <1>1, <1>18, <1>19, EndTaken
<1>21. EndOfValue(p).parameters = Append(p.parameters, Decoded(Header(p.kv.name, p.text)))
  BY <1>19, ValueEnds
<1>22. Ends(q) = Starts(q, L) \cup {L + 1}
  <2>1. DOMAIN q = 1 .. L
    BY <1>0, LenProperties
  <2> QED
    BY <1>0, <2>1 DEF Ends, Starts
<1> QED
  BY <1>12, <1>18, <1>20, <1>21, <1>22

(* The parameters of the client's query are those of its texts between two *)
(* "&": as many, in the same order, each with the name and the value       *)
(* around its last "=", and a text without one is the value of a parameter *)
(* with the name of the one before.                                        *)
THEOREM QueriesAreExact == RequestSpec => []QueryIsExact
<1>1. ASSUME RequestInv
      PROVE  QueryIsExact
  <2>1. CASE req.state = "complete" /\ sent.query # <<>>
    <3>1. PICK done : Built(sent, req, Size(sent), done)
      BY <1>1, <2>1, AllArrived
    <3>2. sent \in Requests
      BY <1>1 DEF RequestInv
    <3>3. req.query_parameters = QueryParameters(sent.query)
      <4>1. PICK s, p : s = Size(sent) /\ p = EndAt(sent)
        OBVIOUS
      <4>2. s \in Nat /\ p \in Nat /\ s >= p
        BY <3>2, <4>1, SizesAre
      <4> QED
        BY <2>1, <3>1, <4>1, <4>2 DEF Built
    <3>4. PICK U, q : U = QueryUnits \cup {"&"} /\ q = sent.query
      OBVIOUS
    <3>5. q \in Seq(U) /\ "&" \in U
      <4>1. q \in Seq(QueryUnits) /\ QueryUnits \subseteq U
        BY <3>2, <3>4, RequestIs
      <4> QED
        BY <3>4, <4>1, SeqMonotonic
    <3>6. Finished(q, Ends(q), QueryParameters(q))
      BY <3>5, QueryTaken
    <3> QED
      BY <3>3, <3>4, <3>6 DEF Finished, QueryIsExact
  <2> QED
    BY <2>1 DEF QueryIsExact
<1> QED
  BY <1>1, RequestInvariant, PTL

=============================================================================
