------------------------------ MODULE PacketSync ------------------------------
(***************************************************************************)
(* lib_util's PacketSyncClosest: buffers of packets from several sensors,  *)
(* where pop takes the oldest packet of the first one and from every other *)
(* the packet closest to it in time.  A packet is its timestamp.           *)
(***************************************************************************)
EXTENDS Naturals, Sequences, SequencesExt, FiniteSetsExt

CONSTANTS Reference,  \* the first type of packets
          Others,     \* the other types
          Times,      \* timestamps
          Untouched,  \* of a type without packets nothing is delivered
          Garbage,    \* what is read outside of a vector
          Careful,    \* see Ordered and Surrounded
          MaxPushed   \* bound: packets of a type

ASSUME SyncAssumption ==
    /\ Reference \notin Others /\ Times \subseteq Nat
    /\ Careful \in BOOLEAN /\ MaxPushed \in Nat
    /\ \A a, b \in Times : b <= a => a - b <= 2147483647

Streams == {Reference} \cup Others

VARIABLES packets,  \* the vectors of packets
          popped,   \* what the latest pop has delivered
          pushed    \* history: what was accepted since clear

syncVars == <<packets, popped, pushed>>

Empty == [s \in Streams |-> <<>>]

NothingPopped == [s \in Streams |-> Untouched]

SyncInit == packets = Empty /\ popped = NothingPopped /\ pushed = Empty

-----------------------------------------------------------------------------
(* check_monotonic_timestamp knows the packets that wait, no others.       *)
IsMonotonic(s, ts) == packets[s] # <<>> => Last(packets[s]) <= ts

(* The sensor's own packets come in order.                                 *)
Ordered(s, ts) == pushed[s] # <<>> => Last(pushed[s]) <= ts

(* A packet that is refused leaves everything as it is.                    *)
Push(s, ts) ==
    /\ Len(pushed[s]) < MaxPushed
    /\ Careful /\ packets[s] = <<>> => Ordered(s, ts)
    /\ IsMonotonic(s, ts)
    /\ packets' = [packets EXCEPT ![s] = Append(@, ts)]
    /\ pushed' = [pushed EXCEPT ![s] = Append(@, ts)]
    /\ UNCHANGED popped

ClearPackets == packets' = Empty /\ popped' = NothingPopped /\ pushed' = Empty

-----------------------------------------------------------------------------
(* labs takes the difference as a long, of 32 bits on the target: exact    *)
(* for times less than 2^31 microseconds, 35 minutes, apart, as those in   *)
(* Times are (SyncAssumption).                                             *)
Distance(a, b) == IF a < b THEN b - a ELSE a - b

LowerBound(ts, ps) == Min({i \in DOMAIN ps : ts <= ps[i]} \cup {Len(ps) + 1})

(* Both packets that find_closest_packet compares are in the vector, or    *)
(* nothing can be less than the distance to the second.                    *)
Surrounded(ts, ps) ==
    LET low == LowerBound(ts, ps) IN
    low \in DOMAIN ps /\ (ps[low] = ts \/ low - 1 \in DOMAIN ps)

(* A bug the checks must see: the packet before is not looked at.          *)
MutClosest(ts, ps) == {LowerBound(ts, ps)}

(* Where find_closest_packet finds it.  If one of the two is before the    *)
(* vector or behind it, what is compared is undefined.                     *)
Closest(ts, ps) ==
    LET low == LowerBound(ts, ps) IN
    IF ~Surrounded(ts, ps) THEN {low - 1, low}
    ELSE IF ps[low] # ts /\ Distance(ps[low - 1], ts) < Distance(ps[low], ts)
         THEN {low - 1} ELSE {low}

(* The packets prior to the one found are removed.                         *)
Remaining(ps, at) == IF at > 1 THEN SubSeq(ps, at, Len(ps)) ELSE ps

Found(ps, at) == IF at \in DOMAIN ps THEN ps[at] ELSE Garbage

Pop ==
    /\ packets[Reference] # <<>>
    /\ LET ts == Head(packets[Reference])
           waiting == {s \in Others : packets[s] # <<>>}
       IN  /\ Careful => \A s \in waiting : Surrounded(ts, packets[s])
           /\ \E at \in [waiting -> 0 .. MaxPushed + 1] :
              /\ \A s \in waiting : at[s] \in Closest(ts, packets[s])
              /\ popped' = [s \in Streams |->
                     IF s = Reference THEN ts
                     ELSE IF s \in waiting THEN Found(packets[s], at[s]) ELSE Untouched]
              /\ packets' = [s \in Streams |->
                     IF s = Reference THEN Tail(packets[s])
                     ELSE IF s \in waiting THEN Remaining(packets[s], at[s]) ELSE <<>>]
    /\ UNCHANGED pushed

SyncNext == Pop \/ ClearPackets \/ \E s \in Streams, ts \in Times : Push(s, ts)

SyncSpec == SyncInit /\ [][SyncNext]_syncVars

-----------------------------------------------------------------------------
(* What pop delivers of a sensor is the packet closest in time among all   *)
(* that were ever pushed, those that earlier calls have removed included;  *)
(* sync_packets.t.cpp:122-128 requires it at both ends of the buffer, too. *)
IsNearest(t, ts, all) == t \in all /\ \A u \in all : Distance(t, ts) <= Distance(u, ts)

NearestIsDelivered ==
    [][packets' # packets /\ pushed' = pushed =>
          \A s \in Others : popped'[s] # Untouched =>
              IsNearest(popped'[s], popped'[Reference], Range(pushed[s]))]_syncVars

=============================================================================
