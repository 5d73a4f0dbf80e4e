--------------------------- MODULE HttpServer_proofs ---------------------------
(***************************************************************************)
(* Proofs about the http server of HttpServer.tla: with any sockets, sizes *)
(* of responses and packets, length of the command queue and number of     *)
(* starts, a socket has one connection at most and the one that its        *)
(* commands are about, its client gets its response in order without a gap *)
(* or a repetition, packets are lost only with their connection, and the   *)
(* handler thread sleeps only when there is nothing to do.                 *)
(*                                                                         *)
(* All are about the sockets with no command that the full queue refused   *)
(* and none left behind by stop (Settled): what happens to the others is   *)
(* what the run http shows.                                                *)
(***************************************************************************)
EXTENDS HttpServer, SequenceTheorems, FiniteSetTheorems, WellFoundedInduction, TLAPS

(* What the variables hold.                                                *)
Ops == {"connect", "data", "disconnect"}
Kinds == {"empty", "text", "file"}

CommandType == [op : Ops, socket : Sockets]
ResponseType == [header : Nat, kind : Kinds, body : Nat, pos : Nat]
ConnectionType == [socket : Sockets, dangling : Seq(Nat), active : BOOLEAN,
                   response : ResponseType \cup {None}]
PeerType == [state : {"listening", "open", "closed"}, inbox : Seq({"part", "last"}),
             awaiting : BOOLEAN]
HandlerType == [at : {"none", "process", "read", "dangling", "write", "ended"},
                forever : BOOLEAN, i : Nat]

Types ==
    /\ up \subseteq {"plain", "tls"} /\ run \in BOOLEAN /\ owner \in {"idle", "wait"}
    /\ handler \in HandlerType
    /\ queue \in Seq(CommandType) /\ conns \in Seq(ConnectionType)
    /\ peer \in [Sockets -> PeerType] /\ received \in [Sockets -> Seq(Nat)]
    /\ packets \in Int /\ astray \subseteq Sockets
    /\ connects \in Nat /\ starts \in Nat

(* A connection whose packet would block is writing a response, and no     *)
(* response is read beyond its end.                                        *)
WellFormed(c) ==
    /\ c.dangling # None => c.response # None
    /\ c.response # None => c.response.pos <= Total(c.response)

(* Where the handler thread is in its round over the connections cs.       *)
HandlerFits(h, cs) ==
    /\ h.at \in {"read", "dangling", "write"} => h.i \in DOMAIN cs
    /\ h.at = "write" => cs[h.i].response # None /\ cs[h.i].dangling = None
    /\ h.at = "dangling" => cs[h.i].response # None /\ cs[h.i].dangling # None
    /\ h.at = "process" /\ h.forever => ~AnyActive(cs)
    /\ h.at = "none" => cs = <<>>

HandlerInv == /\ HandlerFits(handler, conns)
              /\ "plain" \notin up => handler.at = "none"

BasicInv == Types /\ (\A k \in DOMAIN conns : WellFormed(conns[k])) /\ HandlerInv

Queued(op, s) == \E p \in DOMAIN queue : queue[p] = Command(op, s)

(* The commands of a socket that are queued fit the state of its peer and  *)
(* of its connection.                                                      *)
PlaceInv(s) ==
    /\ peer[s].state = "listening" =>
           /\ peer[s] = Listening
           /\ \A p \in DOMAIN queue : queue[p].socket # s
           /\ \A k \in DOMAIN conns : conns[k].socket # s
    /\ \A p, q \in DOMAIN queue :
           queue[p] = Command("connect", s) /\ queue[q].socket = s => p <= q
    /\ \A p, q \in DOMAIN queue :
           queue[p] = Command("disconnect", s) /\ queue[q].socket = s => q <= p
    /\ Queued("disconnect", s) <=> peer[s].state = "closed"
    /\ \A j, k \in DOMAIN conns : conns[j].socket = s /\ conns[k].socket = s => j = k
    /\ peer[s].state # "listening" =>
           (Queued("connect", s) <=> \A k \in DOMAIN conns : conns[k].socket # s)

(* What a connection holds fits what its client has got and still sends.   *)
TalkInv(s) ==
    /\ \A p \in DOMAIN peer[s].inbox : peer[s].inbox[p] = "last" => p = Len(peer[s].inbox)
    /\ peer[s].state = "open" /\ Contains(peer[s].inbox, "last") => peer[s].awaiting
    /\ peer[s].state = "open" /\ peer[s].inbox # <<>> =>
           \/ Queued("data", s)
           \/ \E k \in DOMAIN conns : conns[k].socket = s /\ conns[k].active

ServedInv(s, c) ==
    /\ received[s] \o c.dangling = [n \in 1 .. c.response.pos |-> n]
    /\ peer[s].state = "open" => Queued("data", s) \/ c.active
    /\ peer[s].state = "open" /\ Len(received[s]) < Total(c.response) =>
           peer[s].awaiting /\ peer[s].inbox = <<>>

Serves(s) == \A k \in DOMAIN conns :
                 conns[k].socket = s /\ conns[k].response # None => ServedInv(s, conns[k])

SocketInv(s) == PlaceInv(s) /\ TalkInv(s) /\ Serves(s)

ServerInv == BasicInv /\ \A s \in Settled : SocketInv(s)

-----------------------------------------------------------------------------
(* Sequences and numbers                                                   *)

LEMMA Constants ==
    /\ PacketSize \in Nat /\ PacketSize > 0 /\ Bodies \subseteq Nat
    /\ QueueSize \in Nat /\ MaxConnects \in Nat
  BY HttpAssumption, ResponseAssumption

LEMMA MinIn ==
    ASSUME NEW S \in SUBSET Nat, S # {}
    PROVE  Min(S) \in S /\ \A y \in S : Min(S) <= y
<1>0. S \subseteq Nat
  OBVIOUS
<1>1. PICK x \in S : \A y \in S : ~ (<<y, x>> \in OpToRel(<, Nat))
  BY <1>0, WFMin, NatLessThanWellFounded, Zenon
<1>2. \A y \in S : ~ (y < x)
  BY <1>1, Zenon DEF OpToRel
<1>3. \A y \in S : x <= y
  BY <1>2
<1> QED
  BY <1>3 DEF Min

LEMMA Places ==
    ASSUME NEW m \in Nat, NEW k \in Nat, NEW size \in Nat, NEW n \in Nat,
           m <= k, k <= size - 1, n = k - (m - 1)
    PROVE  n \in 1 .. size - m /\ m + n = k + 1 /\ ~(k <= m - 1)
  OBVIOUS

LEMMA LessThanSum ==
    ASSUME NEW x \in Nat, NEW y \in Nat, y # 0
    PROVE  x < x + y
  OBVIOUS

LEMMA RemovedIs ==
    ASSUME NEW T, NEW seq \in Seq(T), NEW m \in DOMAIN seq
    PROVE  /\ RemoveAt(seq, m) \in Seq(T)
           /\ Len(RemoveAt(seq, m)) = Len(seq) - 1
           /\ \A k \in 1 .. Len(seq) - 1 :
                  RemoveAt(seq, m)[k] = IF k < m THEN seq[k] ELSE seq[k + 1]
<1>1. Len(seq) \in Nat /\ m \in 1 .. Len(seq) /\ m \in Nat
  BY LenProperties
<1>2. /\ SubSeq(seq, 1, m - 1) \in Seq(T) /\ Len(SubSeq(seq, 1, m - 1)) = m - 1
      /\ \A k \in 1 .. m - 1 : SubSeq(seq, 1, m - 1)[k] = seq[k]
  BY <1>1, SubSeqProperties
<1>3. /\ SubSeq(seq, m + 1, Len(seq)) \in Seq(T)
      /\ Len(SubSeq(seq, m + 1, Len(seq))) = Len(seq) - m
      /\ \A k \in 1 .. Len(seq) - m : SubSeq(seq, m + 1, Len(seq))[k] = seq[m + k]
  <2>1. \A k \in m + 1 .. Len(seq) : seq[k] \in T
    BY <1>1, ElementOfSeq
  <2> QED
    BY <1>1, <2>1, SubSeqProperties
<1>4. PICK left \in Seq(T) : left = SubSeq(seq, 1, m - 1)
  BY <1>2
<1>5. PICK right \in Seq(T) : right = SubSeq(seq, m + 1, Len(seq))
  BY <1>3
<1>6. /\ left \o right \in Seq(T) /\ Len(left \o right) = Len(left) + Len(right)
      /\ \A k \in 1 .. Len(left) + Len(right) :
            (left \o right)[k] = IF k <= Len(left) THEN left[k] ELSE right[k - Len(left)]
  BY ConcatProperties
<1>7. RemoveAt(seq, m) = left \o right
  BY <1>4, <1>5 DEF RemoveAt
<1>8. /\ Len(left) = m - 1 /\ \A k \in 1 .. m - 1 : left[k] = seq[k]
      /\ Len(right) = Len(seq) - m /\ \A k \in 1 .. Len(seq) - m : right[k] = seq[m + k]
  BY <1>2, <1>3, <1>4, <1>5
<1>9. ASSUME NEW k \in 1 .. Len(seq) - 1
      PROVE  (left \o right)[k] = IF k < m THEN seq[k] ELSE seq[k + 1]
  <2>0. k \in Nat /\ k \in 1 .. Len(left) + Len(right) /\ Len(left) = m - 1
    BY <1>1, <1>8
  <2>1. CASE k < m
    BY <1>1, <1>6, <1>8, <2>0, <2>1
  <2>2. CASE ~(k < m)
    <3>0. PICK size \in Nat : size = Len(seq)
      BY <1>1
    <3>1. PICK n \in Nat : n = k - (m - 1)
      BY <1>1, <2>0, <2>2
    <3>2. n \in 1 .. size - m /\ m + n = k + 1 /\ ~(k <= m - 1)
      <4>1. m \in Nat /\ m <= k /\ k <= size - 1
        BY <1>1, <2>0, <2>2, <3>0
      <4> QED
        BY <2>0, <3>1, <4>1, Places
    <3>3. (left \o right)[k] = right[n]
      BY <1>6, <2>0, <3>1, <3>2
    <3>4. right[n] = seq[m + n]
      BY <1>8, <3>0, <3>2
    <3> QED
      BY <2>2, <3>2, <3>3, <3>4
  <2> QED
    BY <2>1, <2>2
<1>10. Len(left) + Len(right) = Len(seq) - 1
  BY <1>1, <1>8
<1> QED
  BY <1>6, <1>7, <1>9, <1>10, Zenon

LEMMA ReplacedIs ==
    ASSUME NEW T, NEW seq \in Seq(T), NEW i \in DOMAIN seq, NEW c \in T
    PROVE  /\ [seq EXCEPT ![i] = c] \in Seq(T)
           /\ Len([seq EXCEPT ![i] = c]) = Len(seq)
           /\ DOMAIN [seq EXCEPT ![i] = c] = DOMAIN seq
           /\ \A k \in DOMAIN seq : [seq EXCEPT ![i] = c][k] = IF k = i THEN c ELSE seq[k]
  BY ExceptSeq, LenProperties

-----------------------------------------------------------------------------
(* What a step does to the sockets that it is not about: their commands    *)
(* move up in the queue at most, their connections are the same.           *)

QueueKept(old, new, s) ==
    \E d \in {0, 1} :
        /\ \A p \in DOMAIN new :
               new[p].socket = s => p + d \in DOMAIN old /\ old[p + d] = new[p]
        /\ \A p \in DOMAIN old :
               old[p].socket = s => p - d \in DOMAIN new /\ new[p - d] = old[p]

OneOf(cs, s) == \A j, k \in DOMAIN cs : cs[j].socket = s /\ cs[k].socket = s => j = k

ConnsKept(old, new, s) ==
    /\ \A k \in DOMAIN new : new[k].socket = s => \E j \in DOMAIN old : old[j] = new[k]
    /\ \A j \in DOMAIN old : old[j].socket = s => \E k \in DOMAIN new : new[k] = old[j]
    /\ OneOf(old, s) => OneOf(new, s)

LEMMA SameQueueKept ==
    ASSUME Types, NEW s
    PROVE  QueueKept(queue, queue, s)
<1>1. \A p \in DOMAIN queue : p + 0 = p /\ p - 0 = p
  BY LenProperties DEF Types
<1> QED
  BY <1>1 DEF QueueKept

LEMMA AppendKept ==
    ASSUME NEW T, NEW old \in Seq(T), NEW c \in T, NEW s, c.socket # s
    PROVE  QueueKept(old, Append(old, c), s)
<1>1. PICK new : new = Append(old, c)
  OBVIOUS
<1>2. /\ DOMAIN old = 1 .. Len(old) /\ DOMAIN new = 1 .. Len(old) + 1 /\ Len(old) \in Nat
      /\ \A p \in 1 .. Len(old) : new[p] = old[p]
      /\ new[Len(old) + 1] = c
  BY <1>1, AppendProperties, LenProperties
<1>3. \A p \in DOMAIN new : new[p].socket = s => p + 0 \in DOMAIN old /\ old[p + 0] = new[p]
  BY <1>2
<1>4. \A p \in DOMAIN old : p - 0 \in DOMAIN new /\ new[p - 0] = old[p]
  BY <1>2
<1> QED
  BY <1>1, <1>3, <1>4 DEF QueueKept

LEMMA TailKept ==
    ASSUME NEW T, NEW old \in Seq(T), old # <<>>, NEW s, Head(old).socket # s
    PROVE  QueueKept(old, Tail(old), s)
<1>1. PICK new : new = Tail(old)
  OBVIOUS
<1>2. /\ DOMAIN old = 1 .. Len(old) /\ DOMAIN new = 1 .. Len(old) - 1
      /\ Len(old) \in Nat /\ Len(old) > 0 /\ old[1].socket # s
      /\ \A p \in 1 .. Len(old) - 1 : new[p] = old[p + 1]
  BY <1>1, HeadTailProperties, EmptySeq, LenProperties
<1>3. \A p \in DOMAIN new : p + 1 \in DOMAIN old /\ old[p + 1] = new[p]
  BY <1>2
<1>4. \A p \in DOMAIN old : old[p].socket = s => p - 1 \in DOMAIN new /\ new[p - 1] = old[p]
  <2> SUFFICES ASSUME NEW p \in DOMAIN old, old[p].socket = s
               PROVE  p - 1 \in DOMAIN new /\ new[p - 1] = old[p]
    OBVIOUS
  <2>1. p \in Nat /\ p # 1
    BY <1>2
  <2>2. p - 1 \in 1 .. Len(old) - 1 /\ (p - 1) + 1 = p
    BY <1>2, <2>1
  <2> QED
    BY <1>2, <2>2
<1> QED
  BY <1>1, <1>3, <1>4 DEF QueueKept

LEMMA SameConnsKept ==
    ASSUME NEW cs, NEW s
    PROVE  ConnsKept(cs, cs, s)
  BY DEF ConnsKept

LEMMA AppendedConnKept ==
    ASSUME NEW T, NEW old \in Seq(T), NEW c \in T, NEW s, c.socket # s
    PROVE  ConnsKept(old, Append(old, c), s)
<1>1. PICK new : new = Append(old, c)
  OBVIOUS
<1>2. /\ DOMAIN old = 1 .. Len(old) /\ DOMAIN new = 1 .. Len(old) + 1 /\ Len(old) \in Nat
      /\ \A p \in 1 .. Len(old) : new[p] = old[p]
      /\ new[Len(old) + 1] = c
  BY <1>1, AppendProperties, LenProperties
<1>3. \A k \in DOMAIN new : new[k].socket = s => k \in DOMAIN old /\ old[k] = new[k]
  BY <1>2
<1>4. \A k \in DOMAIN old : k \in DOMAIN new /\ new[k] = old[k]
  BY <1>2
<1> QED
  BY <1>1, <1>3, <1>4 DEF ConnsKept, OneOf

LEMMA ReplacedConnKept ==
    ASSUME NEW T, NEW old \in Seq(T), NEW i \in DOMAIN old, NEW c \in T, NEW s,
           c.socket # s, old[i].socket # s
    PROVE  ConnsKept(old, [old EXCEPT ![i] = c], s)
<1>1. PICK new : new = [old EXCEPT ![i] = c]
  OBVIOUS
<1>2. /\ DOMAIN new = DOMAIN old
      /\ \A k \in DOMAIN old : new[k] = IF k = i THEN c ELSE old[k]
  BY <1>1, ReplacedIs
<1> QED
  BY <1>1, <1>2 DEF ConnsKept, OneOf

LEMMA RemovedConnKept ==
    ASSUME NEW T, NEW old \in Seq(T), NEW m \in DOMAIN old, NEW s, old[m].socket # s
    PROVE  ConnsKept(old, RemoveAt(old, m), s)
<1>1. PICK new : new = RemoveAt(old, m)
  OBVIOUS
<1>2. /\ DOMAIN old = 1 .. Len(old) /\ DOMAIN new = 1 .. Len(old) - 1
      /\ Len(old) \in Nat /\ m \in 1 .. Len(old)
      /\ \A k \in 1 .. Len(old) - 1 : new[k] = IF k < m THEN old[k] ELSE old[k + 1]
  BY <1>1, RemovedIs, LenProperties
<1>3. PICK f : f = [k \in 1 .. Len(old) - 1 |-> IF k < m THEN k ELSE k + 1]
  OBVIOUS
<1>4. \A k \in DOMAIN new : f[k] \in DOMAIN old /\ new[k] = old[f[k]]
  BY <1>2, <1>3
<1>5. \A j, k \in DOMAIN new : f[j] = f[k] => j = k
  BY <1>2, <1>3
<1>6. \A j \in DOMAIN old : j # m => \E k \in DOMAIN new : f[k] = j
  <2> SUFFICES ASSUME NEW j \in DOMAIN old, j # m PROVE \E k \in DOMAIN new : f[k] = j
    OBVIOUS
  <2>1. CASE j < m
    BY <1>2, <1>3, <2>1
  <2>2. CASE j > m
    <3>1. j - 1 \in DOMAIN new /\ f[j - 1] = j
      BY <1>2, <1>3, <2>2
    <3> QED
      BY <3>1
  <2> QED
    BY <1>2, <2>1, <2>2
<1> HIDE <1>3
<1> QED
  BY <1>1, <1>4, <1>5, <1>6 DEF ConnsKept, OneOf

-----------------------------------------------------------------------------
(* A socket that a step is not about stays as it is.                       *)

LEMMA QueuedKept ==
    ASSUME NEW s, QueueKept(queue, queue', s), NEW op
    PROVE  Queued(op, s)' <=> Queued(op, s)
<1>1. PICK d \in {0, 1} :
        /\ \A p \in DOMAIN queue' :
               queue'[p].socket = s => p + d \in DOMAIN queue /\ queue[p + d] = queue'[p]
        /\ \A p \in DOMAIN queue :
               queue[p].socket = s => p - d \in DOMAIN queue' /\ queue'[p - d] = queue[p]
  BY Zenon DEF QueueKept
<1>2. Command(op, s).socket = s
  BY DEF Command
<1>3. Queued(op, s)' <=> \E p \in DOMAIN queue' : queue'[p] = Command(op, s)
  BY DEF Queued, Command
<1> QED
  BY <1>1, <1>2, <1>3, Zenon DEF Queued

LEMMA PlaceFrame ==
    ASSUME NEW s \in Sockets, PlaceInv(s), Types, Types',
           QueueKept(queue, queue', s), ConnsKept(conns, conns', s), peer'[s] = peer[s]
    PROVE  PlaceInv(s)'
<1>1. PICK d \in {0, 1} :
        /\ \A p \in DOMAIN queue' :
               queue'[p].socket = s => p + d \in DOMAIN queue /\ queue[p + d] = queue'[p]
        /\ \A p \in DOMAIN queue :
               queue[p].socket = s => p - d \in DOMAIN queue' /\ queue'[p - d] = queue[p]
  BY Zenon DEF QueueKept
<1>2. DOMAIN queue \subseteq Nat /\ DOMAIN queue' \subseteq Nat
  <2>1. queue \in Seq(CommandType) /\ queue' \in Seq(CommandType)
    BY DEF Types
  <2> QED
    BY <2>1, LenProperties
<1>3. /\ Command("connect", s).socket = s
      /\ Command("disconnect", s).socket = s
  BY DEF Command
<1>4. ASSUME peer[s].state = "listening"
      PROVE  /\ peer[s] = Listening
             /\ \A p \in DOMAIN queue' : queue'[p].socket # s
             /\ \A k \in DOMAIN conns' : conns'[k].socket # s
  <2>1. /\ peer[s] = Listening
        /\ \A p \in DOMAIN queue : queue[p].socket # s
        /\ \A k \in DOMAIN conns : conns[k].socket # s
    BY <1>4, Zenon DEF PlaceInv
  <2>2. \A p \in DOMAIN queue' : queue'[p].socket # s
    BY <1>1, <2>1, Zenon
  <2>3. \A k \in DOMAIN conns' : conns'[k].socket # s
    BY <2>1, Zenon DEF ConnsKept
  <2> QED
    BY <2>1, <2>2, <2>3
<1>5. \A p, q \in DOMAIN queue' :
          queue'[p] = Command("connect", s) /\ queue'[q].socket = s => p <= q
  <2>1. \A p, q \in DOMAIN queue :
            queue[p] = Command("connect", s) /\ queue[q].socket = s => p <= q
    BY Zenon DEF PlaceInv
  <2> SUFFICES ASSUME NEW p \in DOMAIN queue', NEW q \in DOMAIN queue',
                      queue'[p] = Command("connect", s), queue'[q].socket = s
               PROVE  p <= q
    OBVIOUS
  <2>2. /\ p + d \in DOMAIN queue /\ queue[p + d] = Command("connect", s)
        /\ q + d \in DOMAIN queue /\ queue[q + d].socket = s
    BY <1>1, <1>3, Zenon
  <2>3. p + d <= q + d
    BY <2>1, <2>2
  <2> QED
    BY <1>2, <2>3
<1>6. \A p, q \in DOMAIN queue' :
          queue'[p] = Command("disconnect", s) /\ queue'[q].socket = s => q <= p
  <2>1. \A p, q \in DOMAIN queue :
            queue[p] = Command("disconnect", s) /\ queue[q].socket = s => q <= p
    BY Zenon DEF PlaceInv
  <2> SUFFICES ASSUME NEW p \in DOMAIN queue', NEW q \in DOMAIN queue',
                      queue'[p] = Command("disconnect", s), queue'[q].socket = s
               PROVE  q <= p
    OBVIOUS
  <2>2. /\ p + d \in DOMAIN queue /\ queue[p + d] = Command("disconnect", s)
        /\ q + d \in DOMAIN queue /\ queue[q + d].socket = s
    BY <1>1, <1>3, Zenon
  <2>3. q + d <= p + d
    BY <2>1, <2>2
  <2> QED
    BY <1>2, <2>3
<1>7. /\ Queued("disconnect", s)' <=> Queued("disconnect", s)
      /\ Queued("connect", s)' <=> Queued("connect", s)
  BY QueuedKept, Zenon
<1>8. OneOf(conns', s)
  BY Zenon DEF PlaceInv, OneOf, ConnsKept
<1>9. (\A k \in DOMAIN conns' : conns'[k].socket # s)
         <=> \A k \in DOMAIN conns : conns[k].socket # s
  BY Zenon DEF ConnsKept
<1>10. /\ Queued("disconnect", s) <=> peer[s].state = "closed"
       /\ peer[s].state # "listening" =>
             (Queued("connect", s) <=> \A k \in DOMAIN conns : conns[k].socket # s)
  BY Zenon DEF PlaceInv
<1>11. /\ Queued("disconnect", s)' <=> peer'[s].state = "closed"
       /\ peer'[s].state # "listening" =>
             (Queued("connect", s)' <=> \A k \in DOMAIN conns' : conns'[k].socket # s)
  BY <1>7, <1>9, <1>10
<1>12. peer'[s].state = "listening" =>
           /\ peer'[s] = Listening
           /\ \A p \in DOMAIN queue' : queue'[p].socket # s
           /\ \A k \in DOMAIN conns' : conns'[k].socket # s
  BY <1>4
<1>13. \A j, k \in DOMAIN conns' :
           conns'[j].socket = s /\ conns'[k].socket = s => j = k
  BY <1>8, Zenon DEF OneOf
<1> QED
  BY <1>5, <1>6, <1>11, <1>12, <1>13, Zenon DEF PlaceInv, Listening, Command

LEMMA TalkFrame ==
    ASSUME NEW s \in Sockets, TalkInv(s),
           QueueKept(queue, queue', s), ConnsKept(conns, conns', s), peer'[s] = peer[s]
    PROVE  TalkInv(s)'
<1>1. Queued("data", s)' <=> Queued("data", s)
  BY QueuedKept, Zenon
<1>2. (\E k \in DOMAIN conns : conns[k].socket = s /\ conns[k].active)
         => \E k \in DOMAIN conns' : conns'[k].socket = s /\ conns'[k].active
  BY Zenon DEF ConnsKept
<1>3. Contains(peer'[s].inbox, "last") <=> Contains(peer[s].inbox, "last")
  OBVIOUS
<1>4. /\ \A p \in DOMAIN peer[s].inbox : peer[s].inbox[p] = "last" => p = Len(peer[s].inbox)
      /\ peer[s].state = "open" /\ Contains(peer[s].inbox, "last") => peer[s].awaiting
  BY Zenon DEF TalkInv
<1>5. /\ \A p \in DOMAIN peer'[s].inbox : peer'[s].inbox[p] = "last" => p = Len(peer'[s].inbox)
      /\ peer'[s].state = "open" /\ Contains(peer'[s].inbox, "last") => peer'[s].awaiting
  BY <1>4
<1>6. peer'[s].state = "open" /\ peer'[s].inbox # <<>> =>
           \/ Queued("data", s)'
           \/ \E k \in DOMAIN conns' : conns'[k].socket = s /\ conns'[k].active
  BY <1>1, <1>2 DEF TalkInv
<1> QED
  BY <1>5, <1>6, Zenon DEF TalkInv, Contains

LEMMA ServedFrame ==
    ASSUME NEW s \in Sockets, NEW c, ServedInv(s, c),
           Queued("data", s) => Queued("data", s)',
           peer'[s] = peer[s], received'[s] = received[s]
    PROVE  /\ received'[s] \o c.dangling = [n \in 1 .. c.response.pos |-> n]
           /\ peer'[s].state = "open" => Queued("data", s)' \/ c.active
           /\ peer'[s].state = "open" /\ Len(received'[s]) < Total(c.response) =>
                  peer'[s].awaiting /\ peer'[s].inbox = <<>>
  BY Zenon DEF ServedInv

LEMMA SocketFrame ==
    ASSUME NEW s \in Sockets, SocketInv(s), Types, Types',
           QueueKept(queue, queue', s), ConnsKept(conns, conns', s),
           peer'[s] = peer[s], received'[s] = received[s]
    PROVE  SocketInv(s)'
<1>1. PlaceInv(s)'
  BY PlaceFrame, Zenon DEF SocketInv
<1>2. TalkInv(s)'
  BY TalkFrame, Zenon DEF SocketInv
<1>3. Serves(s)'
  <2>1. Serves(s)
    BY Zenon DEF SocketInv
  <2> SUFFICES ASSUME NEW k \in DOMAIN conns', conns'[k].socket = s, conns'[k].response # None
               PROVE  ServedInv(s, conns[k])'
    BY Zenon DEF Serves
  <2>2. PICK j \in DOMAIN conns : conns[j] = conns'[k]
    BY Zenon DEF ConnsKept
  <2>3. ServedInv(s, conns[j])
    BY <2>1, <2>2, Zenon DEF Serves
  <2>4. Queued("data", s)' <=> Queued("data", s)
    BY QueuedKept, Zenon
  <2>5. PICK c : c = conns[j]
    OBVIOUS
  <2>6. ServedInv(s, c)
    BY <2>3, <2>5
  <2>7. /\ received'[s] \o c.dangling = [n \in 1 .. c.response.pos |-> n]
        /\ peer'[s].state = "open" => Queued("data", s)' \/ c.active
        /\ peer'[s].state = "open" /\ Len(received'[s]) < Total(c.response) =>
               peer'[s].awaiting /\ peer'[s].inbox = <<>>
    BY <2>4, <2>6, ServedFrame, Zenon
  <2>8. c = conns'[k]
    BY <2>2, <2>5
  <2> QED
    BY <2>7, <2>8, Zenon DEF ServedInv, Total
<1> QED
  BY <1>1, <1>2, <1>3, Zenon DEF SocketInv

-----------------------------------------------------------------------------
(* The network thread                                                      *)

LEMMA BasicFrame ==
    ASSUME BasicInv, Types', UNCHANGED <<handler, conns, up>>
    PROVE  BasicInv'
<1>1. /\ \A k \in DOMAIN conns : WellFormed(conns[k])
      /\ HandlerFits(handler, conns) /\ ("plain" \notin up => handler.at = "none")
  BY Zenon DEF BasicInv, HandlerInv
<1>2. \A k \in DOMAIN conns' : WellFormed(conns'[k])
  BY <1>1
<1>3. HandlerFits(handler', conns') /\ ("plain" \notin up' => handler'.at = "none")
  BY <1>1
<1> QED
  BY <1>2, <1>3, Zenon DEF BasicInv, HandlerInv, WellFormed, Total, HandlerFits, AnyActive

LEMMA PostIs ==
    ASSUME Types, NEW op \in Ops, NEW s \in Sockets, Post(op, s)
    PROVE  /\ queue' \in Seq(CommandType) /\ astray \subseteq astray' /\ astray' \subseteq Sockets
           /\ \A t \in Sockets \ {s} : QueueKept(queue, queue', t)
           /\ s \notin astray' =>
                  /\ DOMAIN queue = 1 .. Len(queue) /\ DOMAIN queue' = 1 .. Len(queue) + 1
                  /\ Len(queue) \in Nat
                  /\ \A p \in DOMAIN queue : queue'[p] = queue[p]
                  /\ queue'[Len(queue) + 1] = Command(op, s)
<1>1. queue \in Seq(CommandType) /\ astray \subseteq Sockets
  BY DEF Types
<1>2. PICK c \in CommandType : c = Command(op, s)
  BY DEF Command, CommandType
<1>3. c.socket = s
  BY <1>2 DEF Command
<1>4. CASE queue' = Append(queue, c) /\ astray' = astray
  <2>1. \A t \in Sockets \ {s} : QueueKept(queue, Append(queue, c), t)
    BY <1>1, <1>3, AppendKept
  <2>2. /\ Append(queue, c) \in Seq(CommandType)
        /\ DOMAIN queue = 1 .. Len(queue) /\ DOMAIN Append(queue, c) = 1 .. Len(queue) + 1
        /\ Len(queue) \in Nat
        /\ \A p \in DOMAIN queue : Append(queue, c)[p] = queue[p]
        /\ Append(queue, c)[Len(queue) + 1] = c
    BY <1>1, AppendProperties, LenProperties
  <2> QED
    BY <1>1, <1>2, <1>4, <2>1, <2>2
<1>5. CASE queue' = queue /\ astray' = astray \cup {s}
  BY <1>1, <1>5, SameQueueKept
<1> QED
  BY <1>2, <1>4, <1>5, Zenon DEF Post

(* The steps of the network thread change the peer of one socket.          *)
NetworkChange(s) ==
    /\ peer' \in [Sockets -> PeerType] /\ connects' \in Nat
    /\ \A t \in Sockets \ {s} : peer'[t] = peer[t]
    /\ UNCHANGED <<control, handler, conns, received, packets>>

LEMMA NetworkFrame ==
    ASSUME ServerInv, NEW op \in Ops, NEW s \in Sockets, Post(op, s), NetworkChange(s),
           s \notin astray' => SocketInv(s)'
    PROVE  ServerInv'
<1>1. /\ BasicInv /\ Types /\ (\A t \in Settled : SocketInv(t))
  BY Zenon DEF ServerInv, BasicInv
<1>2. /\ queue' \in Seq(CommandType) /\ astray \subseteq astray' /\ astray' \subseteq Sockets
      /\ \A t \in Sockets \ {s} : QueueKept(queue, queue', t)
  BY <1>1, PostIs, Zenon
<1>3. Types'
  BY <1>1, <1>2 DEF Types, NetworkChange, control
<1>4. BasicInv'
  BY <1>1, <1>3, BasicFrame DEF NetworkChange, control
<1>5. ASSUME NEW t \in Sockets, t \notin astray', t # s
      PROVE  SocketInv(t)'
  <2>1. SocketInv(t)
    BY <1>1, <1>2, <1>5 DEF Settled
  <2>2. QueueKept(queue, queue', t) /\ peer'[t] = peer[t] /\ received'[t] = received[t]
    BY <1>2, <1>5 DEF NetworkChange
  <2>3. ConnsKept(conns, conns', t)
    BY SameConnsKept DEF NetworkChange
  <2> QED
    BY <1>1, <1>3, <2>1, <2>2, <2>3, SocketFrame, Zenon
<1>6. \A t \in Settled' : SocketInv(t)'
  BY <1>5 DEF Settled
<1> QED
  BY <1>4, <1>6, Zenon DEF ServerInv

(* A command that is posted for s, and not lost.                           *)
LEMMA PostedIs ==
    ASSUME Types, NEW op \in Ops, NEW s \in Sockets, Post(op, s), s \notin astray'
    PROVE  /\ \A other \in Ops : Queued(other, s)' <=> Queued(other, s) \/ other = op
           /\ \A p \in DOMAIN queue' : p \in DOMAIN queue \/ p = Len(queue) + 1
           /\ \A p \in DOMAIN queue : p \in DOMAIN queue' /\ queue'[p] = queue[p] /\ p < Len(queue) + 1
           /\ Len(queue) + 1 \in DOMAIN queue' /\ queue'[Len(queue) + 1] = Command(op, s)
           /\ Len(queue) \in Nat
<1>1. /\ DOMAIN queue = 1 .. Len(queue) /\ DOMAIN queue' = 1 .. Len(queue) + 1
      /\ Len(queue) \in Nat
      /\ \A p \in DOMAIN queue : queue'[p] = queue[p]
      /\ queue'[Len(queue) + 1] = Command(op, s)
  BY PostIs
<1>2. /\ \A p \in DOMAIN queue' : p \in DOMAIN queue \/ p = Len(queue) + 1
      /\ \A p \in DOMAIN queue : p \in DOMAIN queue' /\ p < Len(queue) + 1
      /\ Len(queue) + 1 \in DOMAIN queue'
  BY <1>1
<1>3. ASSUME NEW other \in Ops
      PROVE  Queued(other, s)' <=> Queued(other, s) \/ other = op
  <2>1. Command(other, s) = Command(op, s) <=> other = op
    BY DEF Command
  <2>2. Queued(other, s)' <=> \E p \in DOMAIN queue' : queue'[p] = Command(other, s)
    BY DEF Queued, Command
  <2>3. Queued(other, s) <=> \E p \in DOMAIN queue : queue[p] = Command(other, s)
    BY DEF Queued
  <2> HIDE DEF Command
  <2> QED
    BY <1>1, <1>2, <2>1, <2>2, <2>3, Zenon
<1> QED
  BY <1>1, <1>2, <1>3, Zenon

LEMMA Typed ==
    ASSUME Types, NEW s \in Sockets
    PROVE  /\ peer[s] \in PeerType /\ peer[s].inbox \in Seq({"part", "last"})
           /\ peer[s].awaiting \in BOOLEAN /\ received[s] \in Seq(Nat)
           /\ peer[s].state \in {"listening", "open", "closed"}
<1>1. peer[s] \in PeerType /\ received[s] \in Seq(Nat)
  BY DEF Types
<1> QED
  BY <1>1 DEF PeerType

LEMMA ConnectKeeps ==
    ASSUME ServerInv, NEW s \in Sockets, Connect(s)
    PROVE  ServerInv'
<1>1. /\ Types /\ Post("connect", s) /\ "connect" \in Ops
  BY Zenon DEF ServerInv, BasicInv, Connect, Ops
<1>2. /\ peer[s].state = "listening"
      /\ peer' = [peer EXCEPT ![s].state = "open"] /\ connects' = connects + 1
      /\ UNCHANGED <<control, handler, conns, received, packets>>
  BY Zenon DEF Connect
<1>3. /\ peer'[s] = [peer[s] EXCEPT !.state = "open"] /\ peer[s] \in PeerType
      /\ peer' \in [Sockets -> PeerType] /\ \A t \in Sockets \ {s} : peer'[t] = peer[t]
  BY <1>1, <1>2 DEF Types, PeerType
<1>4. NetworkChange(s)
  BY <1>1, <1>2, <1>3 DEF NetworkChange, Types
<1>5. ASSUME s \notin astray' PROVE SocketInv(s)'
  <2>1. astray \subseteq astray'
    BY <1>1, PostIs, Zenon
  <2>2. s \in Settled
    BY <1>5, <2>1 DEF Settled
  <2>3. PlaceInv(s)
    BY <2>2, Zenon DEF ServerInv, SocketInv
  <2>4. /\ peer[s] = Listening /\ \A p \in DOMAIN queue : queue[p].socket # s
        /\ \A k \in DOMAIN conns : conns[k].socket # s
    BY <1>2, <2>3, Zenon DEF PlaceInv
  <2>5. peer'[s].state = "open" /\ peer'[s].inbox = <<>>
    BY <1>3, <2>4 DEF Listening
  <2>6. /\ \A other \in Ops : Queued(other, s)' <=> Queued(other, s) \/ other = "connect"
        /\ \A p \in DOMAIN queue' : p \in DOMAIN queue \/ p = Len(queue) + 1
        /\ \A p \in DOMAIN queue : p \in DOMAIN queue' /\ queue'[p] = queue[p] /\ p < Len(queue) + 1
        /\ Len(queue) + 1 \in DOMAIN queue' /\ queue'[Len(queue) + 1] = Command("connect", s)
        /\ Len(queue) \in Nat
    BY <1>1, <1>5, PostedIs, Zenon
  <2>7. \A p \in DOMAIN queue' : queue'[p].socket = s => p = Len(queue) + 1
    BY <2>4, <2>6, Zenon
  <2>8. \A k \in DOMAIN conns' : conns'[k].socket # s
    BY <1>2, <2>4
  <2>9. Queued("connect", s)' /\ ~Queued("disconnect", s)'
    <3>1. ~Queued("disconnect", s)
      BY <2>4 DEF Queued, Command
    <3> QED
      BY <2>6, <3>1 DEF Ops
  <2>10. \A p, q \in DOMAIN queue' : queue'[p].socket = s /\ queue'[q].socket = s => p <= q
    BY <2>6, <2>7
  <2>11. \A op : Command(op, s).socket = s
    BY DEF Command
  <2>12. PlaceInv(s)'
    <3>1. \A p, q \in DOMAIN queue' :
             queue'[p] = Command("connect", s) /\ queue'[q].socket = s => p <= q
      BY <2>10, <2>11, Zenon
    <3>2. \A p, q \in DOMAIN queue' :
             queue'[p] = Command("disconnect", s) /\ queue'[q].socket = s => q <= p
      BY <2>10, <2>11, Zenon
    <3>3. /\ peer'[s].state # "listening" /\ peer'[s].state # "closed"
      BY <2>5
    <3> QED
      BY <2>8, <2>9, <3>1, <3>2, <3>3, Zenon DEF PlaceInv, Command
  <2>13. TalkInv(s)'
    <3>1. \A p : p \notin DOMAIN peer'[s].inbox
      BY <2>5
    <3>2. ~Contains(peer'[s].inbox, "last")
      BY <2>5 DEF Contains
    <3> QED
      BY <2>5, <3>1, <3>2, Zenon DEF TalkInv, Contains
  <2>14. Serves(s)'
    BY <2>8, Zenon DEF Serves
  <2> QED
    BY <2>12, <2>13, <2>14, Zenon DEF SocketInv
<1> QED
  BY <1>1, <1>4, <1>5, NetworkFrame, Zenon

LEMMA PlacePosted ==
    ASSUME Types, NEW op \in {"data", "disconnect"}, NEW s \in Sockets, Post(op, s),
           s \notin astray', PlaceInv(s), conns' = conns, peer[s].state = "open",
           peer'[s].state = IF op = "disconnect" THEN "closed" ELSE "open"
    PROVE  PlaceInv(s)'
<1>1. op \in Ops /\ "connect" \in Ops /\ "disconnect" \in Ops /\ op # "connect"
  BY DEF Ops
<1>2. /\ \A other \in Ops : Queued(other, s)' <=> Queued(other, s) \/ other = op
      /\ \A p \in DOMAIN queue' : p \in DOMAIN queue \/ p = Len(queue) + 1
      /\ \A p \in DOMAIN queue : p \in DOMAIN queue' /\ queue'[p] = queue[p] /\ p < Len(queue) + 1
      /\ Len(queue) + 1 \in DOMAIN queue' /\ queue'[Len(queue) + 1] = Command(op, s)
      /\ Len(queue) \in Nat
  BY <1>1, PostedIs, Zenon
<1>3. DOMAIN queue \subseteq Nat
  BY LenProperties DEF Types
<1>4. /\ \A p, q \in DOMAIN queue :
             queue[p] = Command("connect", s) /\ queue[q].socket = s => p <= q
      /\ ~Queued("disconnect", s)
      /\ \A j, k \in DOMAIN conns : conns[j].socket = s /\ conns[k].socket = s => j = k
      /\ Queued("connect", s) <=> \A k \in DOMAIN conns : conns[k].socket # s
  <2>1. peer[s].state # "closed" /\ peer[s].state # "listening"
    OBVIOUS
  <2> QED
    BY <2>1, Zenon DEF PlaceInv
<1>5. \A other1, other2 : Command(other1, s) = Command(other2, s) => other1 = other2
  BY DEF Command
<1>6. \A p, q \in DOMAIN queue' :
          queue'[p] = Command("connect", s) /\ queue'[q].socket = s => p <= q
  <2> SUFFICES ASSUME NEW p \in DOMAIN queue', NEW q \in DOMAIN queue',
                      queue'[p] = Command("connect", s), queue'[q].socket = s
               PROVE  p <= q
    OBVIOUS
  <2>1. p # Len(queue) + 1
    BY <1>1, <1>2, <1>5, Zenon
  <2>2. p \in DOMAIN queue /\ queue[p] = Command("connect", s) /\ p < Len(queue) + 1
    BY <1>2, <2>1, Zenon
  <2>3. CASE q = Len(queue) + 1
    BY <1>2, <1>3, <2>2, <2>3
  <2>4. CASE q \in DOMAIN queue
    <3>1. queue[q].socket = s
      BY <1>2, <2>4
    <3> QED
      BY <1>4, <2>2, <2>4, <3>1
  <2> QED
    BY <1>2, <2>3, <2>4
<1>7. ASSUME NEW p \in DOMAIN queue', queue'[p] = Command("disconnect", s)
      PROVE  p = Len(queue) + 1
  <2>1. p \in DOMAIN queue => queue[p] = Command("disconnect", s)
    BY <1>2, <1>7
  <2>2. p \notin DOMAIN queue
    BY <1>4, <2>1 DEF Queued
  <2> QED
    BY <1>2, <2>2
<1>8. \A p, q \in DOMAIN queue' :
          queue'[p] = Command("disconnect", s) /\ queue'[q].socket = s => q <= p
  <2>1. \A q \in DOMAIN queue' : q <= Len(queue) + 1
    BY <1>2, <1>3
  <2> QED
    BY <1>7, <2>1
<1>9. Queued("disconnect", s)' <=> op = "disconnect"
  BY <1>1, <1>2, <1>4
<1>10. Queued("disconnect", s)' <=> peer'[s].state = "closed"
  BY <1>9
<1>11. Queued("connect", s)' <=> \A k \in DOMAIN conns' : conns'[k].socket # s
  BY <1>1, <1>2, <1>4
<1>12. \A j, k \in DOMAIN conns' : conns'[j].socket = s /\ conns'[k].socket = s => j = k
  BY <1>4
<1>13. peer'[s].state # "listening"
  OBVIOUS
<1> QED
  BY <1>6, <1>8, <1>10, <1>11, <1>12, <1>13, Zenon DEF PlaceInv, Command

LEMMA SendDataKeeps ==
    ASSUME ServerInv, NEW s \in Sockets, NEW fragment \in {"part", "last"}, SendData(s, fragment)
    PROVE  ServerInv'
<1>1. /\ Types /\ Post("data", s) /\ "data" \in Ops
  BY Zenon DEF ServerInv, BasicInv, SendData, Ops
<1>2. /\ peer[s].state = "open" /\ ~peer[s].awaiting /\ s \notin astray
      /\ fragment = "part" => s \in Chunked /\ peer[s].inbox = <<>>
      /\ peer' = [peer EXCEPT ![s].inbox = Append(@, fragment),
                              ![s].awaiting = fragment = "last"]
      /\ UNCHANGED <<control, handler, conns, received, packets, connects>>
  BY Zenon DEF SendData
<1>3. PICK inbox : inbox = peer[s].inbox
  OBVIOUS
<1>4. PICK longer : longer = Append(inbox, fragment)
  OBVIOUS
<1>5. /\ inbox \in Seq({"part", "last"}) /\ longer \in Seq({"part", "last"})
      /\ DOMAIN inbox = 1 .. Len(inbox) /\ Len(inbox) \in Nat
      /\ DOMAIN longer = 1 .. Len(inbox) + 1 /\ Len(longer) = Len(inbox) + 1
      /\ \A p \in 1 .. Len(inbox) : longer[p] = inbox[p]
      /\ longer[Len(inbox) + 1] = fragment
  BY <1>1, <1>3, <1>4, Typed, AppendProperties, LenProperties
<1>6. /\ peer'[s].inbox = longer /\ peer'[s].awaiting = (fragment = "last")
      /\ peer'[s].state = "open"
      /\ peer' \in [Sockets -> PeerType] /\ \A t \in Sockets \ {s} : peer'[t] = peer[t]
  BY <1>1, <1>2, <1>3, <1>4, <1>5 DEF Types, PeerType
<1>7. NetworkChange(s)
  BY <1>1, <1>2, <1>6 DEF NetworkChange, Types
<1>8. ASSUME s \notin astray' PROVE SocketInv(s)'
  <2>1. s \in Settled
    BY <1>2 DEF Settled
  <2>2. PlaceInv(s) /\ TalkInv(s) /\ Serves(s)
    BY <2>1, Zenon DEF ServerInv, SocketInv
  <2>3. PlaceInv(s)'
    BY <1>1, <1>2, <1>6, <1>8, <2>2, PlacePosted
  <2>4. Queued("data", s)'
    BY <1>1, <1>8, PostedIs
  <2>5. \A p \in 1 .. Len(inbox) : inbox[p] # "last"
    BY <1>2, <1>3, <1>5, <2>2 DEF TalkInv, Contains
  <2>6. TalkInv(s)'
    <3>1. \A p \in DOMAIN longer : longer[p] = "last" => p = Len(longer)
      BY <1>5, <2>5
    <3>2. Contains(longer, "last") => fragment = "last"
      BY <1>5, <2>5 DEF Contains
    <3> QED
      BY <1>6, <2>4, <3>1, <3>2, Zenon DEF TalkInv, Contains
  <2>7. Serves(s)'
    <3> SUFFICES ASSUME NEW k \in DOMAIN conns', conns'[k].socket = s, conns'[k].response # None
                 PROVE  ServedInv(s, conns[k])'
      BY Zenon DEF Serves
    <3>1. PICK c : c = conns[k]
      OBVIOUS
    <3>2. conns' = conns /\ received' = received
      BY <1>2
    <3>3. ServedInv(s, c)
      BY <2>2, <3>1, <3>2, Zenon DEF Serves
    <3>4. received'[s] \o c.dangling = [n \in 1 .. c.response.pos |-> n]
      BY <3>2, <3>3, Zenon DEF ServedInv
    <3>5. ~(Len(received'[s]) < Total(c.response))
      BY <1>2, <3>2, <3>3, Zenon DEF ServedInv
    <3>6. c = conns'[k]
      BY <3>1, <3>2
    <3> QED
      BY <2>4, <3>4, <3>5, <3>6, Zenon DEF ServedInv, Total
  <2> QED
    BY <2>3, <2>6, <2>7, Zenon DEF SocketInv
<1> QED
  BY <1>1, <1>7, <1>8, NetworkFrame, Zenon

LEMMA DisconnectKeeps ==
    ASSUME ServerInv, NEW s \in Sockets, Disconnect(s)
    PROVE  ServerInv'
<1>1. /\ Types /\ Post("disconnect", s) /\ "disconnect" \in Ops /\ "data" \in Ops
  BY Zenon DEF ServerInv, BasicInv, Disconnect, Ops
<1>2. /\ peer[s].state = "open"
      /\ peer' = [peer EXCEPT ![s].state = "closed", ![s].awaiting = FALSE]
      /\ UNCHANGED <<control, handler, conns, received, packets, connects>>
  BY Zenon DEF Disconnect
<1>3. /\ peer'[s].inbox = peer[s].inbox /\ peer'[s].state = "closed"
      /\ peer' \in [Sockets -> PeerType] /\ \A t \in Sockets \ {s} : peer'[t] = peer[t]
  BY <1>1, <1>2 DEF Types, PeerType
<1>4. NetworkChange(s)
  BY <1>1, <1>2, <1>3 DEF NetworkChange, Types
<1>5. ASSUME s \notin astray' PROVE SocketInv(s)'
  <2>1. astray \subseteq astray'
    BY <1>1, PostIs, Zenon
  <2>2. s \in Settled
    BY <1>5, <2>1 DEF Settled
  <2>3. PlaceInv(s) /\ TalkInv(s) /\ Serves(s)
    BY <2>2, Zenon DEF ServerInv, SocketInv
  <2>4. PlaceInv(s)'
    BY <1>1, <1>2, <1>3, <1>5, <2>3, PlacePosted
  <2>5. TalkInv(s)'
    <3>1. \A p \in DOMAIN peer[s].inbox : peer[s].inbox[p] = "last" => p = Len(peer[s].inbox)
      BY <2>3, Zenon DEF TalkInv
    <3>2. \A p \in DOMAIN peer'[s].inbox : peer'[s].inbox[p] = "last" => p = Len(peer'[s].inbox)
      BY <1>3, <3>1
    <3>3. peer'[s].state # "open"
      BY <1>3
    <3> QED
      BY <3>2, <3>3, Zenon DEF TalkInv
  <2>6. Serves(s)'
    <3> SUFFICES ASSUME NEW k \in DOMAIN conns', conns'[k].socket = s, conns'[k].response # None
                 PROVE  ServedInv(s, conns[k])'
      BY Zenon DEF Serves
    <3>1. PICK c : c = conns[k]
      OBVIOUS
    <3>2. conns' = conns /\ received' = received
      BY <1>2
    <3>3. ServedInv(s, c)
      BY <2>3, <3>1, <3>2, Zenon DEF Serves
    <3>4. received'[s] \o c.dangling = [n \in 1 .. c.response.pos |-> n]
      BY <3>2, <3>3, Zenon DEF ServedInv
    <3>5. peer'[s].state # "open"
      BY <1>3
    <3>6. c = conns'[k]
      BY <3>1, <3>2
    <3> QED
      BY <3>4, <3>5, <3>6, Zenon DEF ServedInv
  <2> QED
    BY <2>4, <2>5, <2>6, Zenon DEF SocketInv
<1> QED
  BY <1>1, <1>4, <1>5, NetworkFrame, Zenon

-----------------------------------------------------------------------------
(* The commands of the handler thread                                      *)

LEMMA RoundFits ==
    ASSUME run \in BOOLEAN, NEW cs \in Seq(ConnectionType), NEW k \in Nat \ {0}
    PROVE  /\ HandlerFits(Round(k, cs), cs) /\ Round(k, cs) \in HandlerType
           /\ Round(k, cs).at # "none"
<1>1. AnyActive(cs) \in BOOLEAN /\ DOMAIN cs = 1 .. Len(cs) /\ Len(cs) \in Nat
  BY LenProperties DEF AnyActive
<1>2. PICK h : h = Round(k, cs)
  OBVIOUS
<1>3. CASE k <= Len(cs)
  <2>1. h = [at |-> "read", forever |-> FALSE, i |-> k]
    BY <1>2, <1>3 DEF Round
  <2>2. k \in DOMAIN cs
    BY <1>1, <1>3
  <2> QED
    BY <1>2, <2>1, <2>2 DEF HandlerFits, HandlerType
<1>4. CASE ~(k <= Len(cs)) /\ run
  <2>1. PICK awake \in BOOLEAN : awake = ~AnyActive(cs)
    BY <1>1
  <2>2. h = [at |-> "process", forever |-> awake, i |-> 1]
    BY <1>2, <1>4, <2>1 DEF Round, Loop
  <2>3. h.at = "process" /\ h.forever = awake /\ h \in HandlerType
    BY <2>2 DEF HandlerType
  <2>4. HandlerFits(h, cs)
    BY <2>1, <2>3 DEF HandlerFits
  <2> QED
    BY <1>2, <2>3, <2>4
<1>5. CASE ~(k <= Len(cs)) /\ ~run
  <2>1. h = [at |-> "ended", forever |-> FALSE, i |-> 1]
    BY <1>2, <1>5 DEF Round, Loop, NoThread
  <2> QED
    BY <1>2, <2>1 DEF HandlerFits, HandlerType
<1> QED
  BY <1>3, <1>4, <1>5

LEMMA PoppedIs ==
    ASSUME Types, NEW op \in Ops, NEW s \in Sockets, queue # <<>>,
           Head(queue) = Command(op, s), queue' = Tail(queue)
    PROVE  /\ queue' \in Seq(CommandType)
           /\ \A t \in Sockets \ {s} : QueueKept(queue, queue', t)
           /\ 1 \in DOMAIN queue /\ queue[1] = Command(op, s)
           /\ \A p \in DOMAIN queue' : p \in Nat /\ p + 1 \in DOMAIN queue /\ queue'[p] = queue[p + 1]
           /\ \A p \in DOMAIN queue : p # 1 => p - 1 \in DOMAIN queue' /\ queue'[p - 1] = queue[p]
           /\ \A other \in Ops : other # op => (Queued(other, s)' <=> Queued(other, s))
<1>1. /\ queue \in Seq(CommandType) /\ DOMAIN queue = 1 .. Len(queue) /\ Len(queue) \in Nat
  BY LenProperties DEF Types
<1>2. /\ queue' \in Seq(CommandType) /\ Len(queue) > 0 /\ queue[1] = Command(op, s)
      /\ DOMAIN queue' = 1 .. Len(queue) - 1
      /\ \A p \in 1 .. Len(queue) - 1 : queue'[p] = queue[p + 1]
  BY <1>1, HeadTailProperties, EmptySeq, LenProperties
<1>3. \A t \in Sockets \ {s} : QueueKept(queue, queue', t)
  <2>1. Command(op, s).socket = s
    BY DEF Command
  <2> QED
    BY <1>1, <2>1, TailKept
<1>4. /\ 1 \in DOMAIN queue
      /\ \A p \in DOMAIN queue' : p \in Nat /\ p + 1 \in DOMAIN queue /\ queue'[p] = queue[p + 1]
  BY <1>1, <1>2
<1>5. ASSUME NEW p \in DOMAIN queue, p # 1
      PROVE  p - 1 \in DOMAIN queue' /\ queue'[p - 1] = queue[p]
  <2>1. PICK n \in Nat : n = p - 1
    BY <1>1, <1>5
  <2>2. n \in 1 .. Len(queue) - 1 /\ n + 1 = p
    BY <1>1, <1>5, <2>1
  <2> QED
    BY <1>2, <2>1, <2>2
<1>6. ASSUME NEW other \in Ops, other # op
      PROVE  Queued(other, s)' <=> Queued(other, s)
  <2>1. Command(other, s) # Command(op, s)
    BY <1>6 DEF Command
  <2>2. Queued(other, s)' <=> \E p \in DOMAIN queue' : queue'[p] = Command(other, s)
    BY DEF Queued, Command
  <2>3. Queued(other, s) => \E p \in DOMAIN queue' : queue'[p] = Command(other, s)
    BY <1>2, <1>5, <2>1 DEF Queued
  <2>4. (\E p \in DOMAIN queue' : queue'[p] = Command(other, s)) => Queued(other, s)
    BY <1>4 DEF Queued
  <2> QED
    BY <2>2, <2>3, <2>4
<1> QED
  BY <1>2, <1>3, <1>4, <1>5, <1>6

(* What a command of s changes apart from the connections.                 *)
CommandChange(s) ==
    /\ peer' \in [Sockets -> PeerType] /\ received' \in [Sockets -> Seq(Nat)]
    /\ \A t \in Sockets \ {s} : peer'[t] = peer[t] /\ received'[t] = received[t]
    /\ UNCHANGED <<control, connects, packets, astray>>

LEMMA CommandFrame ==
    ASSUME ServerInv, NEW op \in Ops, NEW s \in Sockets, NEW cs \in Seq(ConnectionType),
           Pop(op, s, cs), CommandChange(s), \A k \in DOMAIN cs : WellFormed(cs[k]),
           \A t \in Sockets \ {s} : ConnsKept(conns, cs, t),
           s \in Settled => SocketInv(s)'
    PROVE  ServerInv'
<1>1. /\ BasicInv /\ Types /\ (\A t \in Settled : SocketInv(t)) /\ HandlerInv
  BY Zenon DEF ServerInv, BasicInv
<1>2. /\ handler.at = "process" /\ queue # <<>> /\ Head(queue) = Command(op, s)
      /\ queue' = Tail(queue) /\ conns' = cs /\ handler' = Round(1, cs)
  BY Zenon DEF Pop
<1>3. /\ queue' \in Seq(CommandType) /\ \A t \in Sockets \ {s} : QueueKept(queue, queue', t)
  BY <1>1, <1>2, PoppedIs, Zenon
<1>4. /\ HandlerFits(Round(1, cs), cs) /\ Round(1, cs) \in HandlerType
  BY <1>1, RoundFits DEF Types
<1>5. Types'
  BY <1>1, <1>2, <1>3, <1>4 DEF Types, CommandChange, control
<1>6. HandlerInv'
  <2>1. "plain" \in up'
    BY <1>1, <1>2 DEF HandlerInv, CommandChange, control
  <2>2. HandlerFits(handler', conns')
    BY <1>2, <1>4
  <2> QED
    BY <2>1, <2>2, Zenon DEF HandlerInv, HandlerFits, AnyActive
<1>7. BasicInv'
  <2>1. \A k \in DOMAIN conns' : WellFormed(conns'[k])
    BY <1>2
  <2> QED
    BY <1>5, <1>6, <2>1, Zenon DEF BasicInv, WellFormed, Total
<1>8. Settled' = Settled
  BY DEF Settled, CommandChange
<1>9. ASSUME NEW t \in Settled, t # s
      PROVE  SocketInv(t)'
  <2>1. t \in Sockets \ {s} /\ SocketInv(t)
    BY <1>1, <1>9 DEF Settled
  <2>2. /\ QueueKept(queue, queue', t) /\ peer'[t] = peer[t] /\ received'[t] = received[t]
        /\ ConnsKept(conns, conns', t)
    BY <1>2, <1>3, <2>1 DEF CommandChange
  <2> QED
    BY <1>1, <1>5, <2>1, <2>2, SocketFrame, Zenon
<1> QED
  BY <1>7, <1>8, <1>9, Zenon DEF ServerInv

LEMMA ConnectionIs ==
    ASSUME NEW s \in Sockets
    PROVE  /\ Connection(s) \in ConnectionType /\ WellFormed(Connection(s))
           /\ Connection(s).socket = s /\ Connection(s).response = None
           /\ Connection(s).dangling = None
<1>1. <<>> \in Seq(Nat)
  OBVIOUS
<1> QED
  BY <1>1 DEF Connection, ConnectionType, WellFormed, None

LEMMA RunConnectKeeps ==
    ASSUME ServerInv, NEW s \in Sockets, RunConnect(s)
    PROVE  ServerInv'
<1>1. /\ Types /\ (\A k \in DOMAIN conns : WellFormed(conns[k])) /\ "connect" \in Ops
  BY Zenon DEF ServerInv, BasicInv, Ops
<1>2. PICK c \in ConnectionType : c = Connection(s)
  BY ConnectionIs
<1>3. PICK cs : cs = Append(conns, c)
  OBVIOUS
<1>4. /\ Pop("connect", s, cs) /\ UNCHANGED <<control, client, packets, astray>>
  BY <1>2, <1>3, Zenon DEF RunConnect
<1>5. conns \in Seq(ConnectionType)
  BY <1>1 DEF Types
<1>6. /\ cs \in Seq(ConnectionType)
      /\ DOMAIN conns = 1 .. Len(conns) /\ DOMAIN cs = 1 .. Len(conns) + 1 /\ Len(conns) \in Nat
      /\ \A k \in 1 .. Len(conns) : cs[k] = conns[k]
      /\ cs[Len(conns) + 1] = c
  BY <1>3, <1>5, AppendProperties, LenProperties
<1>7. /\ WellFormed(c) /\ c.socket = s /\ c.response = None
  BY <1>2, ConnectionIs
<1>8. \A k \in DOMAIN cs : WellFormed(cs[k])
  BY <1>1, <1>6, <1>7
<1>9. \A t \in Sockets \ {s} : ConnsKept(conns, cs, t)
  BY <1>3, <1>5, <1>7, AppendedConnKept
<1>10. CommandChange(s)
  BY <1>1, <1>4 DEF CommandChange, Types, client
<1>11. ASSUME s \in Settled PROVE SocketInv(s)'
  <2>1. PlaceInv(s) /\ TalkInv(s) /\ Serves(s)
    BY <1>11, Zenon DEF ServerInv, SocketInv
  <2>2. /\ queue # <<>> /\ Head(queue) = Command("connect", s) /\ queue' = Tail(queue) /\ conns' = cs
        /\ peer' = peer /\ received' = received
    BY <1>4, Zenon DEF Pop, client
  <2>3. /\ 1 \in DOMAIN queue /\ queue[1] = Command("connect", s)
        /\ \A p \in DOMAIN queue' : p \in Nat /\ p + 1 \in DOMAIN queue /\ queue'[p] = queue[p + 1]
        /\ \A p \in DOMAIN queue : p # 1 => p - 1 \in DOMAIN queue' /\ queue'[p - 1] = queue[p]
        /\ \A other \in Ops : other # "connect" => (Queued(other, s)' <=> Queued(other, s))
    BY <1>1, <2>2, PoppedIs, Zenon
  <2>4. /\ (Queued("disconnect", s)' <=> Queued("disconnect", s))
        /\ (Queued("data", s)' <=> Queued("data", s))
    BY <2>3 DEF Ops
  <2>5. Command("connect", s).socket = s
    BY DEF Command
  <2>6. peer[s].state # "listening" /\ Queued("connect", s)
    <3>1. peer[s].state # "listening"
      BY <2>1, <2>3, <2>5, Zenon DEF PlaceInv
    <3> QED
      BY <2>3, <3>1 DEF Queued
  <2>7. \A k \in DOMAIN conns : conns[k].socket # s
    BY <2>1, <2>6, Zenon DEF PlaceInv
  <2>8. \A p \in DOMAIN queue' : queue'[p] # Command("connect", s)
    <3> SUFFICES ASSUME NEW p \in DOMAIN queue', queue'[p] = Command("connect", s) PROVE FALSE
      OBVIOUS
    <3>1. p \in Nat /\ p + 1 \in DOMAIN queue /\ queue[p + 1] = Command("connect", s)
      BY <2>3
    <3>2. p + 1 <= 1
      <4>1. \A p1, p2 \in DOMAIN queue :
               queue[p1] = Command("connect", s) /\ queue[p2].socket = s => p1 <= p2
        BY <2>1, Zenon DEF PlaceInv
      <4> QED
        BY <2>3, <2>5, <3>1, <4>1, Zenon
    <3>3. p = 0
      BY <3>1, <3>2
    <3>4. DOMAIN queue' \subseteq Nat \ {0}
      <4>1. queue' \in Seq(CommandType)
        BY <1>1, <2>2, PoppedIs
      <4> QED
        BY <4>1, LenProperties
    <3> QED
      BY <3>3, <3>4
  <2>9. \A p, q \in DOMAIN queue' :
            queue'[p] = Command("disconnect", s) /\ queue'[q].socket = s => q <= p
    <3>1. \A p, q \in DOMAIN queue :
              queue[p] = Command("disconnect", s) /\ queue[q].socket = s => q <= p
      BY <2>1, Zenon DEF PlaceInv
    <3> SUFFICES ASSUME NEW p \in DOMAIN queue', NEW q \in DOMAIN queue',
                        queue'[p] = Command("disconnect", s), queue'[q].socket = s
                 PROVE  q <= p
      OBVIOUS
    <3>2. q + 1 <= p + 1 /\ p \in Nat /\ q \in Nat
      BY <2>3, <3>1
    <3> QED
      BY <3>2
  <2>10. PlaceInv(s)'
    <3>1. ~Queued("connect", s)'
      BY <2>8 DEF Queued, Command
    <3>2. Len(conns) + 1 \in DOMAIN conns' /\ conns'[Len(conns) + 1].socket = s
      BY <1>6, <1>7, <2>2
    <3>3. \A j, k \in DOMAIN conns' : conns'[j].socket = s /\ conns'[k].socket = s => j = k
      BY <1>6, <2>2, <2>7
    <3>4. Queued("disconnect", s)' <=> peer'[s].state = "closed"
      BY <2>1, <2>2, <2>4 DEF PlaceInv
    <3>5. peer'[s].state # "listening"
      BY <2>2, <2>6
    <3>6. \A p, q \in DOMAIN queue' :
             queue'[p] = Command("connect", s) /\ queue'[q].socket = s => p <= q
      BY <2>8
    <3> QED
      BY <2>9, <3>1, <3>2, <3>3, <3>4, <3>5, <3>6, Zenon DEF PlaceInv, Command
  <2>11. TalkInv(s)'
    <3>1. \A k \in DOMAIN conns : ~(conns[k].socket = s /\ conns[k].active)
      BY <2>7
    <3>2. peer[s].state = "open" /\ peer[s].inbox # <<>> => Queued("data", s)
      BY <2>1, <3>1, Zenon DEF TalkInv
    <3>3. peer'[s].state = "open" /\ peer'[s].inbox # <<>> => Queued("data", s)'
      BY <2>2, <2>4, <3>2
    <3>4. /\ \A p \in DOMAIN peer[s].inbox : peer[s].inbox[p] = "last" => p = Len(peer[s].inbox)
          /\ peer[s].state = "open" /\ Contains(peer[s].inbox, "last") => peer[s].awaiting
      BY <2>1, Zenon DEF TalkInv
    <3>5. /\ \A p \in DOMAIN peer'[s].inbox : peer'[s].inbox[p] = "last" => p = Len(peer'[s].inbox)
          /\ peer'[s].state = "open" /\ Contains(peer'[s].inbox, "last") => peer'[s].awaiting
      BY <2>2, <3>4
    <3> QED
      BY <3>3, <3>5, Zenon DEF TalkInv, Contains
  <2>12. Serves(s)'
    <3>1. \A k \in DOMAIN conns' : conns'[k].socket = s => conns'[k].response = None
      BY <1>6, <1>7, <2>2, <2>7
    <3> QED
      BY <3>1, Zenon DEF Serves, None
  <2> QED
    BY <2>10, <2>11, <2>12, Zenon DEF SocketInv
<1> QED
  BY <1>1, <1>4, <1>6, <1>8, <1>9, <1>10, <1>11, CommandFrame

LEMMA PoppedOrder ==
    ASSUME Types, NEW op \in Ops, NEW s \in Sockets, queue # <<>>,
           Head(queue) = Command(op, s), queue' = Tail(queue), PlaceInv(s)
    PROVE  /\ \A p, q \in DOMAIN queue' :
                  queue'[p] = Command("connect", s) /\ queue'[q].socket = s => p <= q
           /\ \A p, q \in DOMAIN queue' :
                  queue'[p] = Command("disconnect", s) /\ queue'[q].socket = s => q <= p
           /\ ~Queued("connect", s)'
           /\ op # "connect" => ~Queued("connect", s)
           /\ op = "disconnect" => \A p \in DOMAIN queue' : queue'[p].socket # s
<1>1. /\ 1 \in DOMAIN queue /\ queue[1] = Command(op, s)
      /\ \A p \in DOMAIN queue' : p \in Nat /\ p + 1 \in DOMAIN queue /\ queue'[p] = queue[p + 1]
  BY PoppedIs, Zenon
<1>2. Command(op, s).socket = s /\ \A a, b : Command(a, s) = Command(b, s) => a = b
  BY DEF Command
<1>3. /\ \A p, q \in DOMAIN queue :
             queue[p] = Command("connect", s) /\ queue[q].socket = s => p <= q
      /\ \A p, q \in DOMAIN queue :
             queue[p] = Command("disconnect", s) /\ queue[q].socket = s => q <= p
  BY Zenon DEF PlaceInv
<1>4. DOMAIN queue \subseteq Nat \ {0} /\ DOMAIN queue' \subseteq Nat \ {0}
  <2>1. queue \in Seq(CommandType) /\ queue' \in Seq(CommandType)
    BY PoppedIs DEF Types
  <2> QED
    BY <2>1, LenProperties
<1>5. \A p \in DOMAIN queue : queue[p] = Command("connect", s) => p = 1
  <2> SUFFICES ASSUME NEW p \in DOMAIN queue, queue[p] = Command("connect", s) PROVE p = 1
    OBVIOUS
  <2>1. p <= 1
    BY <1>1, <1>2, <1>3, Zenon
  <2> QED
    BY <1>4, <2>1
<1>6. \A p \in DOMAIN queue' : queue'[p] # Command("connect", s)
  <2> SUFFICES ASSUME NEW p \in DOMAIN queue', queue'[p] = Command("connect", s) PROVE FALSE
    OBVIOUS
  <2>1. p + 1 = 1
    BY <1>1, <1>5
  <2> QED
    BY <1>4, <2>1
<1>7. \A p, q \in DOMAIN queue' :
          queue'[p] = Command("disconnect", s) /\ queue'[q].socket = s => q <= p
  <2> SUFFICES ASSUME NEW p \in DOMAIN queue', NEW q \in DOMAIN queue',
                      queue'[p] = Command("disconnect", s), queue'[q].socket = s
               PROVE  q <= p
    OBVIOUS
  <2>1. q + 1 <= p + 1 /\ p \in Nat /\ q \in Nat
    BY <1>1, <1>3
  <2> QED
    BY <2>1
<1>8. ASSUME op = "disconnect"
      PROVE  \A p \in DOMAIN queue' : queue'[p].socket # s
  <2> SUFFICES ASSUME NEW p \in DOMAIN queue', queue'[p].socket = s PROVE FALSE
    OBVIOUS
  <2>1. p + 1 <= 1
    BY <1>1, <1>3, <1>8
  <2> QED
    BY <1>4, <2>1
<1>9. ~Queued("connect", s)'
  BY <1>6 DEF Queued, Command
<1>10. op # "connect" => ~Queued("connect", s)
  BY <1>1, <1>2, <1>5 DEF Queued
<1> QED
  BY <1>6, <1>7, <1>8, <1>9, <1>10

LEMMA FirstIs ==
    ASSUME Types, NEW s, IsOf(s) # {}
    PROVE  Min(IsOf(s)) \in DOMAIN conns /\ conns[Min(IsOf(s))].socket = s
<1>1. IsOf(s) \subseteq DOMAIN conns /\ DOMAIN conns \subseteq Nat
  BY LenProperties DEF IsOf, Types
<1>2. Min(IsOf(s)) \in IsOf(s)
  BY <1>1, MinIn
<1> QED
  BY <1>2 DEF IsOf

LEMMA ActiveIs ==
    ASSUME NEW c \in ConnectionType, WellFormed(c)
    PROVE  LET d == [c EXCEPT !.active = TRUE] IN
           /\ d \in ConnectionType /\ WellFormed(d) /\ d.active
           /\ d.socket = c.socket /\ d.dangling = c.dangling /\ d.response = c.response
  BY DEF ConnectionType, WellFormed

LEMMA RunDataKeeps ==
    ASSUME ServerInv, NEW s \in Sockets, RunData(s)
    PROVE  ServerInv'
<1>1. /\ Types /\ (\A k \in DOMAIN conns : WellFormed(conns[k])) /\ "data" \in Ops
  BY Zenon DEF ServerInv, BasicInv, Ops
<1>2. PICK cs : cs = Marked(s)
  OBVIOUS
<1>3. /\ Pop("data", s, cs) /\ UNCHANGED <<control, client, packets, astray>>
  BY <1>2, Zenon DEF RunData
<1>4. conns \in Seq(ConnectionType)
  BY <1>1 DEF Types
<1>5. CommandChange(s)
  BY <1>1, <1>3 DEF CommandChange, Types, client
<1>6. /\ queue # <<>> /\ Head(queue) = Command("data", s) /\ queue' = Tail(queue) /\ conns' = cs
      /\ peer' = peer /\ received' = received
  BY <1>3, Zenon DEF Pop, client
<1>7. CASE IsOf(s) = {}
  <2>1. cs = conns
    BY <1>2, <1>7 DEF Marked
  <2>2. \A t \in Sockets \ {s} : ConnsKept(conns, cs, t)
    BY <2>1, SameConnsKept
  <2>3. s \notin Settled
    <3> SUFFICES ASSUME s \in Settled PROVE FALSE
      OBVIOUS
    <3>1. PlaceInv(s)
      BY Zenon DEF ServerInv, SocketInv
    <3>2. ~Queued("connect", s)
      BY <1>1, <1>6, <3>1, PoppedOrder
    <3>3. \A k \in DOMAIN conns : conns[k].socket # s
      BY <1>7 DEF IsOf
    <3>4. peer[s].state = "listening"
      BY <3>1, <3>2, <3>3, Zenon DEF PlaceInv
    <3>5. 1 \in DOMAIN queue /\ queue[1] = Command("data", s)
      BY <1>1, <1>6, PoppedIs
    <3>6. queue[1].socket = s
      BY <3>5 DEF Command
    <3> QED
      BY <3>1, <3>4, <3>5, <3>6, Zenon DEF PlaceInv
  <2> QED
    BY <1>1, <1>3, <1>4, <1>5, <2>1, <2>2, <2>3, CommandFrame
<1>8. CASE IsOf(s) # {}
  <2>1. PICK m : m = Min(IsOf(s))
    OBVIOUS
  <2>2. m \in DOMAIN conns /\ conns[m].socket = s
    BY <1>1, <1>8, <2>1, FirstIs
  <2>3. PICK c \in ConnectionType : c = conns[m]
    BY <1>4, <2>2, LenProperties, ElementOfSeq
  <2>4. WellFormed(c)
    BY <1>1, <2>2, <2>3
  <2>5. PICK d : d = [c EXCEPT !.active = TRUE]
    OBVIOUS
  <2>6. /\ d \in ConnectionType /\ WellFormed(d) /\ d.active
        /\ d.socket = c.socket /\ d.dangling = c.dangling /\ d.response = c.response
    BY <2>4, <2>5, ActiveIs
  <2>7. cs = [conns EXCEPT ![m] = d]
    BY <1>2, <1>8, <2>1, <2>3, <2>5 DEF Marked
  <2>8. /\ cs \in Seq(ConnectionType) /\ DOMAIN cs = DOMAIN conns
        /\ \A k \in DOMAIN conns : cs[k] = IF k = m THEN d ELSE conns[k]
    BY <1>4, <2>2, <2>6, <2>7, ReplacedIs
  <2>9. \A k \in DOMAIN cs : WellFormed(cs[k])
    BY <1>1, <2>6, <2>8
  <2>10. \A t \in Sockets \ {s} : ConnsKept(conns, cs, t)
    BY <1>4, <2>2, <2>3, <2>6, <2>7, ReplacedConnKept
  <2>11. ASSUME s \in Settled PROVE SocketInv(s)'
    <3>1. PlaceInv(s) /\ TalkInv(s) /\ Serves(s)
      BY <2>11, Zenon DEF ServerInv, SocketInv
    <3>2. /\ \A p, q \in DOMAIN queue' :
                 queue'[p] = Command("connect", s) /\ queue'[q].socket = s => p <= q
          /\ \A p, q \in DOMAIN queue' :
                 queue'[p] = Command("disconnect", s) /\ queue'[q].socket = s => q <= p
          /\ ~Queued("connect", s)'
      BY <1>1, <1>6, <3>1, PoppedOrder, Zenon
    <3>3. Queued("disconnect", s)' <=> Queued("disconnect", s)
      BY <1>1, <1>6, PoppedIs DEF Ops
    <3>4. \A k \in DOMAIN conns : conns[k].socket = s <=> k = m
      BY <2>2, <3>1, Zenon DEF PlaceInv
    <3>5. \A k \in DOMAIN conns' : conns'[k].socket = s <=> k = m
      BY <1>6, <2>3, <2>6, <2>8, <3>4
    <3>6. m \in DOMAIN conns' /\ conns'[m] = d
      BY <1>6, <2>2, <2>8
    <3>7. peer'[s].state # "listening"
      BY <1>6, <2>2, <3>1, Zenon DEF PlaceInv
    <3>8. PlaceInv(s)'
      <4>1. Queued("disconnect", s)' <=> peer'[s].state = "closed"
        BY <1>6, <3>1, <3>3 DEF PlaceInv
      <4> QED
        BY <3>2, <3>5, <3>6, <3>7, <4>1, Zenon DEF PlaceInv, Command
    <3>9. TalkInv(s)'
      <4>1. /\ \A p \in DOMAIN peer[s].inbox : peer[s].inbox[p] = "last" => p = Len(peer[s].inbox)
            /\ peer[s].state = "open" /\ Contains(peer[s].inbox, "last") => peer[s].awaiting
        BY <3>1, Zenon DEF TalkInv
      <4>2. /\ \A p \in DOMAIN peer'[s].inbox : peer'[s].inbox[p] = "last" => p = Len(peer'[s].inbox)
            /\ peer'[s].state = "open" /\ Contains(peer'[s].inbox, "last") => peer'[s].awaiting
        BY <1>6, <4>1
      <4>3. \E k \in DOMAIN conns' : conns'[k].socket = s /\ conns'[k].active
        BY <2>6, <3>5, <3>6
      <4> QED
        BY <4>2, <4>3, Zenon DEF TalkInv, Contains
    <3>10. Serves(s)'
      <4> SUFFICES ASSUME NEW k \in DOMAIN conns', conns'[k].socket = s, conns'[k].response # None
                   PROVE  ServedInv(s, conns[k])'
        BY Zenon DEF Serves
      <4>1. conns'[k] = d
        BY <3>5, <3>6
      <4>2. ServedInv(s, c)
        BY <2>2, <2>3, <2>6, <3>1, <4>1, Zenon DEF Serves
      <4>3. /\ received'[s] \o d.dangling = [n \in 1 .. d.response.pos |-> n]
            /\ d.active
            /\ peer'[s].state = "open" /\ Len(received'[s]) < Total(d.response) =>
                   peer'[s].awaiting /\ peer'[s].inbox = <<>>
        BY <1>6, <2>6, <4>2 DEF ServedInv
      <4> QED
        BY <4>1, <4>3, Zenon DEF ServedInv, Total
    <3> QED
      BY <3>8, <3>9, <3>10, Zenon DEF SocketInv
  <2> QED
    BY <1>1, <1>3, <1>5, <2>8, <2>9, <2>10, <2>11, CommandFrame
<1> QED
  BY <1>7, <1>8

LEMMA RunDisconnectKeeps ==
    ASSUME ServerInv, NEW s \in Sockets, RunDisconnect(s)
    PROVE  ServerInv'
<1>1. /\ Types /\ (\A k \in DOMAIN conns : WellFormed(conns[k])) /\ "disconnect" \in Ops
  BY Zenon DEF ServerInv, BasicInv, Ops
<1>2. PICK cs : cs = Erased(s)
  OBVIOUS
<1>3. /\ Pop("disconnect", s, cs)
      /\ peer' = [peer EXCEPT ![s] = Listening]
      /\ received' = [received EXCEPT ![s] = <<>>]
      /\ UNCHANGED <<control, connects, packets, astray>>
  BY <1>2, Zenon DEF RunDisconnect
<1>4. conns \in Seq(ConnectionType)
  BY <1>1 DEF Types
<1>5. CommandChange(s) /\ peer'[s] = Listening
  <2>1. <<>> \in Seq(Nat) /\ <<>> \in Seq({"part", "last"})
    OBVIOUS
  <2>2. Listening \in PeerType
    BY <2>1 DEF Listening, PeerType
  <2> QED
    BY <1>1, <1>3, <2>1, <2>2 DEF CommandChange, Types
<1>6. /\ queue # <<>> /\ Head(queue) = Command("disconnect", s) /\ queue' = Tail(queue)
      /\ conns' = cs
  BY <1>3, Zenon DEF Pop
<1>7. /\ cs \in Seq(ConnectionType) /\ (\A k \in DOMAIN cs : WellFormed(cs[k]))
      /\ \A t \in Sockets \ {s} : ConnsKept(conns, cs, t)
  <2>1. CASE IsOf(s) = {}
    <3>1. cs = conns
      BY <1>2, <2>1 DEF Erased
    <3> QED
      BY <1>1, <1>4, <3>1, SameConnsKept
  <2>2. CASE IsOf(s) # {}
    <3>1. PICK m : m = Min(IsOf(s))
      OBVIOUS
    <3>2. m \in DOMAIN conns /\ conns[m].socket = s
      BY <1>1, <2>2, <3>1, FirstIs
    <3>3. cs = RemoveAt(conns, m)
      BY <1>2, <2>2, <3>1 DEF Erased
    <3>4. /\ cs \in Seq(ConnectionType) /\ DOMAIN cs = 1 .. Len(conns) - 1
          /\ \A k \in 1 .. Len(conns) - 1 : cs[k] = IF k < m THEN conns[k] ELSE conns[k + 1]
          /\ DOMAIN conns = 1 .. Len(conns) /\ Len(conns) \in Nat
      BY <1>4, <3>2, <3>3, RemovedIs, LenProperties
    <3>5. \A k \in 1 .. Len(conns) - 1 : k \in DOMAIN conns /\ k + 1 \in DOMAIN conns
      BY <3>4
    <3>6. \A k \in DOMAIN cs : WellFormed(cs[k])
      BY <1>1, <3>4, <3>5
    <3>7. \A t \in Sockets \ {s} : ConnsKept(conns, cs, t)
      BY <1>4, <3>2, <3>3, RemovedConnKept
    <3> QED
      BY <3>4, <3>6, <3>7
  <2> QED
    BY <2>1, <2>2
<1>8. ASSUME s \in Settled PROVE SocketInv(s)'
  <2>1. PlaceInv(s)
    BY <1>8, Zenon DEF ServerInv, SocketInv
  <2>2. ~Queued("connect", s) /\ \A p \in DOMAIN queue' : queue'[p].socket # s
    BY <1>1, <1>6, <2>1, PoppedOrder
  <2>3. peer[s].state = "closed"
    <3>1. Queued("disconnect", s)
      BY <1>1, <1>6, PoppedIs DEF Queued
    <3> QED
      BY <2>1, <3>1, Zenon DEF PlaceInv
  <2>4. \A k \in DOMAIN conns' : conns'[k].socket # s
    <3>1. IsOf(s) # {}
      <4>1. ~ \A k \in DOMAIN conns : conns[k].socket # s
        BY <2>1, <2>2, <2>3 DEF PlaceInv
      <4> QED
        BY <4>1 DEF IsOf
    <3>2. PICK m : m = Min(IsOf(s))
      OBVIOUS
    <3>3. m \in DOMAIN conns /\ conns[m].socket = s
      BY <1>1, <3>1, <3>2, FirstIs
    <3>4. conns' = RemoveAt(conns, m)
      BY <1>2, <1>6, <3>1, <3>2 DEF Erased
    <3>5. /\ DOMAIN conns' = 1 .. Len(conns) - 1 /\ m \in Nat
          /\ \A k \in 1 .. Len(conns) - 1 : conns'[k] = IF k < m THEN conns[k] ELSE conns[k + 1]
          /\ DOMAIN conns = 1 .. Len(conns) /\ Len(conns) \in Nat
      <4>1. /\ RemoveAt(conns, m) \in Seq(ConnectionType)
            /\ Len(RemoveAt(conns, m)) = Len(conns) - 1
            /\ \A k \in 1 .. Len(conns) - 1 :
                  RemoveAt(conns, m)[k] = IF k < m THEN conns[k] ELSE conns[k + 1]
            /\ DOMAIN conns = 1 .. Len(conns) /\ Len(conns) \in Nat
        BY <1>4, <3>3, RemovedIs, LenProperties
      <4>2. DOMAIN conns' = 1 .. Len(conns) - 1
        BY <3>4, <4>1, LenProperties
      <4> QED
        BY <3>3, <3>4, <4>1, <4>2
    <3>6. \A k \in DOMAIN conns : conns[k].socket = s => k = m
      BY <2>1, <3>3, Zenon DEF PlaceInv
    <3> SUFFICES ASSUME NEW k \in DOMAIN conns' PROVE conns'[k].socket # s
      OBVIOUS
    <3>7. CASE k < m
      BY <3>5, <3>6, <3>7
    <3>8. CASE ~(k < m)
      <4>1. k + 1 \in DOMAIN conns /\ k + 1 # m
        BY <3>5, <3>8
      <4> QED
        BY <3>5, <3>6, <3>8, <4>1
    <3> QED
      BY <3>7, <3>8
  <2>5. PlaceInv(s)'
    <3>1. \A op : Command(op, s).socket = s
      BY DEF Command
    <3>2. ~Queued("disconnect", s)'
      BY <2>2, <3>1, Zenon DEF Queued, Command
    <3>3. peer'[s].state = "listening"
      BY <1>5 DEF Listening
    <3>4. peer'[s].state # "closed"
      BY <3>3
    <3> QED
      BY <1>5, <2>2, <2>4, <3>2, <3>3, <3>4, Zenon DEF PlaceInv, Listening, Command
  <2>6. TalkInv(s)'
    <3>1. peer'[s].state # "open" /\ peer'[s].inbox = <<>>
      BY <1>5 DEF Listening
    <3>2. \A p : p \notin DOMAIN peer'[s].inbox
      BY <3>1
    <3> QED
      BY <3>1, <3>2, Zenon DEF TalkInv
  <2>7. Serves(s)'
    BY <2>4, Zenon DEF Serves
  <2> QED
    BY <2>5, <2>6, <2>7, Zenon DEF SocketInv
<1> QED
  BY <1>1, <1>3, <1>5, <1>7, <1>8, CommandFrame

-----------------------------------------------------------------------------
(* The parts of a response                                                 *)

LEMMA UnitsFollow ==
    ASSUME NEW p \in Nat, NEW n \in Nat
    PROVE  /\ [k \in 1 .. p |-> k] \in Seq(Nat) /\ Len([k \in 1 .. p |-> k]) = p
           /\ [k \in 1 .. n |-> p + k] \in Seq(Nat) /\ Len([k \in 1 .. n |-> p + k]) = n
           /\ [k \in 1 .. p |-> k] \o [k \in 1 .. n |-> p + k] = [k \in 1 .. p + n |-> k]
<1>1. PICK got : got = [k \in 1 .. p |-> k]
  OBVIOUS
<1>2. PICK units : units = [k \in 1 .. n |-> p + k]
  OBVIOUS
<1>3. PICK all : all = [k \in 1 .. p + n |-> k]
  OBVIOUS
<1>4. got \in Seq(Nat) /\ Len(got) = p /\ \A k \in 1 .. p : got[k] = k
  BY <1>1
<1>5. units \in Seq(Nat) /\ Len(units) = n /\ \A k \in 1 .. n : units[k] = p + k
  BY <1>2
<1>6. all \in Seq(Nat) /\ Len(all) = p + n /\ \A k \in 1 .. p + n : all[k] = k
  BY <1>3
<1>7. /\ got \o units \in Seq(Nat) /\ Len(got \o units) = p + n
      /\ \A k \in 1 .. p + n : (got \o units)[k] = IF k <= p THEN got[k] ELSE units[k - p]
  BY <1>4, <1>5, ConcatProperties
<1>8. ASSUME NEW k \in 1 .. p + n
      PROVE  (got \o units)[k] = k
  <2>1. CASE k <= p
    BY <1>4, <1>7, <2>1
  <2>2. CASE ~(k <= p)
    <3>1. k - p \in 1 .. n /\ p + (k - p) = k
      BY <2>2
    <3>2. (got \o units)[k] = units[k - p]
      BY <1>7, <2>2
    <3> QED
      BY <1>5, <3>1, <3>2
  <2> QED
    BY <2>1, <2>2
<1>9. got \o units = all
  BY <1>6, <1>7, <1>8, SeqEqual
<1> QED
  BY <1>1, <1>2, <1>3, <1>4, <1>5, <1>9

LEMMA ResponseIsNotNone ==
    ASSUME NEW r \in ResponseType
    PROVE  r # None
<1>1. "pos" \in DOMAIN r
  BY DEF ResponseType
<1>2. "pos" \notin DOMAIN <<>>
  OBVIOUS
<1> QED
  BY <1>1, <1>2 DEF None

LEMMA ResponseIs ==
    ASSUME NEW r \in Responses
    PROVE  r \in ResponseType /\ r.pos = 0 /\ r # None /\ Total(r) \in Nat
<1>1. \A header \in {0, 1}, kind \in Kinds, body \in Nat :
         /\ Response(header, kind, body) \in ResponseType
         /\ Response(header, kind, body).pos = 0
  BY DEF Response, ResponseType
<1>2. \E header \in {0, 1}, kind \in Kinds, body \in Nat : r = Response(header, kind, body)
  BY Constants DEF Responses, Kinds
<1>3. r \in ResponseType /\ r.pos = 0
  BY <1>1, <1>2
<1>4. r # None
  BY <1>3, ResponseIsNotNone
<1> QED
  BY <1>3, <1>4 DEF Total, ResponseType

LEMMA MinOfTwo ==
    ASSUME NEW a \in Nat, NEW b \in Nat
    PROVE  Min({a, b}) \in Nat /\ Min({a, b}) <= a
  BY DEF Min

LEMMA ChunksFit ==
    ASSUME NEW r \in ResponseType, r.pos <= Total(r), NEW n \in Chunks(r)
    PROVE  n \in Nat /\ r.pos + n <= Total(r)
<1>1. /\ r.header \in Nat /\ r.body \in Nat /\ r.pos \in Nat /\ r.kind \in Kinds
      /\ Total(r) \in Nat
  BY DEF ResponseType, Total
<1>2. PICK left \in Nat : /\ left = HeaderLeft(r) /\ left <= Total(r) - r.pos
  BY <1>1 DEF HeaderLeft, Total
<1>3. PICK rest \in Nat : rest = Total(r) - r.pos - left
  BY <1>1, <1>2
<1>4. \A offer \in Offers(r.kind, rest) : offer \in Nat /\ offer <= rest
  BY <1>1 DEF Offers, Kinds, EmptyOffers, TextOffers, FileOffers
<1>5. CASE r.header = 0
  BY <1>1, <1>5 DEF Chunks
<1>6. CASE r.header # 0
  <2>1. PICK offer \in Offers(r.kind, rest) : n = Min({left + offer, PacketSize})
    BY <1>2, <1>3, <1>6 DEF Chunks
  <2>2. offer \in Nat /\ offer <= rest
    BY <1>4
  <2>3. PICK sum \in Nat : sum = left + offer
    BY <2>2
  <2>4. n \in Nat /\ n <= sum
    BY <2>1, <2>3, Constants, MinOfTwo
  <2> QED
    BY <1>1, <1>2, <1>3, <2>2, <2>3, <2>4
<1> QED
  BY <1>5, <1>6

LEMMA CommittedIs ==
    ASSUME NEW r \in ResponseType, NEW n \in Nat, r.pos + n <= Total(r)
    PROVE  /\ Committed(r, n) \in ResponseType /\ Committed(r, n) # None
           /\ Committed(r, n).pos = r.pos + n /\ Total(Committed(r, n)) = Total(r)
<1>1. /\ Committed(r, n) \in ResponseType /\ Committed(r, n).pos = r.pos + n
      /\ Total(Committed(r, n)) = Total(r)
  BY DEF Committed, ResponseType, Total
<1> QED
  BY <1>1, ResponseIsNotNone

LEMMA UnreadIs ==
    ASSUME NEW inbox \in Seq({"part", "last"})
    PROVE  /\ Unread(inbox) \in Seq({"part", "last"})
           /\ (\A p \in DOMAIN inbox : inbox[p] = "last" => p = Len(inbox)) => Unread(inbox) = <<>>
<1>1. Len(inbox) \in Nat /\ DOMAIN inbox = 1 .. Len(inbox)
  BY LenProperties
<1>2. CASE ~Contains(inbox, "last")
  BY <1>2 DEF Unread
<1>3. CASE Contains(inbox, "last")
  <2>1. PICK S : S = {p \in 1 .. Len(inbox) : inbox[p] = "last"}
    OBVIOUS
  <2>2. S # {} /\ S \subseteq Nat
    BY <1>1, <1>3, <2>1 DEF Contains
  <2>3. PICK m : m = Min(S)
    OBVIOUS
  <2>4. m \in S
    BY <2>2, <2>3, MinIn
  <2>5. m \in 1 .. Len(inbox) /\ inbox[m] = "last"
    BY <2>1, <2>4
  <2>6. SelectInSeq(inbox, LAMBDA f : f = "last") = m
    BY <2>1, <2>2, <2>3 DEF SelectInSeq
  <2>7. Unread(inbox) = SubSeq(inbox, m + 1, Len(inbox))
    BY <1>3, <2>6 DEF Unread
  <2>8. /\ SubSeq(inbox, m + 1, Len(inbox)) \in Seq({"part", "last"})
        /\ Len(SubSeq(inbox, m + 1, Len(inbox)))
             = IF m + 1 <= Len(inbox) THEN Len(inbox) - (m + 1) + 1 ELSE 0
    <3>1. \A p \in m + 1 .. Len(inbox) : inbox[p] \in {"part", "last"}
      BY <1>1, <2>5, ElementOfSeq
    <3> QED
      BY <1>1, <2>5, <3>1, SubSeqProperties
  <2>9. ASSUME \A p \in DOMAIN inbox : inbox[p] = "last" => p = Len(inbox)
        PROVE  Unread(inbox) = <<>>
    <3>0. m \in DOMAIN inbox
      BY <1>1, <2>5
    <3>1. m = Len(inbox)
      BY <2>5, <2>9, <3>0, Zenon
    <3>2. Len(SubSeq(inbox, m + 1, Len(inbox))) = 0
      BY <1>1, <2>8, <3>1
    <3> QED
      BY <2>7, <2>8, <3>2, EmptySeq
  <2> QED
    BY <2>7, <2>8, <2>9
<1> QED
  BY <1>2, <1>3

-----------------------------------------------------------------------------
(* A step of the round that is about one connection                        *)

LEMMA IdleFrame ==
    ASSUME ServerInv, Types', HandlerInv', UNCHANGED <<conns, queue, peer, received, astray>>
    PROVE  ServerInv'
<1>1. /\ Types /\ (\A k \in DOMAIN conns : WellFormed(conns[k]))
      /\ \A s \in Settled : SocketInv(s)
  BY Zenon DEF ServerInv, BasicInv
<1>2. ASSUME NEW s \in Sockets, s \notin astray
      PROVE  SocketInv(s)'
  <2>1. SocketInv(s)
    BY <1>1, <1>2 DEF Settled
  <2>2. QueueKept(queue, queue', s) /\ ConnsKept(conns, conns', s)
    BY <1>1, SameQueueKept, SameConnsKept
  <2> QED
    BY <1>1, <2>1, <2>2, SocketFrame, Zenon
<1>3. \A s \in Settled' : SocketInv(s)'
  BY <1>2 DEF Settled
<1>4. \A k \in DOMAIN conns' : WellFormed(conns'[k])
  BY <1>1
<1> QED
  BY <1>3, <1>4, Zenon DEF ServerInv, BasicInv, WellFormed, Total

LEMMA WritingFits ==
    ASSUME run \in BOOLEAN, handler \in HandlerType, NEW cs \in Seq(ConnectionType),
           handler.i \in DOMAIN cs
    PROVE  /\ HandlerFits(Writing(cs), cs) /\ Writing(cs) \in HandlerType
           /\ HandlerFits(Onwards(cs), cs) /\ Onwards(cs) \in HandlerType
<1>1. HandlerFits(Onwards(cs), cs) /\ Onwards(cs) \in HandlerType
  <2>1. PICK k \in Nat \ {0} : k = handler.i + 1
    BY DEF HandlerType
  <2> QED
    BY <2>1, RoundFits DEF Onwards
<1>2. CASE cs[handler.i].response = None
  BY <1>1, <1>2 DEF Writing
<1>3. CASE cs[handler.i].response # None /\ cs[handler.i].dangling = None
  <2>1. PICK h : h = [handler EXCEPT !.at = "write"]
    OBVIOUS
  <2>2. h \in HandlerType /\ h.at = "write" /\ h.i = handler.i
    BY <2>1 DEF HandlerType
  <2>3. Writing(cs) = h
    BY <1>3, <2>1 DEF Writing
  <2>4. HandlerFits(h, cs)
    BY <1>3, <2>2 DEF HandlerFits
  <2> QED
    BY <1>1, <2>2, <2>3, <2>4
<1>4. CASE cs[handler.i].response # None /\ cs[handler.i].dangling # None
  <2>1. PICK h : h = [handler EXCEPT !.at = "dangling"]
    OBVIOUS
  <2>2. h \in HandlerType /\ h.at = "dangling" /\ h.i = handler.i
    BY <2>1 DEF HandlerType
  <2>3. Writing(cs) = h
    BY <1>4, <2>1 DEF Writing
  <2>4. HandlerFits(h, cs)
    BY <1>4, <2>2 DEF HandlerFits
  <2> QED
    BY <1>1, <2>2, <2>3, <2>4
<1> QED
  BY <1>2, <1>3, <1>4

(* The step replaces the connection by c, of the same socket.              *)
ConnChange(i, c) ==
    /\ conns' = [conns EXCEPT ![i] = c]
    /\ peer' \in [Sockets -> PeerType] /\ received' \in [Sockets -> Seq(Nat)]
    /\ \A t \in Sockets \ {c.socket} : peer'[t] = peer[t] /\ received'[t] = received[t]
    /\ peer'[c.socket].state = peer[c.socket].state
    /\ packets' \in Int
    /\ UNCHANGED <<control, connects, queue, astray>>

LEMMA ConnFrame ==
    ASSUME ServerInv, NEW i \in DOMAIN conns, NEW c \in ConnectionType, WellFormed(c),
           c.socket = conns[i].socket, ConnChange(i, c), handler.at # "none",
           handler' \in HandlerType, HandlerFits(handler', conns'),
           c.socket \in Settled =>
               TalkInv(c.socket)' /\ (c.response # None => ServedInv(c.socket, c)')
    PROVE  ServerInv'
<1>1. /\ BasicInv /\ Types /\ (\A t \in Settled : SocketInv(t)) /\ HandlerInv
      /\ \A k \in DOMAIN conns : WellFormed(conns[k])
  BY Zenon DEF ServerInv, BasicInv
<1>2. PICK s \in Sockets : s = c.socket
  BY DEF ConnectionType
<1>3. conns \in Seq(ConnectionType)
  BY <1>1 DEF Types
<1>4. /\ conns' \in Seq(ConnectionType) /\ DOMAIN conns' = DOMAIN conns
      /\ \A k \in DOMAIN conns : conns'[k] = IF k = i THEN c ELSE conns[k]
  BY <1>3, ReplacedIs DEF ConnChange
<1>5. Types'
  BY <1>1, <1>4 DEF Types, ConnChange, control
<1>6. HandlerInv'
  <2>1. "plain" \in up'
    BY <1>1 DEF HandlerInv, ConnChange, control
  <2> QED
    BY <2>1, Zenon DEF HandlerInv, HandlerFits, AnyActive
<1>7. BasicInv'
  <2>1. \A k \in DOMAIN conns' : WellFormed(conns'[k])
    BY <1>1, <1>4
  <2> QED
    BY <1>5, <1>6, <2>1, Zenon DEF BasicInv, WellFormed, Total
<1>8. Settled' = Settled
  BY DEF Settled, ConnChange
<1>9. ASSUME NEW t \in Settled, t # s
      PROVE  SocketInv(t)'
  <2>1. t \in Sockets \ {s} /\ SocketInv(t)
    BY <1>1, <1>9 DEF Settled
  <2>2. peer'[t] = peer[t] /\ received'[t] = received[t] /\ queue' = queue
    BY <1>2, <2>1 DEF ConnChange
  <2>3. QueueKept(queue, queue', t)
    BY <1>1, <2>2, SameQueueKept
  <2>4. ConnsKept(conns, conns', t)
    BY <1>2, <1>3, <1>9, ReplacedConnKept DEF ConnChange
  <2> QED
    BY <1>1, <1>5, <2>1, <2>2, <2>3, <2>4, SocketFrame, Zenon
<1>10. ASSUME s \in Settled
       PROVE  SocketInv(s)'
  <2>1. PlaceInv(s) /\ TalkInv(s)' /\ (c.response # None => ServedInv(s, c)')
    BY <1>1, <1>2, <1>10, Zenon DEF SocketInv
  <2>2. \A k \in DOMAIN conns : conns[k].socket = s <=> k = i
    BY <1>2, <2>1, Zenon DEF PlaceInv
  <2>3. \A k \in DOMAIN conns' : conns'[k].socket = s <=> k = i
    BY <1>2, <1>4, <2>2
  <2>4. /\ \A p, q \in DOMAIN queue :
               queue[p] = Command("connect", s) /\ queue[q].socket = s => p <= q
        /\ \A p, q \in DOMAIN queue :
               queue[p] = Command("disconnect", s) /\ queue[q].socket = s => q <= p
        /\ Queued("disconnect", s) <=> peer[s].state = "closed"
        /\ peer[s].state # "listening"
        /\ ~Queued("connect", s)
    <3>1. peer[s].state # "listening"
      BY <2>1, <2>2, Zenon DEF PlaceInv
    <3> QED
      BY <2>1, <2>2, <3>1, Zenon DEF PlaceInv
  <2>5. queue' = queue /\ peer'[s].state = peer[s].state
    BY <1>2 DEF ConnChange
  <2>6. \A op : Queued(op, s)' <=> Queued(op, s)
    BY <2>5 DEF Queued, Command
  <2>7. PlaceInv(s)'
    <3>1. /\ \A p, q \in DOMAIN queue' :
                 queue'[p] = Command("connect", s) /\ queue'[q].socket = s => p <= q
          /\ \A p, q \in DOMAIN queue' :
                 queue'[p] = Command("disconnect", s) /\ queue'[q].socket = s => q <= p
      BY <2>4, <2>5
    <3>2. /\ Queued("disconnect", s)' <=> peer'[s].state = "closed"
          /\ peer'[s].state # "listening"
          /\ ~Queued("connect", s)'
      BY <2>4, <2>5, <2>6
    <3>3. i \in DOMAIN conns'
      BY <1>4
    <3> QED
      BY <2>3, <3>1, <3>2, <3>3, Zenon DEF PlaceInv, Command
  <2>8. Serves(s)'
    <3>1. \A k \in DOMAIN conns' : conns'[k].socket = s => conns'[k] = c
      BY <1>4, <2>3
    <3> SUFFICES ASSUME NEW k \in DOMAIN conns', conns'[k].socket = s, conns'[k].response # None
                 PROVE  ServedInv(s, conns[k])'
      BY Zenon DEF Serves
    <3>2. conns'[k] = c
      BY <3>1
    <3>3. ServedInv(s, c)'
      BY <2>1, <3>2
    <3> QED
      BY <3>2, <3>3, Zenon DEF ServedInv, Total
  <2> QED
    BY <2>1, <2>7, <2>8, Zenon DEF SocketInv
<1> QED
  BY <1>7, <1>8, <1>9, <1>10, Zenon DEF ServerInv

LEMMA PopTimeoutKeeps ==
    ASSUME ServerInv, PopTimeout
    PROVE  ServerInv'
<1>1. Types /\ HandlerInv
  BY Zenon DEF ServerInv, BasicInv
<1>2. /\ handler.at = "process" /\ handler' = Round(1, conns)
      /\ UNCHANGED <<control, queue, conns, client, packets, astray>>
  BY Zenon DEF PopTimeout
<1>3. HandlerFits(handler', conns) /\ handler' \in HandlerType
  BY <1>1, <1>2, RoundFits DEF Types
<1>4. Types'
  BY <1>1, <1>2, <1>3 DEF Types, control, client
<1>5. HandlerInv'
  <2>1. "plain" \in up' /\ HandlerFits(handler', conns')
    BY <1>1, <1>2, <1>3 DEF HandlerInv, control
  <2> QED
    BY <2>1, Zenon DEF HandlerInv, HandlerFits, AnyActive
<1> QED
  BY <1>2, <1>4, <1>5, IdleFrame DEF client

LEMMA WriteNothingKeeps ==
    ASSUME ServerInv, WriteNothing
    PROVE  ServerInv'
<1>1. Types /\ HandlerInv
  BY Zenon DEF ServerInv, BasicInv
<1>2. /\ handler.at = "write" /\ handler' = Onwards(conns)
      /\ UNCHANGED <<control, queue, conns, client, packets, astray>>
  BY Zenon DEF WriteNothing
<1>3. HandlerFits(handler', conns) /\ handler' \in HandlerType
  BY <1>1, <1>2, WritingFits DEF Types, HandlerInv, HandlerFits
<1>4. Types'
  BY <1>1, <1>2, <1>3 DEF Types, control, client
<1>5. HandlerInv'
  <2>1. "plain" \in up' /\ HandlerFits(handler', conns')
    BY <1>1, <1>2, <1>3 DEF HandlerInv, control
  <2> QED
    BY <2>1, Zenon DEF HandlerInv, HandlerFits, AnyActive
<1> QED
  BY <1>2, <1>4, <1>5, IdleFrame DEF client

LEMMA CurrentIs ==
    ASSUME ServerInv, handler.at \in {"read", "dangling", "write"}
    PROVE  /\ handler.i \in DOMAIN conns /\ conns \in Seq(ConnectionType)
           /\ Current \in ConnectionType /\ WellFormed(Current) /\ Current.socket \in Sockets
           /\ Current.dangling \in Seq(Nat)
           /\ Current.response # None => Current.response \in ResponseType
           /\ handler \in HandlerType /\ run \in BOOLEAN /\ Types
           /\ Current.socket \in Settled =>
                  /\ PlaceInv(Current.socket) /\ TalkInv(Current.socket)
                  /\ Current.response # None => ServedInv(Current.socket, Current)
<1>1. /\ Types /\ HandlerInv /\ (\A k \in DOMAIN conns : WellFormed(conns[k]))
      /\ \A s \in Settled : PlaceInv(s) /\ TalkInv(s) /\ Serves(s)
  BY Zenon DEF ServerInv, BasicInv, SocketInv
<1>2. handler.i \in DOMAIN conns
  BY <1>1 DEF HandlerInv, HandlerFits
<1>3. conns \in Seq(ConnectionType) /\ handler \in HandlerType /\ run \in BOOLEAN
  BY <1>1 DEF Types
<1>4. PICK c \in ConnectionType : c = Current
  BY <1>2, <1>3, LenProperties, ElementOfSeq DEF Current
<1>5. /\ c.socket \in Sockets /\ c.dangling \in Seq(Nat)
      /\ c.response # None => c.response \in ResponseType
  BY DEF ConnectionType
<1>6. WellFormed(c)
  BY <1>1, <1>2, <1>4 DEF Current
<1>7. c.socket \in Settled =>
          /\ PlaceInv(c.socket) /\ TalkInv(c.socket)
          /\ c.response # None => ServedInv(c.socket, c)
  BY <1>1, <1>2, <1>4, Zenon DEF Serves, Current
<1> QED
  BY <1>1, <1>2, <1>3, <1>4, <1>5, <1>6, <1>7

LEMMA ReadKeeps ==
    ASSUME ServerInv, Read
    PROVE  ServerInv'
<1>1. handler.at = "read" /\ handler' = Writing(conns')
      /\ UNCHANGED <<control, queue, packets, astray>>
  BY Zenon DEF Read
<1>2. PICK c : c = Current
  OBVIOUS
<1>3. PICK s : s = c.socket
  OBVIOUS
<1>4. PICK inbox : inbox = peer[s].inbox
  OBVIOUS
<1>5. /\ handler.i \in DOMAIN conns /\ conns \in Seq(ConnectionType)
      /\ c \in ConnectionType /\ WellFormed(c) /\ s \in Sockets /\ c.dangling \in Seq(Nat)
      /\ handler \in HandlerType /\ run \in BOOLEAN /\ Types
      /\ s \in Settled => /\ PlaceInv(s) /\ TalkInv(s)
                          /\ c.response # None => ServedInv(s, c)
  BY <1>1, <1>2, <1>3, CurrentIs
<1>6. /\ peer[s] \in PeerType /\ inbox \in Seq({"part", "last"})
      /\ peer \in [Sockets -> PeerType] /\ received \in [Sockets -> Seq(Nat)]
      /\ packets \in Int
  BY <1>4, <1>5, Typed DEF Types
<1>7. CASE c.response # None
  <2>1. UNCHANGED <<conns, client>>
    BY <1>2, <1>7, Zenon DEF Read
  <2>2. HandlerFits(handler', conns) /\ handler' \in HandlerType
    BY <1>1, <1>5, <2>1, WritingFits
  <2>3. Types'
    BY <1>1, <1>5, <2>1, <2>2 DEF Types, control, client
  <2>4. HandlerInv'
    <3>1. HandlerInv
      BY Zenon DEF ServerInv, BasicInv
    <3>2. "plain" \in up' /\ HandlerFits(handler', conns')
      BY <1>1, <2>1, <2>2, <3>1 DEF HandlerInv, control
    <3> QED
      BY <3>2, Zenon DEF HandlerInv, HandlerFits, AnyActive
  <2> QED
    BY <1>1, <2>1, <2>3, <2>4, IdleFrame DEF client
<1>8. CASE c.response = None
  <2>1. /\ peer' = [peer EXCEPT ![s].inbox = Unread(inbox)]
        /\ UNCHANGED connects
        /\ \/ ~Contains(inbox, "last") /\ UNCHANGED <<conns, received>>
           \/ /\ Contains(inbox, "last")
              /\ \E r \in Responses : conns' = [conns EXCEPT ![handler.i].response = r]
              /\ received' = [received EXCEPT ![s] = <<>>]
    BY <1>2, <1>3, <1>4, <1>8, Zenon DEF Read
  <2>2. Unread(inbox) \in Seq({"part", "last"})
    BY <1>6, UnreadIs
  <2>3. /\ peer' \in [Sockets -> PeerType] /\ \A t \in Sockets \ {s} : peer'[t] = peer[t]
        /\ peer'[s].state = peer[s].state /\ peer'[s].awaiting = peer[s].awaiting
        /\ peer'[s].inbox = Unread(inbox)
    BY <1>5, <1>6, <2>1, <2>2 DEF PeerType
  <2>4. c.dangling = None
    BY <1>5, <1>8 DEF WellFormed
  <2>5. ASSUME s \in Settled
        PROVE  peer'[s].inbox = <<>>
    <3>1. \A p \in DOMAIN inbox : inbox[p] = "last" => p = Len(inbox)
      BY <1>4, <1>5, <2>5, Zenon DEF TalkInv
    <3> QED
      BY <1>6, <2>3, <3>1, UnreadIs
  <2>6. ASSUME s \in Settled
        PROVE  TalkInv(s)'
    <3>1. \A p : p \notin DOMAIN peer'[s].inbox
      BY <2>5, <2>6
    <3>2. ~Contains(peer'[s].inbox, "last")
      BY <2>5, <2>6 DEF Contains
    <3> QED
      BY <2>5, <2>6, <3>1, <3>2, Zenon DEF TalkInv, Contains
  <2>7. CASE ~Contains(inbox, "last")
    <3>1. conns' = conns /\ received' = received
      BY <2>1, <2>7
    <3>2. conns = [conns EXCEPT ![handler.i] = c]
      BY <1>2, <1>5 DEF Current
    <3>3. ConnChange(handler.i, c)
      BY <1>1, <1>3, <1>6, <2>1, <2>3, <3>1, <3>2 DEF ConnChange, control
    <3>4. HandlerFits(handler', conns') /\ handler' \in HandlerType
      BY <1>1, <1>5, <3>1, WritingFits
    <3> QED
      BY <1>1, <1>2, <1>3, <1>5, <1>8, <2>6, <3>3, <3>4, ConnFrame DEF Current
  <2>8. CASE Contains(inbox, "last")
    <3>1. PICK r \in Responses : conns' = [conns EXCEPT ![handler.i].response = r]
      BY <2>1, <2>8
    <3>2. r \in ResponseType /\ r.pos = 0 /\ r # None /\ Total(r) \in Nat
      BY ResponseIs
    <3>3. PICK d : d = [c EXCEPT !.response = r]
      OBVIOUS
    <3>4. /\ d \in ConnectionType /\ d.socket = s /\ d.response = r /\ d.dangling = None
          /\ d.active = c.active
      BY <1>3, <1>5, <2>4, <3>2, <3>3 DEF ConnectionType
    <3>5. WellFormed(d)
      BY <3>2, <3>4 DEF WellFormed
    <3>6. conns' = [conns EXCEPT ![handler.i] = d]
      BY <1>2, <3>1, <3>3 DEF Current
    <3>7. conns' \in Seq(ConnectionType) /\ handler.i \in DOMAIN conns'
      BY <1>5, <3>4, <3>6, ReplacedIs
    <3>8. /\ received' \in [Sockets -> Seq(Nat)] /\ received'[s] = <<>>
          /\ \A t \in Sockets \ {s} : received'[t] = received[t]
      <4>1. <<>> \in Seq(Nat) /\ received' = [received EXCEPT ![s] = <<>>]
        BY <2>1, <2>8
      <4> QED
        BY <1>5, <1>6, <4>1
    <3>9. ConnChange(handler.i, d)
      BY <1>1, <1>6, <2>1, <2>3, <3>4, <3>6, <3>8 DEF ConnChange, control
    <3>10. HandlerFits(handler', conns') /\ handler' \in HandlerType
      BY <1>1, <1>5, <3>7, WritingFits
    <3>11. ASSUME s \in Settled PROVE ServedInv(s, d)'
      <4>1. received'[s] \o d.dangling = [n \in 1 .. d.response.pos |-> n]
        <5>1. <<>> \o <<>> = [n \in 1 .. 0 |-> n]
          BY UnitsFollow
        <5> QED
          BY <3>2, <3>4, <3>8, <5>1 DEF None
      <4>2. peer'[s].state = "open" => Queued("data", s)' \/ d.active
        <5>1. Queued("data", s)' <=> Queued("data", s)
          BY <1>1 DEF Queued, Command
        <5>2. inbox # <<>>
          BY <1>6, <2>8 DEF Contains
        <5>3. peer[s].state = "open" =>
                 \/ Queued("data", s)
                 \/ \E k \in DOMAIN conns : conns[k].socket = s /\ conns[k].active
          BY <1>4, <1>5, <3>11, <5>2, Zenon DEF TalkInv
        <5>4. \A k \in DOMAIN conns : conns[k].socket = s => k = handler.i
          BY <1>2, <1>3, <1>5, <3>11, Zenon DEF PlaceInv, Current
        <5>5. peer[s].state = "open" => Queued("data", s) \/ c.active
          BY <1>2, <5>3, <5>4, Zenon DEF Current
        <5> QED
          BY <2>3, <3>4, <5>1, <5>5
      <4>3. peer'[s].state = "open" => peer'[s].awaiting /\ peer'[s].inbox = <<>>
        BY <1>4, <1>5, <2>3, <2>5, <2>8, <3>11, Zenon DEF TalkInv
      <4> QED
        BY <4>1, <4>2, <4>3, Zenon DEF ServedInv, Total
    <3> QED
      BY <1>1, <1>2, <1>3, <1>5, <2>6, <3>4, <3>5, <3>9, <3>10, <3>11, ConnFrame DEF Current
  <2> QED
    BY <2>7, <2>8
<1> QED
  BY <1>7, <1>8

(* A connection whose response goes on: the client, which waits for it,    *)
(* has sent nothing else.                                                  *)
LEMMA WaitsForMore ==
    ASSUME Types, NEW s \in Sockets, NEW c, TalkInv(s), ServedInv(s, c),
           peer[s].state = "open", Len(received[s]) < Total(c.response)
    PROVE  peer[s].awaiting /\ peer[s].inbox = <<>>
  BY Zenon DEF ServedInv

LEMMA QuietIs ==
    ASSUME NEW s, peer'[s].inbox = <<>>
    PROVE  TalkInv(s)'
<1>1. \A p : p \notin DOMAIN peer'[s].inbox
  OBVIOUS
<1>2. ~Contains(peer'[s].inbox, "last")
  BY DEF Contains
<1> QED
  BY <1>1, <1>2, Zenon DEF TalkInv, Contains

(* What the client has taken.                                              *)
LEMMA TakeIs ==
    ASSUME Types, NEW s \in Sockets, NEW units \in Seq(Nat), NEW total \in Nat, Take(s, units, total)
    PROVE  /\ peer' \in [Sockets -> PeerType] /\ received' \in [Sockets -> Seq(Nat)]
           /\ \A t \in Sockets \ {s} : peer'[t] = peer[t] /\ received'[t] = received[t]
           /\ peer'[s].state = peer[s].state /\ peer'[s].inbox = peer[s].inbox
           /\ received'[s] = received[s] \o units
           /\ peer'[s].awaiting = (peer[s].awaiting /\ Len(received'[s]) < total)
           /\ connects' = connects
<1>1. /\ received' = [received EXCEPT ![s] = @ \o units]
      /\ peer' = [peer EXCEPT ![s].awaiting = @ /\ Len(received'[s]) < total]
      /\ connects' = connects
  BY Zenon DEF Take
<1>2. /\ received \in [Sockets -> Seq(Nat)] /\ peer \in [Sockets -> PeerType]
      /\ received[s] \in Seq(Nat) /\ peer[s] \in PeerType /\ peer[s].awaiting \in BOOLEAN
  BY Typed DEF Types
<1>3. PICK got \in Seq(Nat) : got = received[s] \o units
  BY <1>2, ConcatProperties
<1>4. /\ received' \in [Sockets -> Seq(Nat)] /\ received'[s] = got
      /\ \A t \in Sockets \ {s} : received'[t] = received[t]
  BY <1>1, <1>2, <1>3
<1>5. PICK waits \in BOOLEAN : waits = (peer[s].awaiting /\ Len(received'[s]) < total)
  BY <1>2
<1>6. PICK p : p = [peer[s] EXCEPT !.awaiting = waits]
  OBVIOUS
<1>a. /\ p \in PeerType /\ p.state = peer[s].state /\ p.inbox = peer[s].inbox
      /\ p.awaiting = waits
  BY <1>2, <1>6 DEF PeerType
<1>7. peer' = [peer EXCEPT ![s] = p]
  BY <1>1, <1>5, <1>6
<1>8. /\ peer' \in [Sockets -> PeerType] /\ peer'[s] = p
      /\ \A t \in Sockets \ {s} : peer'[t] = peer[t]
  BY <1>2, <1>7, <1>a
<1> QED
  BY <1>1, <1>3, <1>4, <1>5, <1>a, <1>8

LEMMA ResendKeeps ==
    ASSUME ServerInv, NEW outcome, Resend(outcome)
    PROVE  ServerInv'
<1>1. /\ handler.at = "dangling" /\ outcome \in Outcomes(Current.socket)
      /\ UNCHANGED <<control, queue, astray>>
  BY Zenon DEF Resend
<1>2. PICK c : c = Current
  OBVIOUS
<1>3. PICK s : s = c.socket
  OBVIOUS
<1>4. /\ handler.i \in DOMAIN conns /\ conns \in Seq(ConnectionType)
      /\ c \in ConnectionType /\ WellFormed(c) /\ s \in Sockets /\ c.dangling \in Seq(Nat)
      /\ c.response # None => c.response \in ResponseType
      /\ handler \in HandlerType /\ run \in BOOLEAN /\ Types
      /\ s \in Settled => /\ PlaceInv(s) /\ TalkInv(s)
                          /\ c.response # None => ServedInv(s, c)
  BY <1>1, <1>2, <1>3, CurrentIs
<1>5. HandlerInv
  BY Zenon DEF ServerInv, BasicInv
<1>6. c.response # None /\ c.dangling # None
  BY <1>1, <1>2, <1>5 DEF HandlerInv, HandlerFits, Current
<1>7. CASE outcome # "ok"
  <2>1. handler' = Onwards(conns) /\ UNCHANGED <<conns, client, packets>>
    BY <1>7, Zenon DEF Resend
  <2>2. HandlerFits(handler', conns) /\ handler' \in HandlerType
    BY <1>4, <2>1, WritingFits
  <2>3. Types'
    BY <1>1, <1>4, <2>1, <2>2 DEF Types, control, client
  <2>4. HandlerInv'
    <3>1. "plain" \in up' /\ HandlerFits(handler', conns')
      BY <1>1, <1>5, <2>1, <2>2 DEF HandlerInv, control
    <3> QED
      BY <3>1, Zenon DEF HandlerInv, HandlerFits, AnyActive
  <2> QED
    BY <1>1, <2>1, <2>3, <2>4, IdleFrame DEF client
<1>8. CASE outcome = "ok"
  <2>1. /\ Take(s, c.dangling, Total(c.response))
        /\ conns' = [conns EXCEPT ![handler.i].dangling = None]
        /\ packets' = packets - 1
        /\ handler' = [handler EXCEPT !.at = "write"]
    BY <1>2, <1>3, <1>8, Zenon DEF Resend
  <2>2. PICK r \in ResponseType : r = c.response
    BY <1>4, <1>6
  <2>3. r.pos <= Total(r) /\ r.pos \in Nat /\ Total(r) \in Nat
    BY <1>4, <1>6, <2>2 DEF WellFormed, ResponseType, Total
  <2>4. /\ peer' \in [Sockets -> PeerType] /\ received' \in [Sockets -> Seq(Nat)]
        /\ \A t \in Sockets \ {s} : peer'[t] = peer[t] /\ received'[t] = received[t]
        /\ peer'[s].state = peer[s].state /\ peer'[s].inbox = peer[s].inbox
        /\ received'[s] = received[s] \o c.dangling
        /\ peer'[s].awaiting = (peer[s].awaiting /\ Len(received'[s]) < Total(r))
        /\ connects' = connects
    BY <1>4, <2>1, <2>2, <2>3, TakeIs, Zenon
  <2>5. PICK d : d = [c EXCEPT !.dangling = None]
    OBVIOUS
  <2>6. /\ d \in ConnectionType /\ d.socket = s /\ d.response = r /\ d.dangling = None
        /\ d.active = c.active /\ WellFormed(d)
    <3>1. None \in Seq(Nat)
      BY DEF None
    <3>2. /\ d \in ConnectionType /\ d.socket = s /\ d.response = r /\ d.dangling = None
          /\ d.active = c.active
      BY <1>3, <1>4, <2>2, <2>5, <3>1 DEF ConnectionType
    <3> QED
      BY <2>3, <3>2 DEF WellFormed
  <2>7. conns' = [conns EXCEPT ![handler.i] = d]
    BY <1>2, <2>1, <2>5 DEF Current
  <2>8. packets' \in Int
    BY <1>4, <2>1 DEF Types
  <2>9. ConnChange(handler.i, d)
    BY <1>1, <2>4, <2>6, <2>7, <2>8 DEF ConnChange, control
  <2>10. HandlerFits(handler', conns') /\ handler' \in HandlerType
    <3>1. PICK h : h = handler'
      OBVIOUS
    <3>2. h \in HandlerType /\ h.at = "write" /\ h.i = handler.i
      BY <1>4, <2>1, <3>1 DEF HandlerType
    <3>3. h.i \in DOMAIN conns' /\ conns'[h.i] = d
      BY <1>4, <2>6, <2>7, <3>2, ReplacedIs
    <3>4. r # None
      BY <1>6, <2>2
    <3> QED
      BY <2>6, <3>1, <3>2, <3>3, <3>4 DEF HandlerFits
  <2>11. ASSUME s \in Settled
         PROVE  TalkInv(s)' /\ ServedInv(s, d)'
    <3>1. TalkInv(s) /\ ServedInv(s, c)
      BY <1>4, <1>6, <2>11
    <3>2. peer[s].state = "open"
      BY <1>1, <1>2, <1>3, <1>8 DEF Outcomes
    <3>3. received[s] \in Seq(Nat)
      BY <1>4, Typed
    <3>4. received'[s] = [n \in 1 .. r.pos |-> n]
      BY <2>2, <2>4, <3>1 DEF ServedInv
    <3>5. Len(received'[s]) = r.pos
      BY <2>3, <3>4, UnitsFollow
    <3>6. Len(received[s]) < r.pos
      <4>1. Len(received'[s]) = Len(received[s]) + Len(c.dangling)
        BY <1>4, <2>4, <3>3, ConcatProperties
      <4>2. Len(c.dangling) \in Nat /\ Len(c.dangling) # 0 /\ Len(received[s]) \in Nat
        BY <1>4, <1>6, <3>3, LenProperties, EmptySeq DEF None
      <4>3. r.pos = Len(received[s]) + Len(c.dangling)
        BY <3>5, <4>1
      <4>4. PICK x \in Nat, y \in Nat : x = Len(received[s]) /\ y = Len(c.dangling) /\ y # 0
        BY <4>2
      <4>5. r.pos = x + y
        BY <4>3, <4>4
      <4>6. x < x + y
        BY <4>4, LessThanSum, Zenon
      <4> QED
        BY <4>4, <4>5, <4>6, Zenon
    <3>7. Len(received[s]) < Total(c.response)
      BY <2>2, <2>3, <3>3, <3>6, LenProperties
    <3>8. peer[s].awaiting /\ peer[s].inbox = <<>>
      BY <1>4, <3>1, <3>2, <3>7, WaitsForMore
    <3>9. peer'[s].inbox = <<>>
      BY <2>4, <3>8
    <3>10. TalkInv(s)'
      BY <3>9, QuietIs
    <3>11. received'[s] \o d.dangling = [n \in 1 .. d.response.pos |-> n]
      <4>1. received'[s] \in Seq(Nat)
        BY <1>4, <2>4
      <4>2. received'[s] \o <<>> = received'[s]
        BY <4>1, ConcatEmptySeq
      <4> QED
        BY <2>6, <3>4, <4>2 DEF None
    <3>12. peer'[s].state = "open" => Queued("data", s)' \/ d.active
      <4>1. Queued("data", s)' <=> Queued("data", s)
        BY <1>1 DEF Queued, Command
      <4> QED
        BY <2>4, <2>6, <3>1, <4>1 DEF ServedInv
    <3>13. Len(received'[s]) < Total(d.response) => peer'[s].awaiting /\ peer'[s].inbox = <<>>
      BY <2>4, <2>6, <3>8
    <3> QED
      BY <3>10, <3>11, <3>12, <3>13, Zenon DEF ServedInv, Total
  <2> QED
    BY <1>1, <1>2, <1>3, <1>4, <2>6, <2>9, <2>10, <2>11, ConnFrame DEF Current
<1> QED
  BY <1>7, <1>8

LEMMA ClosedIs ==
    ASSUME NEW c \in ConnectionType, c.dangling = None
    PROVE  /\ Closed(c) \in ConnectionType /\ WellFormed(Closed(c))
           /\ Closed(c).socket = c.socket /\ Closed(c).response = None
           /\ Closed(c).dangling = None
  BY DEF Closed, ConnectionType, WellFormed

LEMMA WriteKeeps ==
    ASSUME ServerInv, NEW n \in 1 .. PacketSize, NEW outcome, Write(n, outcome)
    PROVE  ServerInv'
<1>1. /\ handler.at = "write" /\ n \in Chunks(Current.response) \ {0}
      /\ outcome \in Outcomes(Current.socket) /\ handler' = Onwards(conns')
      /\ UNCHANGED <<control, queue, astray>>
  BY Zenon DEF Write
<1>2. PICK c : c = Current
  OBVIOUS
<1>3. PICK s : s = c.socket
  OBVIOUS
<1>4. /\ handler.i \in DOMAIN conns /\ conns \in Seq(ConnectionType)
      /\ c \in ConnectionType /\ WellFormed(c) /\ s \in Sockets
      /\ c.response # None => c.response \in ResponseType
      /\ handler \in HandlerType /\ run \in BOOLEAN /\ Types
      /\ s \in Settled => /\ PlaceInv(s) /\ TalkInv(s)
                          /\ c.response # None => ServedInv(s, c)
  BY <1>1, <1>2, <1>3, CurrentIs
<1>5. HandlerInv
  BY Zenon DEF ServerInv, BasicInv
<1>6. c.response # None /\ c.dangling = None
  BY <1>1, <1>2, <1>5 DEF HandlerInv, HandlerFits, Current
<1>7. PICK r \in ResponseType : r = c.response
  BY <1>4, <1>6
<1>8. r.pos <= Total(r) /\ r.pos \in Nat /\ Total(r) \in Nat
  BY <1>4, <1>6, <1>7 DEF WellFormed, ResponseType, Total
<1>9. n \in Nat /\ n # 0 /\ r.pos + n <= Total(r)
  BY <1>1, <1>2, <1>7, <1>8, ChunksFit
<1>10. PICK q \in ResponseType : q = Committed(r, n)
  BY <1>9, CommittedIs
<1>11. q # None /\ q.pos = r.pos + n /\ Total(q) = Total(r)
  BY <1>9, <1>10, CommittedIs
<1>12. PICK units : units = [k \in 1 .. n |-> r.pos + k]
  OBVIOUS
<1>13. PICK d : d = [c EXCEPT !.response = q]
  OBVIOUS
<1>14. /\ d \in ConnectionType /\ d.socket = s /\ d.response = q /\ d.dangling = None
       /\ d.active = c.active /\ WellFormed(d)
  <2>1. /\ d \in ConnectionType /\ d.socket = s /\ d.response = q /\ d.dangling = None
        /\ d.active = c.active
    BY <1>3, <1>4, <1>6, <1>13 DEF ConnectionType
  <2> QED
    BY <1>8, <1>9, <1>11, <2>1 DEF WellFormed
<1>15. \/ /\ peer[s].state = "open" /\ Take(s, units, Total(r))
          /\ conns' = [conns EXCEPT ![handler.i] = IF IsComplete(r, n) THEN Closed(d) ELSE d]
          /\ packets' = packets
       \/ /\ peer[s].state = "open"
          /\ conns' = [conns EXCEPT ![handler.i] = Blocked(d, units)]
          /\ packets' = packets + 1 /\ UNCHANGED client
       \/ /\ peer[s].state # "open"
          /\ conns' = [conns EXCEPT ![handler.i] = Closed(d)]
          /\ packets' = AfterError /\ UNCHANGED client
  <2>1. \/ /\ outcome = "ok" /\ Take(s, units, Total(r))
           /\ conns' = [conns EXCEPT ![handler.i] = IF IsComplete(r, n) THEN Closed(d) ELSE d]
           /\ packets' = packets
        \/ /\ outcome = "would block"
           /\ conns' = [conns EXCEPT ![handler.i] = Blocked(d, units)]
           /\ packets' = packets + 1 /\ UNCHANGED client
        \/ /\ outcome = "error"
           /\ conns' = [conns EXCEPT ![handler.i] = Closed(d)]
           /\ packets' = AfterError /\ UNCHANGED client
    BY <1>2, <1>3, <1>7, <1>10, <1>12, <1>13, Zenon DEF Write
  <2>2. /\ outcome = "ok" \/ outcome = "would block" => peer[s].state = "open"
        /\ outcome = "error" => peer[s].state # "open"
    BY <1>1, <1>2, <1>3, Zenon DEF Outcomes
  <2> QED
    BY <2>1, <2>2, Zenon
<1>16. units \in Seq(Nat) /\ Len(units) = n /\ units # None
  <2>1. units \in Seq(Nat) /\ Len(units) = n
    BY <1>8, <1>9, <1>12, UnitsFollow
  <2> QED
    BY <1>9, <2>1, EmptySeq DEF None
<1>17. /\ packets \in Int /\ peer \in [Sockets -> PeerType] /\ received \in [Sockets -> Seq(Nat)]
       /\ received[s] \in Seq(Nat) /\ connects \in Nat
  BY <1>4 DEF Types
<1>18. ASSUME NEW e \in ConnectionType, conns' = [conns EXCEPT ![handler.i] = e]
       PROVE  HandlerFits(handler', conns') /\ handler' \in HandlerType
  <2>1. conns' \in Seq(ConnectionType) /\ handler.i \in DOMAIN conns'
    BY <1>4, <1>18, ReplacedIs
  <2> QED
    BY <1>1, <1>4, <2>1, WritingFits
<1>19. ASSUME s \in Settled
       PROVE  /\ received[s] = [k \in 1 .. r.pos |-> k]
              /\ Len(received[s]) < Total(r)
              /\ received[s] \o units = [k \in 1 .. q.pos |-> k]
              /\ TalkInv(s) /\ ServedInv(s, c)
  <2>1. TalkInv(s) /\ ServedInv(s, c)
    BY <1>4, <1>6, <1>19
  <2>2. received[s] \o <<>> = received[s]
    BY <1>17, ConcatEmptySeq
  <2>3. received[s] = [k \in 1 .. r.pos |-> k]
    BY <1>6, <1>7, <2>1, <2>2 DEF ServedInv, None
  <2>4. Len(received[s]) = r.pos
    BY <1>8, <2>3, UnitsFollow
  <2>5. r.pos < Total(r)
    BY <1>8, <1>9
  <2>6. received[s] \o units = [k \in 1 .. r.pos + n |-> k]
    BY <1>8, <1>9, <1>12, <2>3, UnitsFollow
  <2> QED
    BY <1>11, <2>1, <2>3, <2>4, <2>5, <2>6
<1>20. Queued("data", s)' <=> Queued("data", s)
  BY <1>1 DEF Queued, Command
<1>21. ASSUME s \in Settled, peer[s].state = "open"
       PROVE  peer[s].awaiting /\ peer[s].inbox = <<>>
  BY <1>4, <1>7, <1>19, <1>21, WaitsForMore
<1>22. CASE /\ peer[s].state = "open" /\ Take(s, units, Total(r))
            /\ conns' = [conns EXCEPT ![handler.i] = IF IsComplete(r, n) THEN Closed(d) ELSE d]
            /\ packets' = packets
  <2>1. /\ peer' \in [Sockets -> PeerType] /\ received' \in [Sockets -> Seq(Nat)]
        /\ \A t \in Sockets \ {s} : peer'[t] = peer[t] /\ received'[t] = received[t]
        /\ peer'[s].state = peer[s].state /\ peer'[s].inbox = peer[s].inbox
        /\ received'[s] = received[s] \o units
        /\ peer'[s].awaiting = (peer[s].awaiting /\ Len(received'[s]) < Total(r))
        /\ connects' = connects
    BY <1>4, <1>8, <1>16, <1>22, TakeIs, Zenon
  <2>2. PICK e : e = IF IsComplete(r, n) THEN Closed(d) ELSE d
    OBVIOUS
  <2>3. /\ e \in ConnectionType /\ WellFormed(e) /\ e.socket = s
        /\ e.response # None => e = d
    BY <1>14, <2>2, ClosedIs
  <2>4. ConnChange(handler.i, e)
    BY <1>1, <1>17, <1>22, <2>1, <2>2, <2>3 DEF ConnChange, control
  <2>5. HandlerFits(handler', conns') /\ handler' \in HandlerType
    BY <1>18, <1>22, <2>2, <2>3
  <2>6. ASSUME s \in Settled
        PROVE  TalkInv(s)' /\ (e.response # None => ServedInv(s, e)')
    <3>1. peer[s].state = "open"
      BY <1>22
    <3>2. peer[s].awaiting /\ peer[s].inbox = <<>>
      BY <1>21, <2>6, <3>1
    <3>3. peer'[s].inbox = <<>>
      BY <2>1, <3>2
    <3>4. TalkInv(s)'
      BY <3>3, QuietIs
    <3>5. ASSUME e.response # None
          PROVE  ServedInv(s, e)'
      <4>1. e = d
        BY <2>3, <3>5
      <4>2. received'[s] \o <<>> = received'[s]
        <5>1. received'[s] \in Seq(Nat)
          BY <1>4, <2>1
        <5> QED
          BY <5>1, ConcatEmptySeq
      <4>3. received'[s] \o d.dangling = [k \in 1 .. d.response.pos |-> k]
        BY <1>14, <1>19, <2>1, <2>6, <4>2 DEF None
      <4>4. peer'[s].state = "open" => Queued("data", s)' \/ d.active
        BY <1>14, <1>19, <1>20, <2>1, <2>6 DEF ServedInv
      <4>5. Len(received'[s]) < Total(d.response) => peer'[s].awaiting /\ peer'[s].inbox = <<>>
        BY <1>11, <1>14, <2>1, <3>2
      <4> QED
        BY <4>1, <4>3, <4>4, <4>5, Zenon DEF ServedInv, Total
    <3> QED
      BY <3>4, <3>5
  <2> QED
    BY <1>1, <1>2, <1>3, <1>4, <2>3, <2>4, <2>5, <2>6, ConnFrame DEF Current
<1>23. CASE /\ peer[s].state = "open"
            /\ conns' = [conns EXCEPT ![handler.i] = Blocked(d, units)]
            /\ packets' = packets + 1 /\ UNCHANGED client
  <2>1. PICK e : e = Blocked(d, units)
    OBVIOUS
  <2>2. /\ e \in ConnectionType /\ WellFormed(e) /\ e.socket = s /\ e.response = q
        /\ e.dangling = units /\ e.active = c.active
    <3>1. /\ e \in ConnectionType /\ e.socket = s /\ e.response = q
          /\ e.dangling = units /\ e.active = c.active
      BY <1>14, <1>16, <2>1 DEF Blocked, ConnectionType
    <3> QED
      BY <1>8, <1>9, <1>11, <3>1 DEF WellFormed
  <2>3. peer' = peer /\ received' = received /\ connects' = connects
    BY <1>23 DEF client
  <2>4. packets' \in Int
    BY <1>17, <1>23
  <2>5. ConnChange(handler.i, e)
    BY <1>1, <1>17, <1>23, <2>1, <2>2, <2>3, <2>4 DEF ConnChange, control
  <2>6. HandlerFits(handler', conns') /\ handler' \in HandlerType
    BY <1>18, <1>23, <2>1, <2>2
  <2>7. ASSUME s \in Settled
        PROVE  TalkInv(s)' /\ ServedInv(s, e)'
    <3>1. peer[s].state = "open"
      BY <1>23
    <3>2. peer[s].awaiting /\ peer[s].inbox = <<>>
      BY <1>21, <2>7, <3>1
    <3>3. peer'[s].inbox = <<>>
      BY <2>3, <3>2
    <3>4. TalkInv(s)'
      BY <3>3, QuietIs
    <3>5. received'[s] \o e.dangling = [k \in 1 .. e.response.pos |-> k]
      BY <1>19, <2>2, <2>3, <2>7
    <3>6. peer'[s].state = "open" => Queued("data", s)' \/ e.active
      BY <1>19, <1>20, <2>2, <2>3, <2>7 DEF ServedInv
    <3>7. peer'[s].awaiting /\ peer'[s].inbox = <<>>
      BY <2>3, <3>2
    <3> QED
      BY <3>4, <3>5, <3>6, <3>7, Zenon DEF ServedInv, Total
  <2> QED
    BY <1>1, <1>2, <1>3, <1>4, <2>2, <2>5, <2>6, <2>7, ConnFrame DEF Current
<1>24. CASE /\ peer[s].state # "open"
            /\ conns' = [conns EXCEPT ![handler.i] = Closed(d)]
            /\ packets' = AfterError /\ UNCHANGED client
  <2>1. PICK e : e = Closed(d)
    OBVIOUS
  <2>2. e \in ConnectionType /\ WellFormed(e) /\ e.socket = s /\ e.response = None
    BY <1>14, <2>1, ClosedIs
  <2>3. peer' = peer /\ received' = received /\ connects' = connects /\ packets' = packets
    BY <1>24 DEF client, AfterError
  <2>4. ConnChange(handler.i, e)
    BY <1>1, <1>17, <1>24, <2>1, <2>2, <2>3 DEF ConnChange, control
  <2>5. HandlerFits(handler', conns') /\ handler' \in HandlerType
    BY <1>18, <1>24, <2>1, <2>2
  <2>6. ASSUME s \in Settled
        PROVE  TalkInv(s)'
    <3>1. peer'[s].state # "open"
      BY <1>24, <2>3
    <3>2. \A p \in DOMAIN peer[s].inbox : peer[s].inbox[p] = "last" => p = Len(peer[s].inbox)
      BY <1>19, <2>6, Zenon DEF TalkInv
    <3>3. \A p \in DOMAIN peer'[s].inbox : peer'[s].inbox[p] = "last" => p = Len(peer'[s].inbox)
      BY <2>3, <3>2
    <3> QED
      BY <3>1, <3>3, Zenon DEF TalkInv
  <2> QED
    BY <1>1, <1>2, <1>3, <1>4, <2>2, <2>4, <2>5, <2>6, ConnFrame DEF Current
<1> QED
  BY <1>15, <1>22, <1>23, <1>24

-----------------------------------------------------------------------------
(* start and stop                                                          *)

LEMMA StartKeeps ==
    ASSUME ServerInv, NEW outcome, Start(outcome)
    PROVE  ServerInv'
<1>1. Types /\ HandlerInv
  BY Zenon DEF ServerInv, BasicInv
<1>2. /\ "plain" \notin up /\ starts' = starts + 1
      /\ UNCHANGED <<owner, queue, conns, client, packets, astray>>
      /\ \/ /\ up' = {"plain", "tls"} /\ run' = TRUE
            /\ handler' = [at |-> "process", forever |-> TRUE, i |-> 1]
         \/ UNCHANGED <<up, run, handler>>
         \/ up' = {"tls"} /\ run' = TRUE /\ UNCHANGED handler
  BY Zenon DEF Start
<1>3. handler.at = "none" /\ conns = <<>> /\ HandlerFits(handler, conns) /\ handler \in HandlerType
  BY <1>1, <1>2 DEF HandlerInv, HandlerFits, Types
<1>4. /\ handler' \in HandlerType /\ HandlerFits(handler', conns)
      /\ "plain" \notin up' => handler'.at = "none"
  <2>1. CASE /\ up' = {"plain", "tls"}
             /\ handler' = [at |-> "process", forever |-> TRUE, i |-> 1]
    <3>1. PICK h : h = handler'
      OBVIOUS
    <3>2. h \in HandlerType /\ h.at = "process" /\ h.forever
      BY <2>1, <3>1 DEF HandlerType
    <3>3. ~AnyActive(<<>>)
      BY DEF AnyActive
    <3> QED
      BY <1>3, <2>1, <3>1, <3>2, <3>3 DEF HandlerFits
  <2>2. CASE UNCHANGED <<up, handler>>
    BY <1>2, <1>3, <2>2
  <2>3. CASE up' = {"tls"} /\ UNCHANGED handler
    BY <1>3, <2>3
  <2> QED
    BY <1>2, <2>1, <2>2, <2>3
<1>5. Types'
  <2>1. up' \subseteq {"plain", "tls"} /\ run' \in BOOLEAN
    BY <1>1, <1>2 DEF Types
  <2>2. /\ UNCHANGED <<owner, queue, conns, peer, received, connects, packets, astray>>
        /\ starts' \in Nat
    BY <1>1, <1>2 DEF client, Types
  <2> QED
    BY <1>1, <1>4, <2>1, <2>2, Zenon DEF Types
<1>6. HandlerInv'
  <2>1. HandlerFits(handler', conns')
    BY <1>2, <1>4
  <2> QED
    BY <1>4, <2>1, Zenon DEF HandlerInv, HandlerFits, AnyActive
<1> QED
  BY <1>2, <1>5, <1>6, IdleFrame DEF client

LEMMA StopKeeps ==
    ASSUME ServerInv, Stop
    PROVE  ServerInv'
<1>1. Types /\ HandlerInv
  BY Zenon DEF ServerInv, BasicInv
<1>2. /\ "plain" \in up /\ run' = FALSE /\ owner' = "wait"
      /\ handler' = Woken \/ handler' = handler
      /\ UNCHANGED <<up, starts, queue, conns, client, packets, astray>>
  BY Zenon DEF Stop
<1>3. Woken \in HandlerType /\ HandlerFits(Woken, conns)
  <2>1. CASE conns = <<>>
    <3>1. Woken = [at |-> "ended", forever |-> FALSE, i |-> 1]
      BY <2>1 DEF Woken, NoThread
    <3> QED
      BY <3>1 DEF HandlerType, HandlerFits
  <2>2. CASE conns # <<>>
    <3>1. Woken = [at |-> "read", forever |-> FALSE, i |-> 1]
      BY <2>2 DEF Woken
    <3>2. 1 \in DOMAIN conns
      BY <1>1, <2>2, EmptySeq, LenProperties DEF Types
    <3> QED
      BY <3>1, <3>2 DEF HandlerType, HandlerFits
  <2> QED
    BY <2>1, <2>2
<1>4. handler' \in HandlerType /\ HandlerFits(handler', conns)
  BY <1>1, <1>2, <1>3 DEF Types, HandlerInv
<1>5. Types'
  BY <1>1, <1>2, <1>4 DEF Types, client
<1>6. HandlerInv'
  <2>1. HandlerFits(handler', conns') /\ "plain" \in up'
    BY <1>2, <1>4
  <2> QED
    BY <2>1, Zenon DEF HandlerInv, HandlerFits, AnyActive
<1> QED
  BY <1>2, <1>5, <1>6, IdleFrame DEF client

LEMMA ListeningType == Listening \in PeerType
<1>1. <<>> \in Seq({"part", "last"})
  OBVIOUS
<1> QED
  BY <1>1 DEF Listening, PeerType

(* A socket that listens, without command or connection.                   *)
LEMMA FreshIs ==
    ASSUME NEW s, peer[s] = Listening, conns = <<>>, \A p \in DOMAIN queue : queue[p].socket # s
    PROVE  SocketInv(s)
<1>1. /\ Listening.state = "listening" /\ Listening.inbox = <<>>
  BY DEF Listening
<1>2. \A k : k \notin DOMAIN conns
  OBVIOUS
<1>3. \A op, p : p \in DOMAIN queue => queue[p] # Command(op, s)
  BY DEF Command
<1>4. \A op : ~Queued(op, s)
  BY <1>3, Zenon DEF Queued
<1>5. Listening.state # "closed" /\ Listening.state # "open"
  BY <1>1
<1>6. PlaceInv(s)
  BY <1>1, <1>2, <1>3, <1>4, <1>5, Zenon DEF PlaceInv
<1>7. \A p : p \notin DOMAIN peer[s].inbox
  BY <1>1
<1>8. TalkInv(s)
  BY <1>5, <1>7, Zenon DEF TalkInv
<1>9. Serves(s)
  BY <1>2, Zenon DEF Serves
<1> QED
  BY <1>6, <1>8, <1>9, Zenon DEF SocketInv

LEMMA FreshNext ==
    ASSUME NEW s, peer'[s] = Listening, conns' = <<>>, \A p \in DOMAIN queue' : queue'[p].socket # s
    PROVE  SocketInv(s)'
<1>1. /\ Listening.state = "listening" /\ Listening.inbox = <<>>
  BY DEF Listening
<1>2. \A k : k \notin DOMAIN conns'
  OBVIOUS
<1>3. \A op, p : p \in DOMAIN queue' => queue'[p] # Command(op, s)
  BY DEF Command
<1>4. \A op : ~Queued(op, s)'
  BY <1>3, Zenon DEF Queued, Command
<1>5. Listening.state # "closed" /\ Listening.state # "open"
  BY <1>1
<1>6. PlaceInv(s)'
  BY <1>1, <1>2, <1>3, <1>4, <1>5, Zenon DEF PlaceInv, Command, Listening
<1>7. \A p : p \notin DOMAIN peer'[s].inbox
  BY <1>1
<1>8. TalkInv(s)'
  BY <1>5, <1>7, Zenon DEF TalkInv
<1>9. Serves(s)'
  BY <1>2, Zenon DEF Serves
<1> QED
  BY <1>6, <1>8, <1>9, Zenon DEF SocketInv

LEMMA NoThreadIs == NoThread \in HandlerType /\ HandlerFits(NoThread, <<>>) /\ NoThread.at = "none"
  BY DEF NoThread, HandlerType, HandlerFits

LEMMA StopEndsKeeps ==
    ASSUME ServerInv, StopEnds
    PROVE  ServerInv'
<1>1. Types
  BY Zenon DEF ServerInv, BasicInv
<1>2. /\ owner' = "idle" /\ up' = {} /\ handler' = NoThread /\ conns' = <<>>
      /\ peer' = [s \in Sockets |-> Listening]
      /\ received' = [s \in Sockets |-> <<>>]
      /\ astray' = {queue[k].socket : k \in DOMAIN queue}
      /\ UNCHANGED <<run, starts, queue, connects, packets>>
  BY Zenon DEF StopEnds
<1>3. \A p \in DOMAIN queue : queue[p].socket \in Sockets
  <2>1. queue \in Seq(CommandType)
    BY <1>1 DEF Types
  <2>2. \A p \in DOMAIN queue : queue[p] \in CommandType
    BY <2>1, ElementOfSeq, LenProperties
  <2> QED
    BY <2>2 DEF CommandType
<1>4. astray' \subseteq Sockets
  BY <1>2, <1>3
<1>5. Types'
  <2>1. /\ <<>> \in Seq(ConnectionType) /\ <<>> \in Seq(Nat)
    OBVIOUS
  <2>2. /\ peer' \in [Sockets -> PeerType] /\ received' \in [Sockets -> Seq(Nat)]
        /\ conns' \in Seq(ConnectionType)
    BY <1>2, <2>1, ListeningType
  <2> QED
    BY <1>1, <1>2, <1>4, <2>2, NoThreadIs DEF Types
<1>6. HandlerInv'
  <2>1. HandlerFits(handler', conns') /\ handler'.at = "none"
    BY <1>2, NoThreadIs
  <2> QED
    BY <2>1, Zenon DEF HandlerInv, HandlerFits, AnyActive
<1>7. BasicInv'
  <2>1. \A k : k \notin DOMAIN conns'
    BY <1>2
  <2> QED
    BY <1>5, <1>6, <2>1, Zenon DEF BasicInv
<1>8. ASSUME NEW s \in Sockets, s \notin astray'
      PROVE  SocketInv(s)'
  <2>1. \A p \in DOMAIN queue' : queue'[p].socket # s
    BY <1>2, <1>8
  <2>2. peer'[s] = Listening
    BY <1>2
  <2> QED
    BY <1>2, <2>1, <2>2, FreshNext
<1>9. \A s \in Settled' : SocketInv(s)'
  BY <1>8 DEF Settled
<1> QED
  BY <1>7, <1>9, Zenon DEF ServerInv

LEMMA InitHolds == Init => ServerInv
<1> SUFFICES ASSUME Init PROVE ServerInv
  OBVIOUS
<1>1. /\ <<>> \in Seq(ConnectionType) /\ <<>> \in Seq(CommandType) /\ <<>> \in Seq(Nat)
  OBVIOUS
<1>2. Types
  <2>1. peer \in [Sockets -> PeerType] /\ received \in [Sockets -> Seq(Nat)]
    BY <1>1, ListeningType DEF Init
  <2>0. /\ up = {} /\ run = FALSE /\ owner = "idle"
        /\ packets = 0 /\ astray = {} /\ connects = 0 /\ starts = 0
    BY Zenon DEF Init
  <2>2. /\ up \subseteq {"plain", "tls"} /\ run \in BOOLEAN /\ owner \in {"idle", "wait"}
        /\ packets \in Int /\ astray \subseteq Sockets /\ connects \in Nat /\ starts \in Nat
    <3>1. up \subseteq {"plain", "tls"} /\ astray \subseteq Sockets
      BY <2>0
    <3>2. run \in BOOLEAN /\ owner \in {"idle", "wait"}
      BY <2>0
    <3>3. packets \in Int
      BY <2>0
    <3>4. connects \in Nat /\ starts \in Nat
      BY <2>0
    <3> QED
      BY <3>1, <3>2, <3>3, <3>4
  <2>3. handler \in HandlerType /\ queue \in Seq(CommandType) /\ conns \in Seq(ConnectionType)
    BY <1>1, NoThreadIs DEF Init
  <2> QED
    BY <2>1, <2>2, <2>3, Zenon DEF Types
<1>3. HandlerInv
  BY NoThreadIs DEF Init, HandlerInv
<1>4. BasicInv
  <2>1. \A k : k \notin DOMAIN conns
    BY DEF Init
  <2> QED
    BY <1>2, <1>3, <2>1, Zenon DEF BasicInv
<1>5. ASSUME NEW s \in Settled PROVE SocketInv(s)
  <2>1. /\ peer[s] = Listening /\ conns = <<>> /\ queue = <<>>
    BY DEF Init, Settled
  <2> QED
    BY <2>1, FreshIs
<1> QED
  BY <1>4, <1>5, Zenon DEF ServerInv

LEMMA StepKeeps == ServerInv /\ [Next]_vars => ServerInv'
<1> SUFFICES ASSUME ServerInv, [Next]_vars PROVE ServerInv'
  OBVIOUS
<1>1. CASE Handler
  <2>1. ASSUME NEW s \in Sockets, RunConnect(s) \/ RunData(s) \/ RunDisconnect(s)
        PROVE  ServerInv'
    BY <2>1, RunConnectKeeps, RunDataKeeps, RunDisconnectKeeps, Zenon
  <2>2. ASSUME NEW outcome, Resend(outcome) \/ \E n \in 1 .. PacketSize : Write(n, outcome)
        PROVE  ServerInv'
    BY <2>2, ResendKeeps, WriteKeeps, Zenon
  <2> QED
    BY <1>1, <2>1, <2>2, PopTimeoutKeeps, ReadKeeps, WriteNothingKeeps, Zenon DEF Handler
<1>2. CASE Network
  BY <1>2, ConnectKeeps, DisconnectKeeps, SendDataKeeps, Zenon DEF Network
<1>3. CASE Owner
  BY <1>3, StopKeeps, StopEndsKeeps, StartKeeps, Zenon DEF Owner
<1>4. CASE UNCHANGED vars
  <2>1. Types /\ HandlerInv
    BY Zenon DEF ServerInv, BasicInv
  <2>2. UNCHANGED <<up, run, owner, handler, queue, conns, peer, received, packets, astray,
                    connects, starts>>
    BY <1>4 DEF vars
  <2>3. Types'
    BY <2>1, <2>2 DEF Types
  <2>4. HandlerInv'
    <3>1. HandlerFits(handler', conns') /\ ("plain" \notin up' => handler'.at = "none")
      BY <2>1, <2>2 DEF HandlerInv
    <3> QED
      BY <3>1, Zenon DEF HandlerInv, HandlerFits, AnyActive
  <2> QED
    BY <2>2, <2>3, <2>4, IdleFrame
<1> QED
  BY <1>1, <1>2, <1>3, <1>4, Zenon DEF Next

(* The invariant of the server: types, where its thread is, and for every  *)
(* settled socket its commands, its connection and its response.           *)
THEOREM ServerInvariant == Spec => []ServerInv
  BY InitHolds, StepKeeps, PTL DEF Spec

-----------------------------------------------------------------------------
(* What the invariant says of the server                                   *)

(* A client gets the data of its response in order, without a gap and      *)
(* nothing twice, however often sending its packets would block.           *)
THEOREM ResponsesAreExact == Spec => []ResponseIsExact
<1>1. ServerInv => ResponseIsExact
  <2> SUFFICES ASSUME ServerInv, NEW k \in DOMAIN conns,
                      conns[k].socket \in Settled, conns[k].response # None
               PROVE  received[conns[k].socket] \o conns[k].dangling
                        = [n \in 1 .. conns[k].response.pos |-> n]
    BY DEF ResponseIsExact
  <2>1. Serves(conns[k].socket)
    BY Zenon DEF ServerInv, SocketInv
  <2>2. ServedInv(conns[k].socket, conns[k])
    BY <2>1, Zenon DEF Serves
  <2> QED
    BY <2>2, Zenon DEF ServedInv
<1> QED
  BY <1>1, ServerInvariant, PTL

(* A socket has one connection from the command that connects it to the    *)
(* one that disconnects it, and else none.                                 *)
THEOREM SocketsHaveTheirConnection == Spec => []SocketsAreTheirs
<1>1. ServerInv => SocketsAreTheirs
  <2> SUFFICES ASSUME ServerInv, NEW s \in Settled
               PROVE  Cardinality(IsOf(s)) = IF peer[s].state = "listening"
                                                \/ Command("connect", s) \in Range(queue)
                                             THEN 0 ELSE 1
    BY DEF SocketsAreTheirs
  <2>1. PlaceInv(s)
    BY Zenon DEF ServerInv, SocketInv
  <2>2. Command("connect", s) \in Range(queue) <=> Queued("connect", s)
    BY DEF Range, Queued
  <2>3. CASE peer[s].state = "listening" \/ Queued("connect", s)
    <3>1. \A k \in DOMAIN conns : conns[k].socket # s
      BY <2>1, <2>3, Zenon DEF PlaceInv
    <3>2. IsOf(s) = {}
      BY <3>1 DEF IsOf
    <3> QED
      BY <2>2, <2>3, <3>2, FS_EmptySet
  <2>4. CASE ~(peer[s].state = "listening" \/ Queued("connect", s))
    <3>1. ~ \A k \in DOMAIN conns : conns[k].socket # s
      BY <2>1, <2>4, Zenon DEF PlaceInv
    <3>2. PICK k \in DOMAIN conns : conns[k].socket = s
      BY <3>1
    <3>3. \A j \in DOMAIN conns : conns[j].socket = s => j = k
      BY <2>1, <3>2, Zenon DEF PlaceInv
    <3>4. IsOf(s) = {k}
      BY <3>2, <3>3 DEF IsOf
    <3> QED
      BY <2>2, <2>4, <3>4, FS_Singleton
  <2> QED
    BY <2>3, <2>4
<1> QED
  BY <1>1, ServerInvariant, PTL

(* When the thread waits for a command without a timeout and none is       *)
(* queued, no client waits for it.                                         *)
THEOREM SleepsOnlyWhenIdle == Spec => []AsleepMeansIdle
<1>1. ServerInv => AsleepMeansIdle
  <2> SUFFICES ASSUME ServerInv, handler.at = "process", handler.forever, queue = <<>>,
                      NEW k \in DOMAIN conns, conns[k].socket \in Settled,
                      peer[conns[k].socket].state = "open"
               PROVE  IF conns[k].response = None THEN peer[conns[k].socket].inbox = <<>>
                      ELSE Finished(conns[k])
    BY DEF AsleepMeansIdle
  <2>1. PICK s : s = conns[k].socket
    OBVIOUS
  <2>2. TalkInv(s) /\ Serves(s)
    BY <2>1, Zenon DEF ServerInv, SocketInv
  <2>3. \A j \in DOMAIN conns : ~conns[j].active
    <3>1. ~AnyActive(conns)
      BY Zenon DEF ServerInv, BasicInv, HandlerInv, HandlerFits
    <3> QED
      BY <3>1 DEF AnyActive
  <2>4. ~Queued("data", s)
    BY DEF Queued
  <2>5. peer[s].inbox = <<>>
    BY <2>1, <2>2, <2>3, <2>4, Zenon DEF TalkInv
  <2>6. conns[k].response = None
    <3> SUFFICES ASSUME conns[k].response # None PROVE FALSE
      OBVIOUS
    <3>1. ServedInv(s, conns[k])
      BY <2>1, <2>2, Zenon DEF Serves
    <3> QED
      BY <2>1, <2>3, <2>4, <3>1, Zenon DEF ServedInv
  <2> QED
    BY <2>1, <2>5, <2>6
<1> QED
  BY <1>1, ServerInvariant, PTL

-----------------------------------------------------------------------------
(* Packets                                                                 *)

Blocking(cs) == {k \in DOMAIN cs : cs[k].dangling # None}

LEMMA BlockingIsFinite ==
    ASSUME NEW cs \in Seq(ConnectionType)
    PROVE  IsFiniteSet(Blocking(cs)) /\ Dangling(cs) = Cardinality(Blocking(cs))
                                     /\ Dangling(cs) \in Nat
<1>1. Blocking(cs) \subseteq 1 .. Len(cs) /\ Len(cs) \in Nat
  BY LenProperties DEF Blocking
<1>2. IsFiniteSet(1 .. Len(cs))
  BY <1>1, FS_Interval
<1>3. IsFiniteSet(Blocking(cs))
  BY <1>1, <1>2, FS_Subset
<1> QED
  BY <1>3, FS_CardinalityType DEF Dangling, Blocking

LEMMA SameBlocking ==
    ASSUME NEW cs \in Seq(ConnectionType), NEW i \in DOMAIN cs, NEW c \in ConnectionType,
           c.dangling = None <=> cs[i].dangling = None
    PROVE  Dangling([cs EXCEPT ![i] = c]) = Dangling(cs)
<1>1. PICK ds : ds = [cs EXCEPT ![i] = c]
  OBVIOUS
<1>2. DOMAIN ds = DOMAIN cs /\ \A k \in DOMAIN cs : ds[k] = IF k = i THEN c ELSE cs[k]
  BY <1>1, ReplacedIs
<1>3. Blocking(ds) = Blocking(cs)
  BY <1>2 DEF Blocking
<1> QED
  BY <1>1, <1>3 DEF Dangling, Blocking

(* Packets that are allocated are the ones that connections hold, apart    *)
(* from those that were lost with their connection.                        *)
Steady == packets' - Dangling(conns') = packets - Dangling(conns)

LEMMA SameSteady ==
    ASSUME packets' = packets, Dangling(conns') = Dangling(conns)
    PROVE  Steady
  BY DEF Steady

(* A connection without a dangling packet is erased with no loss.          *)
LEMMA RemovedBlocking ==
    ASSUME NEW cs \in Seq(ConnectionType), NEW m \in DOMAIN cs, cs[m].dangling = None
    PROVE  Dangling(RemoveAt(cs, m)) = Dangling(cs)
<1>1. PICK n, ds : n = Len(cs) /\ ds = RemoveAt(cs, m)
  OBVIOUS
<1>0. n \in Nat
  BY <1>1, LenProperties
<1>2. /\ ds \in Seq(ConnectionType) /\ Len(ds) = n - 1
      /\ \A k \in 1 .. n - 1 : ds[k] = IF k < m THEN cs[k] ELSE cs[k + 1]
  BY <1>1, RemovedIs
<1>3. DOMAIN cs = 1 .. n /\ DOMAIN ds = 1 .. n - 1 /\ m \in 1 .. n
  BY <1>0, <1>1, <1>2, LenProperties
<1>4. PICK A, B : A = Blocking(cs) /\ B = Blocking(ds)
  OBVIOUS
<1>5. \A k : k \in A <=> k \in 1 .. n /\ cs[k].dangling # None
  BY <1>3, <1>4 DEF Blocking
<1>6. \A k : k \in B <=> k \in 1 .. n - 1 /\ ds[k].dangling # None
  BY <1>3, <1>4 DEF Blocking
<1>7. PICK f : f = [k \in A |-> IF k < m THEN k ELSE k - 1]
  OBVIOUS
<1>8. ASSUME NEW k \in A
      PROVE  f[k] \in B
  <2>1. k \in 1 .. n /\ cs[k].dangling # None /\ k # m
    BY <1>5
  <2>2. CASE k < m
    <3>1. f[k] = k /\ k \in 1 .. n - 1 /\ ds[k] = cs[k]
      BY <1>0, <1>2, <1>3, <1>7, <2>1, <2>2
    <3> QED
      BY <1>6, <2>1, <3>1
  <2>3. CASE ~(k < m)
    <3>1. f[k] = k - 1 /\ k - 1 \in 1 .. n - 1 /\ ~(k - 1 < m) /\ (k - 1) + 1 = k
      BY <1>0, <1>3, <1>7, <2>1, <2>3
    <3>2. ds[k - 1] = cs[k]
      BY <1>2, <3>1
    <3> QED
      BY <1>6, <2>1, <3>1, <3>2
  <2> QED
    BY <2>2, <2>3
<1>9. ASSUME NEW k \in A, NEW l \in A, f[k] = f[l]
      PROVE  k = l
  <2>1. k \in 1 .. n /\ l \in 1 .. n /\ k # m /\ l # m
    BY <1>5
  <2>2. /\ k < m => f[k] = k
        /\ ~(k < m) => f[k] = k - 1
        /\ l < m => f[l] = l
        /\ ~(l < m) => f[l] = l - 1
    BY <1>7
  <2>3. k \in Nat /\ l \in Nat /\ m \in Nat
    BY <1>0, <1>3, <2>1
  <2> QED
    BY <1>9, <2>1, <2>2, <2>3
<1>10. ASSUME NEW j \in B
       PROVE  \E k \in A : f[k] = j
  <2>1. j \in 1 .. n - 1 /\ ds[j].dangling # None
    BY <1>6
  <2>2. CASE j < m
    <3>1. j \in A
      BY <1>0, <1>2, <1>5, <2>1, <2>2
    <3> QED
      BY <1>7, <2>2, <3>1
  <2>3. CASE ~(j < m)
    <3>1. j + 1 \in 1 .. n /\ ~(j + 1 < m) /\ (j + 1) - 1 = j
      BY <1>0, <1>3, <2>1, <2>3
    <3>2. ds[j] = cs[j + 1]
      BY <1>2, <2>1, <2>3
    <3>3. j + 1 \in A
      BY <1>5, <2>1, <3>1, <3>2
    <3> QED
      BY <1>7, <3>1, <3>3
  <2> QED
    BY <2>2, <2>3
<1>11. f \in Bijection(A, B)
  <2>1. f \in [A -> B]
    BY <1>7, <1>8
  <2> QED
    BY <2>1, <1>9, <1>10 DEF Bijection, Injection, Surjection, IsInjective
<1>12. IsFiniteSet(A)
  BY <1>4, BlockingIsFinite
<1>13. Cardinality(B) = Cardinality(A)
  BY <1>11, <1>12, FS_Bijection DEF ExistsBijection
<1>14. Dangling(cs) = Cardinality(A) /\ Dangling(ds) = Cardinality(B)
  BY <1>4 DEF Dangling, Blocking
<1> QED
  BY <1>1, <1>13, <1>14

LEMMA CommandPackets ==
    ASSUME ServerInv, NEW s \in Sockets, RunConnect(s) \/ RunData(s) \/ RunDisconnect(s)
    PROVE  Steady \/ Leaks
<1>1. /\ Types /\ (\A k \in DOMAIN conns : WellFormed(conns[k]))
      /\ conns \in Seq(ConnectionType) /\ packets' = packets
  BY Zenon DEF ServerInv, BasicInv, Types, RunConnect, RunData, RunDisconnect
<1>2. CASE RunConnect(s)
  <2>1. PICK c \in ConnectionType : c = Connection(s)
    BY ConnectionIs
  <2>2. conns' = Append(conns, c) /\ c.dangling = None
    BY <1>2, <2>1, ConnectionIs, Zenon DEF RunConnect, Pop
  <2>3. PICK cs : cs = conns'
    OBVIOUS
  <2>4. /\ DOMAIN conns = 1 .. Len(conns) /\ DOMAIN cs = 1 .. Len(conns) + 1 /\ Len(conns) \in Nat
        /\ \A k \in 1 .. Len(conns) : cs[k] = conns[k]
        /\ cs[Len(conns) + 1] = c
    BY <1>1, <2>2, <2>3, AppendProperties, LenProperties
  <2>5. Blocking(cs) = Blocking(conns)
    BY <2>2, <2>4 DEF Blocking
  <2>6. Dangling(conns') = Dangling(conns)
    BY <2>3, <2>5 DEF Dangling, Blocking
  <2> QED
    BY <1>1, <2>6, SameSteady
<1>3. CASE RunData(s)
  <2>1. conns' = Marked(s)
    BY <1>3, Zenon DEF RunData, Pop
  <2>2. CASE IsOf(s) = {}
    BY <1>1, <2>1, <2>2, SameSteady DEF Marked
  <2>3. CASE IsOf(s) # {}
    <3>1. PICK m : m = Min(IsOf(s))
      OBVIOUS
    <3>2. m \in DOMAIN conns
      BY <1>1, <2>3, <3>1, FirstIs
    <3>3. PICK c \in ConnectionType : c = conns[m]
      BY <1>1, <3>2, LenProperties, ElementOfSeq
    <3>4. PICK d : d = [c EXCEPT !.active = TRUE]
      OBVIOUS
    <3>5. d \in ConnectionType /\ d.dangling = c.dangling
      BY <1>1, <3>2, <3>3, <3>4, ActiveIs
    <3>6. conns' = [conns EXCEPT ![m] = d]
      BY <2>1, <2>3, <3>1, <3>3, <3>4 DEF Marked
    <3>7. Dangling([conns EXCEPT ![m] = d]) = Dangling(conns)
      BY <1>1, <3>2, <3>3, <3>5, SameBlocking
    <3> QED
      BY <1>1, <3>6, <3>7, SameSteady
  <2> QED
    BY <2>2, <2>3
<1>4. CASE RunDisconnect(s)
  <2>1. conns' = Erased(s)
    BY <1>4, Zenon DEF RunDisconnect, Pop
  <2>2. CASE IsOf(s) = {}
    BY <1>1, <2>1, <2>2, SameSteady DEF Erased
  <2>3. CASE IsOf(s) # {}
    <3>1. PICK m : m = Min(IsOf(s))
      OBVIOUS
    <3>2. m \in DOMAIN conns
      BY <1>1, <2>3, <3>1, FirstIs
    <3>3. conns' = RemoveAt(conns, m)
      BY <2>1, <2>3, <3>1 DEF Erased
    <3>4. CASE conns[m].dangling = None
      <4>1. Dangling(conns') = Dangling(conns)
        BY <1>1, <3>2, <3>3, <3>4, RemovedBlocking
      <4> QED
        BY <1>1, <4>1, SameSteady
    <3>5. CASE conns[m].dangling # None
      BY <1>1, <1>4, <2>3, <3>1, <3>5, Zenon DEF Leaks
    <3> QED
      BY <3>4, <3>5
  <2> QED
    BY <2>2, <2>3
<1> QED
  BY <1>2, <1>3, <1>4

LEMMA ReadPackets ==
    ASSUME ServerInv, Read
    PROVE  Steady
<1>1. handler.at = "read" /\ packets' = packets
  BY Zenon DEF Read
<1>2. PICK c : c = Current
  OBVIOUS
<1>3. /\ handler.i \in DOMAIN conns /\ conns \in Seq(ConnectionType) /\ c \in ConnectionType
  BY <1>1, <1>2, CurrentIs
<1>4. \/ conns' = conns
      \/ \E r \in Responses : conns' = [conns EXCEPT ![handler.i].response = r]
  BY Zenon DEF Read
<1>5. ASSUME NEW r \in Responses, conns' = [conns EXCEPT ![handler.i].response = r]
      PROVE  Steady
  <2>1. PICK d : d = [c EXCEPT !.response = r]
    OBVIOUS
  <2>2. d \in ConnectionType /\ d.dangling = c.dangling
    BY <1>3, <2>1, ResponseIs DEF ConnectionType
  <2>3. conns' = [conns EXCEPT ![handler.i] = d]
    BY <1>2, <1>5, <2>1 DEF Current
  <2>4. Dangling([conns EXCEPT ![handler.i] = d]) = Dangling(conns)
    BY <1>2, <1>3, <2>2, SameBlocking DEF Current
  <2> QED
    BY <1>1, <2>3, <2>4, SameSteady
<1> QED
  BY <1>1, <1>4, <1>5, SameSteady

LEMMA ResendPackets ==
    ASSUME ServerInv, NEW outcome, Resend(outcome)
    PROVE  Steady
<1>1. handler.at = "dangling"
  BY Zenon DEF Resend
<1>2. PICK c : c = Current
  OBVIOUS
<1>3. /\ handler.i \in DOMAIN conns /\ conns \in Seq(ConnectionType) /\ c \in ConnectionType
      /\ packets \in Int
  BY <1>1, <1>2, CurrentIs DEF Types
<1>4. c.dangling # None
  <2>1. HandlerFits(handler, conns)
    BY Zenon DEF ServerInv, BasicInv, HandlerInv
  <2> QED
    BY <1>1, <1>2, <2>1 DEF HandlerFits, Current
<1>5. \/ conns' = conns /\ packets' = packets
      \/ conns' = [conns EXCEPT ![handler.i].dangling = None] /\ packets' = packets - 1
  BY Zenon DEF Resend
<1>6. CASE conns' = [conns EXCEPT ![handler.i].dangling = None] /\ packets' = packets - 1
  <2>1. PICK d : d = [c EXCEPT !.dangling = None]
    OBVIOUS
  <2>2. d \in ConnectionType /\ d.dangling = None
    <3>1. None \in Seq(Nat)
      BY DEF None
    <3> QED
      BY <1>3, <2>1, <3>1 DEF ConnectionType
  <2>3. PICK cs : cs = conns'
    OBVIOUS
  <2>4. cs = [conns EXCEPT ![handler.i] = d]
    BY <1>2, <1>6, <2>1, <2>3 DEF Current
  <2>5. /\ cs \in Seq(ConnectionType) /\ DOMAIN cs = DOMAIN conns
        /\ \A k \in DOMAIN conns : cs[k] = IF k = handler.i THEN d ELSE conns[k]
    BY <1>3, <2>2, <2>4, ReplacedIs
  <2>6. handler.i \in Blocking(conns) /\ Blocking(cs) = Blocking(conns) \ {handler.i}
    BY <1>2, <1>3, <1>4, <2>2, <2>5 DEF Blocking, Current
  <2>7. Dangling(cs) = Dangling(conns) - 1
    BY <1>3, <2>5, <2>6, BlockingIsFinite, FS_RemoveElement
  <2>8. Dangling(conns) \in Nat
    BY <1>3, BlockingIsFinite
  <2>9. Dangling(conns') = Dangling(conns) - 1
    BY <2>3, <2>7
  <2> QED
    BY <1>3, <1>6, <2>8, <2>9 DEF Steady
<1> QED
  BY <1>5, <1>6, SameSteady

LEMMA WritePackets ==
    ASSUME ServerInv, NEW n \in 1 .. PacketSize, NEW outcome, Write(n, outcome)
    PROVE  Steady
<1>1. handler.at = "write" /\ n \in Chunks(Current.response) \ {0}
  BY Zenon DEF Write
<1>2. PICK c : c = Current
  OBVIOUS
<1>3. /\ handler.i \in DOMAIN conns /\ conns \in Seq(ConnectionType) /\ c \in ConnectionType
      /\ WellFormed(c) /\ packets \in Int
      /\ c.response # None => c.response \in ResponseType
  BY <1>1, <1>2, CurrentIs DEF Types
<1>4. c.response # None /\ c.dangling = None
  <2>1. HandlerFits(handler, conns)
    BY Zenon DEF ServerInv, BasicInv, HandlerInv
  <2> QED
    BY <1>1, <1>2, <2>1 DEF HandlerFits, Current
<1>5. PICK r \in ResponseType : r = c.response
  BY <1>3, <1>4
<1>6. r.pos <= Total(r) /\ r.pos \in Nat
  BY <1>3, <1>4, <1>5 DEF WellFormed, ResponseType
<1>7. n \in Nat /\ n # 0 /\ r.pos + n <= Total(r)
  BY <1>1, <1>2, <1>5, <1>6, ChunksFit
<1>8. PICK q \in ResponseType : q = Committed(r, n)
  BY <1>7, CommittedIs
<1>9. PICK units : units = [k \in 1 .. n |-> r.pos + k]
  OBVIOUS
<1>10. units \in Seq(Nat) /\ units # None
  <2>1. units \in Seq(Nat) /\ Len(units) = n
    BY <1>6, <1>7, <1>9, UnitsFollow
  <2> QED
    BY <1>7, <2>1, EmptySeq DEF None
<1>11. PICK d : d = [c EXCEPT !.response = q]
  OBVIOUS
<1>12. d \in ConnectionType /\ d.dangling = None
  BY <1>3, <1>4, <1>11 DEF ConnectionType
<1>13. \/ /\ conns' = [conns EXCEPT ![handler.i] = IF IsComplete(r, n) THEN Closed(d) ELSE d]
          /\ packets' = packets
       \/ /\ conns' = [conns EXCEPT ![handler.i] = Blocked(d, units)]
          /\ packets' = packets + 1
       \/ /\ conns' = [conns EXCEPT ![handler.i] = Closed(d)]
          /\ packets' = AfterError
  BY <1>2, <1>5, <1>8, <1>9, <1>11, Zenon DEF Write
<1>14. ASSUME NEW e \in ConnectionType, e.dangling = None,
              conns' = [conns EXCEPT ![handler.i] = e], packets' = packets
       PROVE  Steady
  <2>1. Dangling([conns EXCEPT ![handler.i] = e]) = Dangling(conns)
    BY <1>2, <1>3, <1>4, <1>14, SameBlocking DEF Current
  <2> QED
    BY <1>14, <2>1, SameSteady
<1>15. Closed(d) \in ConnectionType /\ Closed(d).dangling = None
  BY <1>12, ClosedIs
<1>16. CASE /\ conns' = [conns EXCEPT ![handler.i] = IF IsComplete(r, n) THEN Closed(d) ELSE d]
            /\ packets' = packets
  <2>1. PICK e : e = IF IsComplete(r, n) THEN Closed(d) ELSE d
    OBVIOUS
  <2>2. e \in ConnectionType /\ e.dangling = None
    BY <1>12, <1>15, <2>1
  <2> QED
    BY <1>14, <1>16, <2>1, <2>2
<1>17. CASE /\ conns' = [conns EXCEPT ![handler.i] = Closed(d)]
            /\ packets' = AfterError
  BY <1>14, <1>15, <1>17 DEF AfterError
<1>18. CASE /\ conns' = [conns EXCEPT ![handler.i] = Blocked(d, units)]
            /\ packets' = packets + 1
  <2>1. PICK e : e = Blocked(d, units)
    OBVIOUS
  <2>2. e \in ConnectionType /\ e.dangling # None
    BY <1>10, <1>12, <2>1 DEF Blocked, ConnectionType
  <2>3. PICK cs : cs = conns'
    OBVIOUS
  <2>4. cs = [conns EXCEPT ![handler.i] = e]
    BY <1>18, <2>1, <2>3
  <2>5. /\ cs \in Seq(ConnectionType) /\ DOMAIN cs = DOMAIN conns
        /\ \A k \in DOMAIN conns : cs[k] = IF k = handler.i THEN e ELSE conns[k]
    BY <1>3, <2>2, <2>4, ReplacedIs
  <2>6. handler.i \notin Blocking(conns) /\ Blocking(cs) = Blocking(conns) \cup {handler.i}
    BY <1>2, <1>3, <1>4, <2>2, <2>5 DEF Blocking, Current
  <2>7. Dangling(cs) = Dangling(conns) + 1
    BY <1>3, <2>5, <2>6, BlockingIsFinite, FS_AddElement
  <2>8. Dangling(conns) \in Nat
    BY <1>3, BlockingIsFinite
  <2>9. Dangling(conns') = Dangling(conns) + 1
    BY <2>3, <2>7
  <2> QED
    BY <1>3, <1>18, <2>8, <2>9 DEF Steady
<1> QED
  BY <1>13, <1>16, <1>17, <1>18

LEMMA OwnerPackets ==
    ASSUME ServerInv, Owner
    PROVE  Steady \/ Leaks
<1>1. CASE UNCHANGED <<conns, packets>>
  BY <1>1, SameSteady
<1>2. CASE StopEnds
  <2>1. conns' = <<>> /\ packets' = packets
    BY <1>2, Zenon DEF StopEnds
  <2>2. conns \in Seq(ConnectionType)
    BY Zenon DEF ServerInv, BasicInv, Types
  <2>3. CASE \E k \in DOMAIN conns : conns[k].dangling # None
    <3>1. owner = "wait" /\ owner' = "idle"
      BY <1>2, Zenon DEF StopEnds
    <3> QED
      BY <2>1, <2>3, <3>1 DEF Leaks
  <2>4. CASE \A k \in DOMAIN conns : conns[k].dangling = None
    <3>1. Blocking(conns) = {} /\ Blocking(conns') = {}
      BY <2>1, <2>4, EmptySeq DEF Blocking
    <3>2. Dangling(conns') = Dangling(conns)
      BY <3>1 DEF Dangling, Blocking
    <3> QED
      BY <2>1, <3>2, SameSteady
  <2> QED
    BY <2>3, <2>4
<1>3. Stop => UNCHANGED <<conns, packets>>
  BY Zenon DEF Stop
<1>4. \A outcome : Start(outcome) => UNCHANGED <<conns, packets>>
  BY Zenon DEF Start
<1> QED
  BY <1>1, <1>2, <1>3, <1>4, Zenon DEF Owner

(* A packet that was allocated is sent, deleted or held by the connection  *)
(* that could not send it.  Those that are lost, are lost when stop or a   *)
(* disconnect erases the connection that held them, which deletes nothing. *)
THEOREM PacketsAreKept == Spec => PacketsAreHeld
<1>1. ASSUME ServerInv, [Next]_vars
      PROVE  Steady \/ Leaks
  <2>1. CASE UNCHANGED <<conns, packets>>
    BY <2>1, SameSteady
  <2>2. CASE Handler
    <3>1. PopTimeout \/ WriteNothing => UNCHANGED <<conns, packets>>
      BY Zenon DEF PopTimeout, WriteNothing
    <3>2. ASSUME NEW outcome, Resend(outcome) \/ \E n \in 1 .. PacketSize : Write(n, outcome)
          PROVE  Steady
      BY <1>1, <3>2, ResendPackets, WritePackets, Zenon
    <3>3. ASSUME NEW s \in Sockets, RunConnect(s) \/ RunData(s) \/ RunDisconnect(s)
          PROVE  Steady \/ Leaks
      BY <1>1, <3>3, CommandPackets, Zenon
    <3> QED
      BY <1>1, <2>1, <2>2, <3>1, <3>2, <3>3, ReadPackets, Zenon DEF Handler
  <2>3. Network => UNCHANGED <<conns, packets>>
    BY Zenon DEF Network, Connect, Disconnect, SendData
  <2>4. UNCHANGED vars => UNCHANGED <<conns, packets>>
    BY DEF vars
  <2> QED
    BY <1>1, <2>1, <2>2, <2>3, <2>4, OwnerPackets, Zenon DEF Next
<1>2. ServerInv /\ [Next]_vars
        => [packets' - Dangling(conns') # packets - Dangling(conns)
              => Leaks]_vars
  BY <1>1, Zenon DEF Steady
<1> QED
  BY <1>2, ServerInvariant, PTL DEF Spec, PacketsAreHeld

=============================================================================
