------------------------- MODULE CommandQueue_proofs -------------------------
(***************************************************************************)
(* Proofs about CommandQueue with one calling thread, for any number of    *)
(* contexts, ids, delays, calls and times: every context is held once,     *)
(* functions are called as often as they should be, cancel holds, wait     *)
(* waits, and the queue implements CommandFifo.                            *)
(***************************************************************************)
EXTENDS CommandQueue, SequenceTheorems, FiniteSetTheorems, NaturalsInduction, TLAPS

OneCaller == \E c : Callers = {c}

-----------------------------------------------------------------------------
(* The inductive invariant: where contexts are.                            *)

In(queue, i)    == \E p \in 1 .. Len(queue) : queue[p] = i
Distinct(queue) == \A p, q \in 1 .. Len(queue) : queue[p] = queue[q] => p = q

Context == [ref_count : Nat, func : 0 .. MaxCalls, status : BOOLEAN, cancelled : BOOLEAN,
            scheduled_ms : Nat, cmd_id : Int, interval_ms : Int]
Caller  == [at : {"idle", "fill", "put", "wait", "cancel"}, idx : 0 .. SIZE,
            call : 0 .. MaxCalls, id : Int, delay : Nat]
Worker  == [at : {"idle", "delayed", "sort", "pop", "check", "run", "ran", "release"},
            idx : 0 .. SIZE, start : 0 .. SIZE, now : Nat]
Entry   == [kind : Kinds, result : {"none", "pending", "accepted", "refused"},
            due : Nat, runs : Nat, cancelled : {"no", "asked", "sure"}]

Types ==
    /\ contexts \in [Contexts -> Context]
    /\ later \in Seq(Contexts) /\ commands \in Seq(Contexts)
    /\ caller \in [Callers -> Caller]
    /\ worker \in Worker
    /\ clock \in Nat
    /\ log \in [Calls -> Entry]

WorkerHolds == worker.at \in {"sort", "check", "run", "ran", "release"}
Putting(i)  == \E c \in Callers : caller[c].at = "put" /\ caller[c].idx = i
Held(i)     == In(later, i) \/ In(commands, i) \/ worker.idx = i \/ Putting(i)

(* A context is in one place of one of its holders, and counted there.     *)
Places ==
    /\ Distinct(later) /\ Distinct(commands)
    /\ worker.idx # 0 <=> WorkerHolds
    /\ \A i \in Contexts :
          /\ In(later, i) => ~In(commands, i) /\ worker.idx # i /\ ~Putting(i)
          /\ In(commands, i) => worker.idx # i /\ ~Putting(i)
          /\ worker.idx = i => ~Putting(i)
          /\ contexts[i].ref_count = IF Held(i) THEN 1 ELSE 0

(* What the caller has at hand.                                            *)
CallerPlaces ==
    \A c \in Callers :
        /\ caller[c].at # "idle" => caller[c].idx \in Contexts
        /\ caller[c].at = "fill" => contexts[caller[c].idx].ref_count = 0

PlaceInv == Types /\ Places /\ CallerPlaces

-----------------------------------------------------------------------------
(* The inductive invariant: what is in the contexts.                       *)

Used(i) == contexts[i].ref_count > 0
Asked(k) == log[k].result # "none"

Numbered ==
    /\ \E n \in 0 .. MaxCalls : \A k \in Calls : Asked(k) <=> k <= n
    /\ \A k \in Calls : ~Asked(k) => log[k].cancelled = "no"
    /\ \A k \in Calls : log[k].result # "accepted" => log[k].runs = 0

CallerCalls ==
    \A c \in Callers :
        /\ caller[c].at \in {"fill", "put"} =>
              /\ caller[c].call \in Calls
              /\ log[caller[c].call].result = "pending"
              /\ log[caller[c].call].cancelled = "no"
        /\ caller[c].at = "fill" =>
              /\ log[caller[c].call].kind = "interval" => caller[c].delay \in Delays
        /\ caller[c].at = "put" => Func(caller[c].idx) = caller[c].call
        /\ caller[c].at = "cancel" /\ caller[c].call # 0 => /\ caller[c].call \in Calls
                                                          /\ Asked(caller[c].call)

(* Contexts in use are of different calls that were not refused.           *)
Functs ==
    \A i \in Contexts : Used(i) =>
        /\ Func(i) \in Calls
        /\ log[Func(i)].result \in {"accepted", "pending"}
        /\ log[Func(i)].result = "pending" => Putting(i)
        /\ contexts[i].interval_ms \in IF log[Func(i)].kind = "interval" THEN Delays ELSE {-1}
        /\ \A j \in Contexts : Used(j) /\ Func(j) = Func(i) => j = i

Done(i) == worker.idx = i /\ worker.at \in {"ran", "release"}

Runs ==
    /\ \A k \in Calls : log[k].kind # "interval" => log[k].runs <= 1
    /\ \A i \in Contexts : Used(i) /\ log[Func(i)].kind # "interval" =>
          log[Func(i)].runs = IF Done(i) THEN 1 ELSE 0
    /\ worker.at = "release" => contexts[worker.idx].interval_ms <= 0

FuncInv == PlaceInv /\ Numbered /\ CallerCalls /\ Functs /\ Runs

-----------------------------------------------------------------------------
(* Invariants for one property each.                                       *)

Flags ==
    \A i \in Contexts : Used(i) =>
        /\ contexts[i].cancelled => log[Func(i)].cancelled # "no"
        /\ log[Func(i)].cancelled = "sure" =>
              contexts[i].cancelled /\ ~(worker.at = "run" /\ worker.idx = i)

Cancelling ==
    \A c \in Callers : caller[c].at = "cancel" =>
        /\ Func(caller[c].idx) \in Calls
        /\ log[Func(caller[c].idx)].cancelled # "no"
        /\ caller[c].call # 0 => /\ Func(caller[c].idx) = caller[c].call
                                 /\ \A i \in Contexts : Used(i) /\ Func(i) = caller[c].call
                                                        => i = caller[c].idx

CancelInv == FuncInv /\ Flags /\ Cancelling

Waits ==
    \A c \in Callers :
        /\ caller[c].at = "wait" => log[caller[c].call].kind = "wait"
        /\ caller[c].at \in {"put", "wait"} /\ log[caller[c].call].kind = "wait" =>
              /\ caller[c].call \in Calls
              /\ Func(caller[c].idx) = caller[c].call
              /\ contexts[caller[c].idx].status => log[caller[c].call].runs = 1

WaitInv == FuncInv /\ Waits

Dues ==
    /\ clock <= Horizon
    /\ worker.now <= clock
    /\ \A c \in Callers : caller[c].at = "fill" =>
          /\ clock <= LastCall
          /\ IF Delayed(log[caller[c].call].kind)
             THEN LastCall + caller[c].delay <= Horizon ELSE caller[c].delay = 0
    /\ \A i \in Contexts : Used(i) /\ clock < log[Func(i)].due =>
          /\ log[Func(i)].due <= contexts[i].scheduled_ms
          /\ \/ In(later, i)
             \/ worker.at = "sort" /\ worker.idx = i
             \/ Putting(i) /\ Delayed(log[Func(i)].kind)

DueInv == FuncInv /\ Dues

-----------------------------------------------------------------------------
(* Queues of context numbers, and the least of a set of them.              *)

LEMMA SizeType ==
    /\ SIZE \in Nat /\ SIZE > 0 /\ MaxCalls \in Nat /\ ClockSize \in Nat /\ ClockSize > 0
    /\ LastCall \in Nat /\ Horizon \in Nat /\ Ids \subseteq Nat /\ Delays \subseteq Nat
    /\ 0 \notin Contexts /\ 0 \notin Calls
  BY QueueAssumption DEF Contexts, Calls

LEMMA AppendIn ==
    ASSUME NEW queue \in Seq(Contexts), NEW i \in Contexts
    PROVE  /\ Append(queue, i) \in Seq(Contexts)
           /\ \A j : In(Append(queue, i), j) <=> In(queue, j) \/ j = i
           /\ Distinct(queue) /\ ~In(queue, i) => Distinct(Append(queue, i))
<1> DEFINE longer == Append(queue, i)
<1>1. /\ longer \in Seq(Contexts) /\ Len(longer) = Len(queue) + 1 /\ Len(queue) \in Nat
      /\ \A p \in 1 .. Len(queue) : longer[p] = queue[p]
      /\ longer[Len(queue) + 1] = i
  BY AppendProperties, LenProperties
<1> HIDE DEF longer
<1>2. ASSUME NEW j PROVE In(longer, j) <=> In(queue, j) \/ j = i
  <2>1. In(longer, j) => In(queue, j) \/ j = i
    BY <1>1 DEF In
  <2>2. In(queue, j) => In(longer, j)
    BY <1>1 DEF In
  <2>3. In(longer, i)
    <3>1. Len(queue) + 1 \in 1 .. Len(longer)
      BY <1>1
    <3> QED
      BY <1>1, <3>1 DEF In
  <2> QED
    BY <2>1, <2>2, <2>3
<1>3. ASSUME Distinct(queue), ~In(queue, i) PROVE Distinct(longer)
  <2> SUFFICES ASSUME NEW p \in 1 .. Len(longer), NEW q \in 1 .. Len(longer),
                      longer[p] = longer[q]
               PROVE  p = q
    BY DEF Distinct
  <2>1. CASE p <= Len(queue) /\ q <= Len(queue)
    BY <1>1, <1>3, <2>1 DEF Distinct
  <2>2. CASE p <= Len(queue) /\ q = Len(queue) + 1
    BY <1>1, <1>3, <2>2 DEF In
  <2>3. CASE p = Len(queue) + 1 /\ q <= Len(queue)
    BY <1>1, <1>3, <2>3 DEF In
  <2> QED
    BY <1>1, <2>1, <2>2, <2>3
<1> QED
  BY <1>1, <1>2, <1>3 DEF longer

LEMMA TailIn ==
    ASSUME NEW queue \in Seq(Contexts), queue # <<>>, Distinct(queue)
    PROVE  /\ Head(queue) \in Contexts /\ Tail(queue) \in Seq(Contexts)
           /\ \A j : In(queue, j) <=> j = Head(queue) \/ In(Tail(queue), j)
           /\ Distinct(Tail(queue)) /\ ~In(Tail(queue), Head(queue))
<1> DEFINE rest == Tail(queue)
           first == Head(queue)
<1>1. /\ first \in Contexts /\ rest \in Seq(Contexts)
      /\ Len(queue) \in Nat /\ Len(queue) > 0 /\ Len(rest) = Len(queue) - 1
      /\ \A p \in 1 .. Len(rest) : rest[p] = queue[p + 1]
      /\ first = queue[1]
  BY HeadTailProperties, LenProperties, EmptySeq
<1> HIDE DEF rest, first
<1>2. ASSUME NEW j PROVE In(queue, j) <=> j = first \/ In(rest, j)
  <2>1. ASSUME In(queue, j) PROVE j = first \/ In(rest, j)
    <3>1. PICK p \in 1 .. Len(queue) : queue[p] = j
      BY <2>1 DEF In
    <3>2. CASE p = 1
      BY <1>1, <3>1, <3>2
    <3>3. CASE p > 1
      <4>1. p - 1 \in 1 .. Len(rest) /\ rest[p - 1] = j
        BY <1>1, <3>1, <3>3
      <4> QED
        BY <4>1 DEF In
    <3> QED
      BY <1>1, <3>2, <3>3
  <2>2. ASSUME In(rest, j) PROVE In(queue, j)
    <3>1. PICK p \in 1 .. Len(rest) : rest[p] = j
      BY <2>2 DEF In
    <3>2. p + 1 \in 1 .. Len(queue) /\ queue[p + 1] = j
      BY <1>1, <3>1
    <3> QED
      BY <3>2 DEF In
  <2>3. In(queue, first)
    BY <1>1 DEF In
  <2> QED
    BY <2>1, <2>2, <2>3
<1>3. Distinct(rest)
  <2> SUFFICES ASSUME NEW p \in 1 .. Len(rest), NEW q \in 1 .. Len(rest), rest[p] = rest[q]
               PROVE  p = q
    BY DEF Distinct
  <2>1. p + 1 \in 1 .. Len(queue) /\ q + 1 \in 1 .. Len(queue) /\ queue[p + 1] = queue[q + 1]
    BY <1>1
  <2>2. p + 1 = q + 1
    BY <2>1 DEF Distinct
  <2> QED
    BY <1>1, <2>2
<1>4. ~In(rest, first)
  <2> SUFFICES ASSUME NEW p \in 1 .. Len(rest), rest[p] = first PROVE FALSE
    BY DEF In
  <2>1. p + 1 \in 1 .. Len(queue) /\ 1 \in 1 .. Len(queue) /\ queue[p + 1] = queue[1]
    BY <1>1
  <2>2. p + 1 = 1
    BY <2>1 DEF Distinct
  <2> QED
    BY <1>1, <2>2
<1> QED
  BY <1>1, <1>2, <1>3, <1>4 DEF rest, first

LEMMA InContexts ==
    ASSUME NEW queue \in Seq(Contexts), NEW i, In(queue, i)
    PROVE  i \in Contexts
  BY ElementOfSeq DEF In

LEMMA ContextsFinite ==
    IsFiniteSet(Contexts) /\ Cardinality(Contexts) = SIZE
  BY SizeType, FS_Interval DEF Contexts

(* A queue of different contexts is as long as their number.               *)
LEMMA LengthIsNumber ==
    ASSUME NEW queue \in Seq(Contexts), Distinct(queue), NEW S,
           \A i : i \in S <=> In(queue, i)
    PROVE  IsFiniteSet(S) /\ Cardinality(S) = Len(queue)
<1>1. queue \in [1 .. Len(queue) -> S] /\ Len(queue) \in Nat
  BY LenProperties DEF In
<1>2. \A i \in S : \E p \in 1 .. Len(queue) : queue[p] = i
  BY DEF In
<1>3. queue \in Bijection(1 .. Len(queue), S)
  BY <1>1, <1>2 DEF Bijection, Injection, Surjection, IsInjective, Distinct
<1>4. \A n \in Nat : IsFiniteSet(1 .. n) /\ Cardinality(1 .. n) = n
  BY FS_Interval
<1> QED
  BY <1>1, <1>3, <1>4, FS_Bijection DEF ExistsBijection

(* There is room for a context that is not in a queue.                     *)
LEMMA Room ==
    ASSUME NEW queue \in Seq(Contexts), Distinct(queue), NEW i \in Contexts, ~In(queue, i)
    PROVE  HasRoom(queue)
<1> DEFINE S == {j \in Contexts : In(queue, j)}
<1>1. \A j : j \in S <=> In(queue, j)
  BY InContexts
<1>2. IsFiniteSet(S) /\ Cardinality(S) = Len(queue)
  BY <1>1, LengthIsNumber
<1>3. /\ IsFiniteSet(Contexts \ {i})
      /\ Cardinality(Contexts \ {i}) = SIZE - 1
  BY ContextsFinite, FS_RemoveElement
<1>4. S \in SUBSET (Contexts \ {i})
  OBVIOUS
<1>5. Cardinality(S) <= SIZE - 1
  BY <1>3, <1>4, FS_Subset
<1> QED
  BY <1>2, <1>5, SizeType, LenProperties DEF HasRoom

LEMMA MinIn ==
    ASSUME NEW S \in SUBSET Contexts, S # {}
    PROVE  Min(S) \in S
<1>1. S \subseteq Nat
  BY SizeType DEF Contexts
<1>2. PICK x \in S : \A y \in S : ~ (<<y, x>> \in OpToRel(<, Nat))
  BY <1>1, WFMin, NatLessThanWellFounded
<1>3. \A y \in S : ~ (y < x)
  BY <1>1, <1>2, Zenon DEF OpToRel
<1>4. \A y \in S : x <= y
  BY <1>1, <1>3
<1> QED
  BY <1>4 DEF Min

-----------------------------------------------------------------------------
(* The steps of the caller keep contexts in one place.                     *)

LEMMA NowType ==
    ASSUME Types
    PROVE  nowMs \in Nat
  BY SizeType DEF Types, nowMs

LEMMA ReleasedIs ==
    ASSUME Types, NEW i \in Contexts, contexts[i].ref_count = 1
    PROVE  /\ Released(i) \in [Contexts -> Context]
           /\ \A j \in Contexts : j # i => Released(i)[j] = contexts[j]
           /\ Released(i)[i].ref_count = 0
           /\ \A j \in Contexts : /\ Released(i)[j].func = contexts[j].func
                                  /\ Released(i)[j].status = contexts[j].status
                                  /\ Released(i)[j].cancelled = contexts[j].cancelled
                                  /\ Released(i)[j].scheduled_ms = contexts[j].scheduled_ms
                                  /\ Released(i)[j].interval_ms = contexts[j].interval_ms
<1> DEFINE x == [contexts[i] EXCEPT !.ref_count = 0]
<1>1. contexts \in [Contexts -> Context] /\ contexts[i] \in Context
  BY DEF Types
<1>2. /\ x \in Context /\ x.ref_count = 0
      /\ x.func = contexts[i].func /\ x.status = contexts[i].status
      /\ x.cancelled = contexts[i].cancelled /\ x.scheduled_ms = contexts[i].scheduled_ms
      /\ x.interval_ms = contexts[i].interval_ms
  BY <1>1 DEF Context
<1>3. Released(i) = [contexts EXCEPT ![i] = x]
  BY <1>1 DEF Released, Context
<1> HIDE DEF x
<1> QED
  BY <1>1, <1>2, <1>3

LEMMA FilledIs ==
    ASSUME Types, NEW c \in Callers, caller[c].idx \in Contexts,
           contexts[caller[c].idx].ref_count = 0
    PROVE  /\ Filled(c) \in Context
           /\ Filled(c).ref_count = 1 /\ Filled(c).func = caller[c].call
           /\ ~Filled(c).status /\ ~Filled(c).cancelled
           /\ Filled(c).scheduled_ms = IF Delayed(log[caller[c].call].kind)
                                       THEN (nowMs + caller[c].delay) % ClockSize ELSE 0
           /\ Filled(c).interval_ms = IF log[caller[c].call].kind = "interval"
                                      THEN caller[c].delay ELSE -1
<1>1. /\ caller[c].call \in 0 .. MaxCalls /\ caller[c].id \in Int /\ caller[c].delay \in Nat
  BY DEF Types, Caller
<1>2. \A n \in Nat : n % ClockSize \in Nat
  BY SizeType
<1>3. nowMs + caller[c].delay \in Nat
  BY <1>1, NowType
<1>4. (IF Delayed(log[caller[c].call].kind)
       THEN (nowMs + caller[c].delay) % ClockSize ELSE 0) \in Nat
  BY <1>2, <1>3
<1> QED
  BY <1>1, <1>4, SizeType DEF Filled, NewContext, Context

LEMMA IssuedType ==
    Issued \in Nat /\ Issued <= MaxCalls
<1>1. IsFiniteSet(Calls) /\ Cardinality(Calls) = MaxCalls
  BY SizeType, FS_Interval DEF Calls
<1> QED
  BY <1>1, FS_Subset, FS_CardinalityType DEF Issued

LEMMA PlaceFind ==
    ASSUME PlaceInv, NEW c, Callers = {c}, NEW kind \in Kinds, NEW id \in Int, NEW delay \in Nat,
           Find(c, kind, id, delay)
    PROVE  PlaceInv'
<1>1. /\ Types /\ Places /\ CallerPlaces /\ caller[c].at = "idle"
      /\ contexts' = contexts /\ later' = later /\ commands' = commands
      /\ worker' = worker /\ clock' = clock
  BY DEF PlaceInv, Find
<1> DEFINE k == Issued + 1
<1>2. k \in 0 .. MaxCalls
  BY IssuedType, SizeType DEF Find
<1>3. log' \in [Calls -> Entry]
  <2>1. \A result \in {"refused", "pending"} :
            [NoCall EXCEPT !.kind = kind, !.result = result] \in Entry
    BY DEF NoCall, Entry
  <2> QED
    BY <1>1, <2>1 DEF Types, Find
<1>4. CASE caller' = caller
  BY <1>1, <1>3, <1>4 DEF PlaceInv, Types, Places, CallerPlaces, WorkerHolds, Held, Putting
<1>5. CASE Available # {} /\ caller' = [caller EXCEPT ![c] =
               [at |-> "fill", idx |-> Min(Available), call |-> k, id |-> id, delay |-> delay]]
  <2>1. Min(Available) \in Contexts /\ contexts[Min(Available)].ref_count = 0
    BY <1>5, MinIn DEF Available
  <2>2. /\ caller' \in [Callers -> Caller]
        /\ caller'[c].at = "fill" /\ caller'[c].idx = Min(Available)
    BY <1>1, <1>2, <1>5, <2>1 DEF Types, Caller, Contexts
  <2>3. \A i : ~Putting(i) /\ ~Putting(i)'
    BY <1>1, <2>2 DEF Putting
  <2> QED
    BY <1>1, <1>3, <2>1, <2>2, <2>3
       DEF PlaceInv, Types, Places, CallerPlaces, WorkerHolds, Held
<1> QED
  BY <1>4, <1>5 DEF Find

LEMMA PlaceFill ==
    ASSUME PlaceInv, NEW c, Callers = {c}, Fill(c)
    PROVE  PlaceInv'
<1> DEFINE i == caller[c].idx
<1>1. /\ Types /\ Places /\ CallerPlaces /\ caller[c].at = "fill"
      /\ i \in Contexts /\ contexts[i].ref_count = 0
      /\ contexts' = [contexts EXCEPT ![i] = Filled(c)]
      /\ caller' = [caller EXCEPT ![c].at = "put"]
      /\ later' = later /\ commands' = commands /\ worker' = worker /\ clock' = clock
  BY DEF PlaceInv, CallerPlaces, Fill
<1>2. Filled(c) \in Context /\ Filled(c).ref_count = 1
  BY <1>1, FilledIs
<1>3. /\ caller' \in [Callers -> Caller]
      /\ caller'[c].at = "put" /\ caller'[c].idx = i
  BY <1>1 DEF Types, Caller
<1>4. log' \in [Calls -> Entry]
  <2>1. clock + caller[c].delay \in Nat
    BY <1>1 DEF Types, Caller
  <2>2. \A k \in Calls : [log[k] EXCEPT !.due = clock + caller[c].delay] \in Entry
    BY <1>1, <2>1 DEF Types, Entry
  <2> QED
    BY <1>1, <2>2 DEF Types, Fill
<1>5. ~In(later, i) /\ ~In(commands, i) /\ worker.idx # i
  BY <1>1 DEF Places, Held
<1>6. \A j : ~Putting(j) /\ (Putting(j)' <=> j = i)
  BY <1>1, <1>3 DEF Putting
<1>7. /\ contexts' \in [Contexts -> Context] /\ contexts'[i].ref_count = 1
      /\ \A j \in Contexts : j # i => contexts'[j] = contexts[j]
  BY <1>1, <1>2 DEF Types
<1> HIDE DEF i
<1> QED
  BY <1>1, <1>3, <1>4, <1>5, <1>6, <1>7
     DEF PlaceInv, Types, Places, CallerPlaces, WorkerHolds, Held

(* What putting a context into its queue does: there is always room.       *)
LEMMA PutIs ==
    ASSUME PlaceInv, NEW c, Callers = {c}, Put(c)
    PROVE  /\ IF Delayed(log[caller[c].call].kind)
              THEN later' = Append(later, caller[c].idx) /\ commands' = commands
              ELSE commands' = Append(commands, caller[c].idx) /\ later' = later
           /\ log' = [log EXCEPT ![caller[c].call].result = "accepted"]
           /\ caller' = [caller EXCEPT ![c] = IF log[caller[c].call].kind = "wait"
                                              THEN [@ EXCEPT !.at = "wait"] ELSE Resting]
           /\ contexts' = contexts
<1>1. /\ Types /\ Places /\ caller[c].at = "put" /\ caller[c].idx \in Contexts
  BY DEF PlaceInv, CallerPlaces, Put
<1>2. ~In(later, caller[c].idx) /\ ~In(commands, caller[c].idx)
  BY <1>1 DEF Places, Putting
<1>3. HasRoom(later) /\ HasRoom(commands)
  BY <1>1, <1>2, Room DEF Types, Places
<1> QED
  BY <1>3 DEF Put

LEMMA PlacePut ==
    ASSUME PlaceInv, NEW c, Callers = {c}, Put(c)
    PROVE  PlaceInv'
<1> DEFINE i == caller[c].idx
           k == caller[c].call
<1>1. /\ Types /\ Places /\ CallerPlaces /\ caller[c].at = "put" /\ i \in Contexts
      /\ worker' = worker /\ clock' = clock /\ contexts' = contexts
  BY PutIs DEF PlaceInv, CallerPlaces, Put
<1>2. ~In(later, i) /\ ~In(commands, i) /\ worker.idx # i
  BY <1>1 DEF Places, Putting
<1>3. log' \in [Calls -> Entry]
  <2>1. \A n \in Calls : [log[n] EXCEPT !.result = "accepted"] \in Entry
    BY <1>1 DEF Types, Entry
  <2>2. log' = [log EXCEPT ![k] = [log[k] EXCEPT !.result = "accepted"]]
    BY PutIs
  <2>3. log \in [Calls -> Entry]
    BY <1>1 DEF Types
  <2> QED
    BY <2>1, <2>2, <2>3
<1>4. /\ caller' \in [Callers -> Caller] /\ caller'[c].at \in {"idle", "wait"}
      /\ caller'[c].at # "idle" => caller'[c].idx = i
  <2>0. \/ caller' = [caller EXCEPT ![c] = [caller[c] EXCEPT !.at = "wait"]]
        \/ caller' = [caller EXCEPT ![c] = Resting]
    BY PutIs
  <2>1. Resting \in Caller /\ Resting.at = "idle"
    BY SizeType DEF Resting, Caller
  <2>2. [caller[c] EXCEPT !.at = "wait"] \in Caller
    BY <1>1 DEF Types, Caller
  <2> QED
    BY <1>1, <2>0, <2>1, <2>2 DEF Types, Caller
<1>5. \A j : ~Putting(j)' /\ (Putting(j) <=> j = i)
  BY <1>1, <1>4 DEF Putting
<1>6. /\ later' \in Seq(Contexts) /\ commands' \in Seq(Contexts)
      /\ Distinct(later') /\ Distinct(commands')
      /\ \A j : (In(later', j) \/ In(commands', j)) <=> (In(later, j) \/ In(commands, j) \/ j = i)
      /\ \A j : In(later', j) /\ In(commands', j) => In(later, j) /\ In(commands, j)
  <2>1. CASE later' = Append(later, i) /\ commands' = commands
    BY <1>1, <1>2, <2>1, AppendIn DEF Types, Places
  <2>2. CASE commands' = Append(commands, i) /\ later' = later
    BY <1>1, <1>2, <2>2, AppendIn DEF Types, Places
  <2> QED
    BY <2>1, <2>2, PutIs
<1> HIDE DEF i
<1>7. Places'
  BY <1>1, <1>2, <1>5, <1>6 DEF Places, WorkerHolds, Held
<1> QED
  BY <1>1, <1>3, <1>4, <1>6, <1>7 DEF PlaceInv, Types, CallerPlaces

LEMMA PlaceWaitEnds ==
    ASSUME PlaceInv, NEW c, Callers = {c}, WaitEnds(c)
    PROVE  PlaceInv'
<1>1. Resting \in Caller /\ Resting.at = "idle"
  BY SizeType DEF Resting, Caller
<1>2. /\ caller' \in [Callers -> Caller] /\ caller'[c].at = "idle"
      /\ \A i : ~Putting(i) /\ ~Putting(i)'
  BY <1>1 DEF PlaceInv, Types, WaitEnds, Putting
<1> QED
  BY <1>2 DEF PlaceInv, Types, Places, CallerPlaces, WorkerHolds, Held, WaitEnds

LEMMA PlaceCancel ==
    ASSUME PlaceInv, NEW c, Callers = {c}, NEW id \in Int, Cancel(c, id)
    PROVE  PlaceInv'
<1>1. /\ Types /\ Places /\ CallerPlaces /\ caller[c].at = "idle"
      /\ contexts' = contexts /\ later' = later /\ commands' = commands
      /\ worker' = worker /\ clock' = clock
  BY DEF PlaceInv, Cancel
<1>2. Min(Matching(id)) \in Contexts
  BY MinIn DEF Cancel, Matching
<1>3. Live(id) \subseteq 0 .. MaxCalls
  BY <1>1 DEF Live, Types, Context
<1>4. /\ caller' \in [Callers -> Caller] /\ caller'[c].at = "cancel"
      /\ caller'[c].idx \in Contexts
  <2>1. PICK k \in Live(id) \cup {0} :
            caller' = [caller EXCEPT ![c] = [Resting EXCEPT
                          !.at = "cancel", !.idx = Min(Matching(id)), !.call = k]]
    BY DEF Cancel
  <2>2. k \in 0 .. MaxCalls
    BY <1>3, SizeType
  <2>3. Min(Matching(id)) \in 0 .. SIZE
    BY <1>2 DEF Contexts
  <2>4. [Resting EXCEPT !.at = "cancel", !.idx = Min(Matching(id)), !.call = k] \in Caller
    <3>1. Resting \in Caller
      BY SizeType DEF Resting, Caller
    <3> QED
      BY <2>2, <2>3, <3>1 DEF Caller
  <2> QED
    BY <1>1, <1>2, <2>1, <2>4 DEF Types, Resting
<1>5. log' \in [Calls -> Entry]
  <2>1. \A k \in Calls : [log[k] EXCEPT !.cancelled = "asked"] \in Entry
    BY <1>1 DEF Types, Entry
  <2> QED
    BY <1>1, <2>1 DEF Types, Cancel
<1>6. \A i : ~Putting(i) /\ ~Putting(i)'
  BY <1>1, <1>4 DEF Putting
<1> QED
  BY <1>1, <1>4, <1>5, <1>6 DEF PlaceInv, Types, Places, CallerPlaces, WorkerHolds, Held

LEMMA CancelSetIs ==
    ASSUME PlaceInv, NEW c, Callers = {c}, CancelSet(c)
    PROVE  /\ caller[c].idx \in Contexts /\ caller'[c] = Resting
           /\ contexts' \in [Contexts -> Context]
           /\ contexts'[caller[c].idx].cancelled
           /\ \A j \in Contexts : j # caller[c].idx => contexts'[j] = contexts[j]
           /\ \A j \in Contexts : /\ contexts'[j].ref_count = contexts[j].ref_count
                                  /\ contexts'[j].func = contexts[j].func
                                  /\ contexts'[j].status = contexts[j].status
                                  /\ contexts'[j].scheduled_ms = contexts[j].scheduled_ms
                                  /\ contexts'[j].interval_ms = contexts[j].interval_ms
<1>1. caller[c].idx \in Contexts
  BY DEF PlaceInv, CallerPlaces, CancelSet
<1> DEFINE i == caller[c].idx
           x == [contexts[i] EXCEPT !.cancelled = TRUE]
<1>2. contexts \in [Contexts -> Context] /\ contexts[i] \in Context
  BY <1>1 DEF PlaceInv, Types
<1>3. /\ x \in Context /\ x.cancelled /\ x.ref_count = contexts[i].ref_count
      /\ x.func = contexts[i].func /\ x.status = contexts[i].status
      /\ x.scheduled_ms = contexts[i].scheduled_ms
      /\ x.interval_ms = contexts[i].interval_ms
  BY <1>2 DEF Context
<1>4. contexts' = [contexts EXCEPT ![i] = x]
  BY DEF CancelSet
<1>5. caller'[c] = Resting
  BY DEF CancelSet, PlaceInv, Types
<1> HIDE DEF x
<1> QED
  BY <1>1, <1>2, <1>3, <1>4, <1>5

LEMMA PlaceCancelSet ==
    ASSUME PlaceInv, NEW c, Callers = {c}, CancelSet(c)
    PROVE  PlaceInv'
<1>1. /\ Types /\ Places /\ CallerPlaces /\ caller[c].at = "cancel"
      /\ later' = later /\ commands' = commands /\ worker' = worker /\ clock' = clock
  BY DEF PlaceInv, CancelSet
<1>2. Resting \in Caller /\ Resting.at = "idle"
  BY SizeType DEF Resting, Caller
<1>3. caller' \in [Callers -> Caller] /\ caller'[c].at = "idle"
  BY <1>1, <1>2 DEF Types, CancelSet
<1>4. \A i : ~Putting(i) /\ ~Putting(i)'
  BY <1>1, <1>3 DEF Putting
<1>5. log' \in [Calls -> Entry]
  <2>1. \A k \in Calls : [log[k] EXCEPT !.cancelled = "sure"] \in Entry
    BY <1>1 DEF Types, Entry
  <2> QED
    BY <1>1, <2>1 DEF Types, CancelSet
<1> QED
  BY <1>1, <1>3, <1>4, <1>5, CancelSetIs
     DEF PlaceInv, Types, Places, CallerPlaces, WorkerHolds, Held

-----------------------------------------------------------------------------
(* The steps of the worker keep contexts in one place.                     *)

LEMMA WaitingType ==
    Waiting \in Worker /\ Waiting.at = "idle" /\ Waiting.idx = 0 /\ Waiting.now = 0
  BY SizeType DEF Waiting, Worker

(* The worker has the context it names.                                    *)
LEMMA WorkerHas ==
    ASSUME PlaceInv, WorkerHolds
    PROVE  /\ worker.idx \in Contexts /\ contexts[worker.idx].ref_count = 1
           /\ ~In(later, worker.idx) /\ ~In(commands, worker.idx) /\ ~Putting(worker.idx)
<1>1. worker.idx \in Contexts
  BY SizeType DEF PlaceInv, Types, Places, Worker, Contexts
<1> QED
  BY <1>1 DEF PlaceInv, Places, Held

LEMMA PlaceProcess ==
    ASSUME PlaceInv, Process
    PROVE  PlaceInv'
<1>1. nowMs \in Nat
  BY NowType DEF PlaceInv
<1>2. /\ worker' \in Worker /\ worker'.at = "delayed" /\ worker'.idx = worker.idx
  BY <1>1 DEF Process, PlaceInv, Types, Worker
<1> QED
  BY <1>2 DEF Process, PlaceInv, Types, Places, CallerPlaces, WorkerHolds, Held, Putting

LEMMA PlacePopLater ==
    ASSUME PlaceInv, PopLater
    PROVE  PlaceInv'
<1>1. /\ Types /\ Places /\ CallerPlaces /\ worker.at = "delayed" /\ worker.idx = 0
      /\ contexts' = contexts /\ commands' = commands /\ caller' = caller
      /\ clock' = clock /\ log' = log
  BY DEF PlaceInv, PopLater, Places, WorkerHolds
<1>2. CASE later = <<>> /\ worker' = [worker EXCEPT !.at = "pop"] /\ later' = later
  <2>1. worker' \in Worker /\ worker'.at = "pop" /\ worker'.idx = 0
    BY <1>1, <1>2 DEF Types, Worker
  <2> QED
    BY <1>1, <1>2, <2>1 DEF PlaceInv, Types, Places, CallerPlaces, WorkerHolds, Held, Putting
<1>3. CASE later # <<>> /\ worker' = [worker EXCEPT !.at = "sort", !.idx = Head(later)]
           /\ later' = Tail(later)
  <2>1. /\ Head(later) \in Contexts /\ later' \in Seq(Contexts)
        /\ \A j : In(later, j) <=> j = Head(later) \/ In(later', j)
        /\ Distinct(later') /\ ~In(later', Head(later))
    BY <1>1, <1>3, TailIn DEF Types, Places
  <2>2. worker' \in Worker /\ worker'.at = "sort" /\ worker'.idx = Head(later)
    <3>1. worker \in Worker /\ Head(later) \in 0 .. SIZE
      BY <1>1, <2>1 DEF Types, Contexts
    <3>2. worker' = [at |-> "sort", idx |-> Head(later), start |-> worker.start,
                     now |-> worker.now]
      BY <1>3, <3>1 DEF Worker
    <3> QED
      BY <3>1, <3>2 DEF Worker
  <2>3. Head(later) # 0
    BY <2>1, SizeType
  <2>4. Places'
    <3> DEFINE i == Head(later)
    <3> HIDE DEF i
    <3>1. /\ i # 0 /\ worker'.at = "sort" /\ worker'.idx = i
          /\ \A j : In(later, j) <=> j = i \/ In(later', j)
          /\ ~In(later', i)
      BY <2>1, <2>2, <2>3 DEF i
    <3>2. \A j : Putting(j)' <=> Putting(j)
      BY <1>1 DEF Putting
    <3>3. \A j \in Contexts : Held(j)' <=> Held(j)
      BY <1>1, <3>1, <3>2, SizeType DEF Held
    <3>4. \A j \in Contexts :
              /\ In(later', j) => ~In(commands', j) /\ worker'.idx # j /\ ~Putting(j)'
              /\ In(commands', j) => worker'.idx # j /\ ~Putting(j)'
              /\ worker'.idx = j => ~Putting(j)'
      BY <1>1, <3>1, <3>2 DEF Places
    <3>5. \A j \in Contexts : contexts'[j].ref_count = IF Held(j)' THEN 1 ELSE 0
      BY <1>1, <3>3 DEF Places
    <3> QED
      BY <1>1, <2>1, <3>1, <3>4, <3>5 DEF Places, WorkerHolds
  <2> QED
    BY <1>1, <2>1, <2>2, <2>4 DEF PlaceInv, Types, CallerPlaces
<1> QED
  BY <1>2, <1>3 DEF PopLater

(* A due context always has room among the commands.                       *)
LEMMA SortDueIs ==
    ASSUME PlaceInv, SortDue
    PROVE  commands' = Append(commands, worker.idx) /\ contexts' = contexts
<1>1. worker.idx \in Contexts /\ ~In(commands, worker.idx)
  BY WorkerHas DEF SortDue, WorkerHolds
<1>2. HasRoom(commands)
  BY <1>1, Room DEF PlaceInv, Types, Places
<1> QED
  BY <1>2 DEF SortDue

LEMMA PlaceSortDue ==
    ASSUME PlaceInv, SortDue
    PROVE  PlaceInv'
<1> DEFINE i == worker.idx
<1>1. /\ Types /\ Places /\ CallerPlaces /\ worker.at = "sort" /\ contexts' = contexts
      /\ later' = later /\ commands' = Append(commands, i)
      /\ caller' = caller /\ clock' = clock /\ log' = log
  BY SortDueIs DEF PlaceInv, SortDue
<1>2. i \in Contexts /\ ~In(later, i) /\ ~In(commands, i) /\ ~Putting(i)
  BY <1>1, WorkerHas DEF WorkerHolds
<1>3. /\ commands' \in Seq(Contexts) /\ Distinct(commands')
      /\ \A j : In(commands', j) <=> In(commands, j) \/ j = i
  BY <1>1, <1>2, AppendIn DEF Types, Places
<1>4. worker' \in Worker /\ worker'.at = "pop" /\ worker'.idx = 0
  <2>1. worker \in Worker
    BY <1>1 DEF Types
  <2>2. worker' = [at |-> "pop", idx |-> 0, start |-> 0, now |-> worker.now]
    BY <2>1 DEF SortDue, Worker
  <2> QED
    BY <2>1, <2>2, SizeType DEF Worker
<1>5. Places'
  <2> HIDE DEF i
  <2>1. \A j \in Contexts : worker.idx = j <=> j = i
    BY DEF i
  <2> QED
    BY <1>1, <1>2, <1>3, <1>4, <2>1, SizeType DEF Places, WorkerHolds, Held, Putting
<1> QED
  BY <1>1, <1>3, <1>4, <1>5 DEF PlaceInv, Types, CallerPlaces

(* A context that is not due always gets back into the queue.              *)
LEMMA SortLaterIs ==
    ASSUME PlaceInv, SortLater
    PROVE  later' = Append(later, worker.idx)
<1>1. worker.idx \in Contexts /\ ~In(later, worker.idx)
  BY WorkerHas DEF SortLater, WorkerHolds
<1>2. HasRoom(later)
  BY <1>1, Room DEF PlaceInv, Types, Places
<1> QED
  BY <1>2 DEF SortLater

LEMMA PlaceSortLater ==
    ASSUME PlaceInv, SortLater
    PROVE  PlaceInv'
<1> DEFINE i == worker.idx
<1>1. /\ Types /\ Places /\ CallerPlaces /\ worker.at = "sort" /\ contexts' = contexts
      /\ commands' = commands /\ later' = Append(later, i)
      /\ caller' = caller /\ clock' = clock /\ log' = log
  BY SortLaterIs DEF PlaceInv, SortLater
<1>2. i \in Contexts /\ ~In(later, i) /\ ~In(commands, i) /\ ~Putting(i)
  BY <1>1, WorkerHas DEF WorkerHolds
<1>3. /\ later' \in Seq(Contexts) /\ Distinct(later')
      /\ \A j : In(later', j) <=> In(later, j) \/ j = i
  BY <1>1, <1>2, AppendIn DEF Types, Places
<1>4. worker' \in Worker /\ worker'.at \in {"pop", "delayed"} /\ worker'.idx = 0
  <2>1. StartAfter(i) \in 0 .. SIZE
    BY <1>1 DEF StartAfter, Types, Worker
  <2> QED
    <3>1. worker \in Worker
      BY <1>1 DEF Types
    <3>2. CASE worker' = [worker EXCEPT !.at = "pop", !.idx = 0, !.start = 0]
      <4>1. worker' = [at |-> "pop", idx |-> 0, start |-> 0, now |-> worker.now]
        BY <3>1, <3>2 DEF Worker
      <4> QED
        BY <3>1, <4>1, SizeType DEF Worker
    <3>3. CASE worker' = [worker EXCEPT !.at = "delayed", !.idx = 0, !.start = StartAfter(i)]
      <4>1. worker' = [at |-> "delayed", idx |-> 0, start |-> StartAfter(i), now |-> worker.now]
        BY <3>1, <3>3 DEF Worker
      <4> QED
        BY <2>1, <3>1, <4>1, SizeType DEF Worker
    <3> QED
      BY <3>2, <3>3 DEF SortLater
<1>5. Places'
  <2> HIDE DEF i
  <2>1. \A j \in Contexts : worker.idx = j <=> j = i
    BY DEF i
  <2> QED
    BY <1>1, <1>2, <1>3, <1>4, <2>1, SizeType DEF Places, WorkerHolds, Held, Putting
<1> QED
  BY <1>1, <1>3, <1>4, <1>5 DEF PlaceInv, Types, CallerPlaces

LEMMA PlacePop ==
    ASSUME PlaceInv, Pop
    PROVE  PlaceInv'
<1>1. /\ Types /\ Places /\ CallerPlaces /\ worker.at = "pop" /\ worker.idx = 0
      /\ contexts' = contexts /\ later' = later /\ caller' = caller
      /\ clock' = clock /\ log' = log
  BY DEF PlaceInv, Pop, Places, WorkerHolds
<1>2. CASE worker' = Waiting /\ commands' = commands
  BY <1>1, <1>2, WaitingType
     DEF PlaceInv, Types, Places, CallerPlaces, WorkerHolds, Held, Putting
<1>3. CASE commands # <<>> /\ worker' = [Waiting EXCEPT !.at = "check", !.idx = Head(commands)]
           /\ commands' = Tail(commands)
  <2>1. /\ Head(commands) \in Contexts /\ commands' \in Seq(Contexts)
        /\ \A j : In(commands, j) <=> j = Head(commands) \/ In(commands', j)
        /\ Distinct(commands') /\ ~In(commands', Head(commands))
    BY <1>1, <1>3, TailIn DEF Types, Places
  <2>2. worker' \in Worker /\ worker'.at = "check" /\ worker'.idx = Head(commands)
    <3>1. Head(commands) \in 0 .. SIZE
      BY <2>1 DEF Contexts
    <3>2. worker' = [at |-> "check", idx |-> Head(commands), start |-> 0, now |-> 0]
      BY <1>3 DEF Waiting
    <3> QED
      BY <3>1, <3>2, SizeType DEF Worker
  <2>3. Head(commands) # 0
    BY <2>1, SizeType
  <2>4. Places'
    <3> DEFINE i == Head(commands)
    <3> HIDE DEF i
    <3>1. /\ i # 0 /\ worker'.at = "check" /\ worker'.idx = i
          /\ \A j : In(commands, j) <=> j = i \/ In(commands', j)
          /\ ~In(commands', i)
      BY <2>1, <2>2, <2>3 DEF i
    <3>2. \A j : Putting(j)' <=> Putting(j)
      BY <1>1 DEF Putting
    <3>3. \A j \in Contexts : Held(j)' <=> Held(j)
      BY <1>1, <3>1, <3>2, SizeType DEF Held
    <3>4. \A j \in Contexts :
              /\ In(later', j) => ~In(commands', j) /\ worker'.idx # j /\ ~Putting(j)'
              /\ In(commands', j) => worker'.idx # j /\ ~Putting(j)'
              /\ worker'.idx = j => ~Putting(j)'
      BY <1>1, <3>1, <3>2 DEF Places
    <3>5. \A j \in Contexts : contexts'[j].ref_count = IF Held(j)' THEN 1 ELSE 0
      BY <1>1, <3>3 DEF Places
    <3> QED
      BY <1>1, <2>1, <3>1, <3>4, <3>5 DEF Places, WorkerHolds
  <2> QED
    BY <1>1, <2>1, <2>2, <2>4 DEF PlaceInv, Types, CallerPlaces
<1> QED
  BY <1>2, <1>3 DEF Pop

(* The worker gives its context back.                                      *)
LEMMA PlaceReleased ==
    ASSUME PlaceInv, WorkerHolds, contexts' = Released(worker.idx), worker' = Waiting,
           UNCHANGED <<later, commands, caller, clock, log>>
    PROVE  PlaceInv'
<1> DEFINE i == worker.idx
<1>1. Types /\ Places /\ CallerPlaces
  BY DEF PlaceInv
<1>2. /\ i \in Contexts /\ contexts[i].ref_count = 1
      /\ ~In(later, i) /\ ~In(commands, i) /\ ~Putting(i)
  BY WorkerHas
<1>3. /\ contexts' \in [Contexts -> Context] /\ contexts'[i].ref_count = 0
      /\ \A j \in Contexts : j # i => contexts'[j] = contexts[j]
  BY <1>1, <1>2, ReleasedIs
<1>4. worker' \in Worker /\ worker'.at = "idle" /\ worker'.idx = 0
  BY WaitingType
<1>5. Places'
  <2> HIDE DEF i
  <2>1. \A j \in Contexts : worker.idx = j <=> j = i
    BY DEF i
  <2> QED
    BY <1>1, <1>2, <1>3, <1>4, <2>1, SizeType DEF Places, WorkerHolds, Held, Putting
<1>6. CallerPlaces'
  BY <1>1, <1>2, <1>3 DEF CallerPlaces
<1> QED
  BY <1>1, <1>3, <1>4, <1>5, <1>6 DEF PlaceInv, Types

(* The worker keeps its context while only the label changes.              *)
LEMMA PlaceStays ==
    ASSUME PlaceInv, WorkerHolds, WorkerHolds', worker'.idx = worker.idx, worker' \in Worker,
           contexts' \in [Contexts -> Context], log' \in [Calls -> Entry],
           \A i \in Contexts : contexts'[i].ref_count = contexts[i].ref_count,
           UNCHANGED <<later, commands, caller, clock>>
    PROVE  PlaceInv'
<1>1. Places' /\ CallerPlaces'
  BY DEF PlaceInv, Places, CallerPlaces, Held, Putting
<1> QED
  BY <1>1 DEF PlaceInv, Types

LEMMA PlaceCheck ==
    ASSUME PlaceInv, Check
    PROVE  PlaceInv'
<1>1. worker.at = "check" /\ WorkerHolds
  BY DEF Check, WorkerHolds
<1>2. CASE contexts[worker.idx].cancelled
  BY <1>1, <1>2, PlaceReleased DEF Check
<1>3. CASE ~contexts[worker.idx].cancelled
  <2>1. worker' \in Worker /\ worker'.at = "run" /\ worker'.idx = worker.idx
    BY <1>3 DEF Check, PlaceInv, Types, Worker
  <2> QED
    BY <1>1, <1>3, <2>1, PlaceStays DEF Check, WorkerHolds, PlaceInv, Types
<1> QED
  BY <1>2, <1>3

LEMMA PlaceRun ==
    ASSUME PlaceInv, Run
    PROVE  PlaceInv'
<1>1. worker' \in Worker /\ worker'.at = "ran" /\ worker'.idx = worker.idx
  BY DEF Run, PlaceInv, Types, Worker
<1>2. log' \in [Calls -> Entry]
  <2>1. \A k \in Calls : [log[k] EXCEPT !.runs = @ + 1] \in Entry
    <3>1. \A k \in Calls : log[k] \in Entry /\ log[k].runs \in Nat
      BY DEF PlaceInv, Types, Entry
    <3>2. \A k \in Calls : log[k].runs + 1 \in Nat
      BY <3>1
    <3> QED
      BY <3>1, <3>2 DEF Entry
  <2>2. log' = [log EXCEPT ![Func(worker.idx)] = [log[Func(worker.idx)] EXCEPT !.runs = @ + 1]]
    BY DEF Run, Func
  <2>3. log \in [Calls -> Entry]
    BY DEF PlaceInv, Types
  <2> QED
    BY <2>1, <2>2, <2>3
<1> QED
  BY <1>1, <1>2, PlaceStays DEF Run, WorkerHolds, PlaceInv, Types

(* An interval command always gets back into the queue.                    *)
LEMMA AgainIs ==
    ASSUME PlaceInv, Again
    PROVE  /\ worker.idx \in Contexts /\ later' = Append(later, worker.idx)
           /\ contexts' \in [Contexts -> Context]
           /\ \A j \in Contexts : j # worker.idx => contexts'[j] = contexts[j]
           /\ \A j \in Contexts : /\ contexts'[j].ref_count = contexts[j].ref_count
                                  /\ contexts'[j].func = contexts[j].func
                                  /\ contexts'[j].status = contexts[j].status
                                  /\ contexts'[j].cancelled = contexts[j].cancelled
                                  /\ contexts'[j].interval_ms = contexts[j].interval_ms
<1> DEFINE i == worker.idx
           x == AgainContext(i)
<1>1. i \in Contexts /\ ~In(later, i)
  BY WorkerHas DEF Again, WorkerHolds
<1>2. HasRoom(later)
  BY <1>1, Room DEF PlaceInv, Types, Places
<1>3. later' = Append(later, i) /\ contexts' = [contexts EXCEPT ![i] = x]
  BY <1>2 DEF Again
<1>4. contexts \in [Contexts -> Context] /\ contexts[i] \in Context
  BY <1>1 DEF PlaceInv, Types
<1>5. (nowMs + contexts[i].interval_ms) % ClockSize \in Nat
  <2>1. nowMs + contexts[i].interval_ms \in Int
    BY <1>4, NowType DEF PlaceInv, Context
  <2> QED
    BY <2>1, SizeType
<1>6. /\ x \in Context /\ x.ref_count = contexts[i].ref_count
      /\ x.func = contexts[i].func /\ x.status = contexts[i].status
      /\ x.cancelled = contexts[i].cancelled /\ x.interval_ms = contexts[i].interval_ms
  BY <1>4, <1>5 DEF AgainContext, Context
<1> HIDE DEF x
<1> QED
  BY <1>1, <1>3, <1>4, <1>6

LEMMA PlaceAgain ==
    ASSUME PlaceInv, Again
    PROVE  PlaceInv'
<1> DEFINE i == worker.idx
<1>1. /\ Types /\ Places /\ CallerPlaces /\ worker.at = "ran"
      /\ commands' = commands /\ later' = Append(later, i)
      /\ caller' = caller /\ clock' = clock /\ log' = log
      /\ contexts' \in [Contexts -> Context]
      /\ \A j \in Contexts : contexts'[j].ref_count = contexts[j].ref_count
  BY AgainIs DEF PlaceInv, Again
<1>2. i \in Contexts /\ ~In(later, i) /\ ~In(commands, i) /\ ~Putting(i)
  BY <1>1, WorkerHas DEF WorkerHolds
<1>3. /\ later' \in Seq(Contexts) /\ Distinct(later')
      /\ \A j : In(later', j) <=> In(later, j) \/ j = i
  BY <1>1, <1>2, AppendIn DEF Types, Places
<1>4. worker' \in Worker /\ worker'.at = "idle" /\ worker'.idx = 0
  BY WaitingType DEF Again
<1>5. Places'
  <2> HIDE DEF i
  <2>1. \A j \in Contexts : worker.idx = j <=> j = i
    BY DEF i
  <2> QED
    BY <1>1, <1>2, <1>3, <1>4, <2>1, SizeType DEF Places, WorkerHolds, Held, Putting
<1>6. CallerPlaces'
  BY <1>1 DEF CallerPlaces
<1> QED
  BY <1>1, <1>3, <1>4, <1>5, <1>6 DEF PlaceInv, Types

LEMMA SetStatusIs ==
    ASSUME PlaceInv, SetStatus
    PROVE  /\ worker.idx \in Contexts /\ contexts' \in [Contexts -> Context]
           /\ contexts'[worker.idx].status
           /\ \A j \in Contexts : j # worker.idx => contexts'[j] = contexts[j]
           /\ \A j \in Contexts : /\ contexts'[j].ref_count = contexts[j].ref_count
                                  /\ contexts'[j].func = contexts[j].func
                                  /\ contexts'[j].cancelled = contexts[j].cancelled
                                  /\ contexts'[j].scheduled_ms = contexts[j].scheduled_ms
                                  /\ contexts'[j].interval_ms = contexts[j].interval_ms
<1> DEFINE i == worker.idx
           x == [contexts[i] EXCEPT !.status = TRUE]
<1>1. i \in Contexts
  BY WorkerHas DEF SetStatus, WorkerHolds
<1>2. contexts \in [Contexts -> Context] /\ contexts[i] \in Context
  BY <1>1 DEF PlaceInv, Types
<1>3. /\ x \in Context /\ x.status /\ x.ref_count = contexts[i].ref_count
      /\ x.func = contexts[i].func /\ x.cancelled = contexts[i].cancelled
      /\ x.scheduled_ms = contexts[i].scheduled_ms
      /\ x.interval_ms = contexts[i].interval_ms
  BY <1>2 DEF Context
<1>4. contexts' = [contexts EXCEPT ![i] = x]
  BY DEF SetStatus, Told
<1> HIDE DEF x
<1> QED
  BY <1>1, <1>2, <1>3, <1>4

LEMMA PlaceSetStatus ==
    ASSUME PlaceInv, SetStatus
    PROVE  PlaceInv'
<1>1. worker' \in Worker /\ worker'.at = "release" /\ worker'.idx = worker.idx
  BY DEF SetStatus, PlaceInv, Types, Worker
<1> QED
  BY <1>1, PlaceStays, SetStatusIs DEF SetStatus, WorkerHolds, PlaceInv, Types

LEMMA PlaceRelease ==
    ASSUME PlaceInv, Release
    PROVE  PlaceInv'
  BY PlaceReleased DEF Release, WorkerHolds

LEMMA PlaceTick ==
    ASSUME PlaceInv, Tick
    PROVE  PlaceInv'
  BY DEF Tick, PlaceInv, Types, Places, CallerPlaces, WorkerHolds, Held, Putting

LEMMA PlaceSame ==
    ASSUME PlaceInv, UNCHANGED vars
    PROVE  PlaceInv'
  BY DEF vars, PlaceInv, Types, Places, CallerPlaces, WorkerHolds, Held, Putting

-----------------------------------------------------------------------------
LEMMA PlaceInit == Init => PlaceInv
<1> SUFFICES ASSUME Init PROVE PlaceInv
  OBVIOUS
<1>1. Free \in Context /\ Free.ref_count = 0
  BY SizeType DEF Free, Context
<1>2. Resting \in Caller /\ Resting.at = "idle"
  BY SizeType DEF Resting, Caller
<1>3. NoCall \in Entry
  BY DEF NoCall, Entry, Kinds
<1>4. Types
  BY <1>1, <1>2, <1>3, WaitingType, SizeType DEF Init, Types
<1>5. \A i : ~In(later, i) /\ ~In(commands, i)
  BY DEF Init, In
<1>6. Distinct(later) /\ Distinct(commands)
  BY DEF Init, Distinct
<1>7. \A i \in Contexts : ~Held(i)
  BY <1>2, <1>5, WaitingType, SizeType DEF Init, Held, Putting
<1>8. Places
  BY <1>1, <1>5, <1>6, <1>7, WaitingType, SizeType DEF Init, Places, WorkerHolds
<1>9. CallerPlaces
  BY <1>2 DEF Init, CallerPlaces
<1> QED
  BY <1>4, <1>8, <1>9 DEF PlaceInv

(* What a step of the caller is.                                           *)
LEMMA CallerSteps ==
    ASSUME NEW c \in Callers, Calling(c) \/ Finishing(c)
    PROVE  \/ \E kind \in Kinds, id \in Int, delay \in Nat :
                 /\ kind = "interval" => delay \in Delays
                 /\ ~Delayed(kind) => delay = 0
                 /\ Delayed(kind) => delay \in Delays
                 /\ Find(c, kind, id, delay)
           \/ \E id \in Int : Cancel(c, id)
           \/ Fill(c) \/ Put(c) \/ WaitEnds(c) \/ CancelSet(c)
<1>1. CASE \E kind \in {"now", "wait"} : Find(c, kind, -1, 0)
  <2>1. PICK kind \in {"now", "wait"} : Find(c, kind, -1, 0)
    BY <1>1
  <2>2. kind \in Kinds /\ kind # "interval" /\ ~Delayed(kind) /\ -1 \in Int
    BY <2>1 DEF Kinds, Delayed
  <2> QED
    BY <2>1, <2>2
<1>2. CASE \E kind \in {"later", "interval"}, id \in Ids, delay \in Delays :
               Find(c, kind, id, delay)
  <2>1. PICK kind \in {"later", "interval"}, id \in Ids, delay \in Delays :
            Find(c, kind, id, delay)
    BY <1>2
  <2>2. kind \in Kinds /\ Delayed(kind) /\ id \in Int /\ delay \in Nat
    BY <2>1, SizeType DEF Kinds, Delayed
  <2> QED
    BY <2>1, <2>2
<1>3. CASE \E id \in Ids : Cancel(c, id)
  BY <1>3, SizeType
<1> QED
  BY <1>1, <1>2, <1>3 DEF Calling, Finishing

LEMMA PlaceStep ==
    ASSUME OneCaller, PlaceInv, [Next]_vars
    PROVE  PlaceInv'
<1>1. ASSUME NEW c \in Callers, Calling(c) \/ Finishing(c) PROVE PlaceInv'
  <2>1. Callers = {c}
    BY DEF OneCaller
  <2> QED
    BY <1>1, <2>1, CallerSteps, PlaceFind, PlaceCancel, PlaceFill, PlacePut, PlaceWaitEnds,
       PlaceCancelSet
<1>2. CASE Processing
  BY <1>2, PlaceProcess, PlacePopLater, PlaceSortDue, PlaceSortLater, PlacePop, PlaceCheck,
     PlaceRun, PlaceAgain, PlaceSetStatus, PlaceRelease DEF Processing
<1> QED
  BY <1>1, <1>2, PlaceTick, PlaceSame DEF Next

(* With one calling thread every context is where its holder is: queued    *)
(* once, with the worker or with the caller, and counted as such.          *)
THEOREM PlaceInvariant ==
    ASSUME OneCaller
    PROVE  Spec => []PlaceInv
<1>1. PlaceInv /\ [Next]_vars => PlaceInv'
  BY PlaceStep
<1> QED
  BY <1>1, PlaceInit, PTL DEF Spec

LEMMA EntriesOf ==
    ASSUME NEW queue \in Seq(Contexts), Distinct(queue), NEW i
    PROVE  Cardinality({p \in 1 .. Len(queue) : queue[p] = i}) = IF In(queue, i) THEN 1 ELSE 0
<1> DEFINE S == {p \in 1 .. Len(queue) : queue[p] = i}
<1>1. CASE In(queue, i)
  <2>1. PICK p \in 1 .. Len(queue) : queue[p] = i
    BY <1>1 DEF In
  <2>2. S = {p}
    BY <2>1 DEF Distinct
  <2> QED
    BY <1>1, <2>2, FS_Singleton
<1>2. CASE ~In(queue, i)
  <2>1. S = {}
    BY <1>2 DEF In
  <2> QED
    BY <1>2, <2>1, FS_EmptySet
<1> QED
  BY <1>1, <1>2

LEMMA HeldOnce ==
    ASSUME OneCaller, PlaceInv
    PROVE  ContextsHeldOnce
<1> SUFFICES ASSUME NEW i \in Contexts
             PROVE  contexts[i].ref_count = Holders(i) /\ Holders(i) <= 1
  BY DEF ContextsHeldOnce
<1> DEFINE inLater == Cardinality({p \in 1 .. Len(later) : later[p] = i})
           inCommands == Cardinality({p \in 1 .. Len(commands) : commands[p] = i})
           putters == Cardinality({c \in Callers : caller[c].at = "put" /\ caller[c].idx = i})
<1>1. /\ inLater = IF In(later, i) THEN 1 ELSE 0
      /\ inCommands = IF In(commands, i) THEN 1 ELSE 0
  BY EntriesOf DEF PlaceInv, Types, Places
<1>2. putters = IF Putting(i) THEN 1 ELSE 0
  <2>1. PICK c : Callers = {c}
    BY DEF OneCaller
  <2>2. CASE Putting(i)
    <3>1. {d \in Callers : caller[d].at = "put" /\ caller[d].idx = i} = {c}
      BY <2>1, <2>2 DEF Putting
    <3> QED
      BY <2>2, <3>1, FS_Singleton
  <2>3. CASE ~Putting(i)
    <3>1. {d \in Callers : caller[d].at = "put" /\ caller[d].idx = i} = {}
      BY <2>3 DEF Putting
    <3> QED
      BY <2>3, <3>1, FS_EmptySet
  <2> QED
    BY <2>2, <2>3
<1>3. Holders(i) = inLater + inCommands + (IF worker.idx = i THEN 1 ELSE 0) + putters
  BY DEF Holders
<1> HIDE DEF inLater, inCommands, putters
<1> QED
  BY <1>1, <1>2, <1>3 DEF PlaceInv, Places, Held

(* With one calling thread the reference count of a context is always the  *)
(* number of its holders, one at most: neither a full queue nor a delayed  *)
(* command that is put back ever loses or doubles a context.               *)
THEOREM EveryContextHeldOnce ==
    ASSUME OneCaller
    PROVE  Spec => []ContextsHeldOnce
<1>1. PlaceInv => ContextsHeldOnce
  BY HeldOnce
<1> QED
  BY <1>1, PlaceInvariant, PTL

-----------------------------------------------------------------------------
(* The steps of the caller keep what is in the contexts.                   *)

LEMMA UsedIs ==
    ASSUME PlaceInv, NEW i \in Contexts
    PROVE  /\ contexts[i].ref_count \in {0, 1}
           /\ Used(i) <=> Held(i)
           /\ Used(i) <=> contexts[i].ref_count = 1
  BY DEF PlaceInv, Places, Used

LEMMA IssuedIs ==
    ASSUME Numbered, Issued < MaxCalls
    PROVE  /\ Issued + 1 \in Calls /\ ~Asked(Issued + 1)
           /\ \A k \in Calls : Asked(k) <=> k <= Issued
<1>1. PICK n \in 0 .. MaxCalls : \A k \in Calls : Asked(k) <=> k <= n
  BY DEF Numbered
<1>2. {k \in Calls : log[k].result # "none"} = 1 .. n
  BY <1>1, SizeType DEF Asked, Calls
<1>3. Issued = n
  <2>1. n \in Nat /\ \A m \in Nat : Cardinality(1 .. m) = m
    BY SizeType, FS_Interval
  <2>2. Cardinality(1 .. n) = n
    BY <2>1
  <2> QED
    BY <1>2, <2>2 DEF Issued
<1> QED
  BY <1>1, <1>3, SizeType DEF Calls

(* A search takes the next call, and a free context if there is one.       *)
LEMMA FindIs ==
    ASSUME PlaceInv, Numbered, NEW c, Callers = {c}, NEW kind \in Kinds, NEW id \in Int,
           NEW delay \in Nat, Find(c, kind, id, delay)
    PROVE  LET k == Issued + 1 IN
           /\ k \in Calls /\ ~Asked(k)
           /\ \A j \in Calls : j # k => log'[j] = log[j]
           /\ log'[k].kind = kind /\ log'[k].runs = 0 /\ log'[k].cancelled = "no"
           /\ \/ log'[k].result = "refused" /\ caller' = caller /\ Available = {}
              \/ /\ log'[k].result = "pending"
                 /\ caller'[c].at = "fill" /\ caller'[c].call = k /\ caller'[c].delay = delay
<1> DEFINE k == Issued + 1
<1>1. k \in Calls /\ ~Asked(k)
  BY IssuedIs DEF Find
<1>2. log \in [Calls -> Entry] /\ caller \in [Callers -> Caller]
  BY DEF PlaceInv, Types
<1>3. \A result \in {"refused", "pending"} :
          LET x == [NoCall EXCEPT !.kind = kind, !.result = result] IN
          x.kind = kind /\ x.result = result /\ x.runs = 0 /\ x.cancelled = "no"
  BY DEF NoCall
<1>4. CASE /\ Available = {} /\ caller' = caller
           /\ log' = [log EXCEPT ![k] = [NoCall EXCEPT !.kind = kind, !.result = "refused"]]
  BY <1>1, <1>2, <1>3, <1>4
<1>5. CASE /\ log' = [log EXCEPT ![k] = [NoCall EXCEPT !.kind = kind, !.result = "pending"]]
           /\ caller' = [caller EXCEPT ![c] = [at |-> "fill", idx |-> Min(Available),
                                               call |-> k, id |-> id, delay |-> delay]]
  BY <1>1, <1>2, <1>3, <1>5
<1> QED
  BY <1>4, <1>5 DEF Find

LEMMA FuncFind ==
    ASSUME FuncInv, NEW c, Callers = {c}, NEW kind \in Kinds, NEW id \in Int,
           NEW delay \in Nat, kind = "interval" => delay \in Delays,
           Find(c, kind, id, delay), PlaceInv'
    PROVE  FuncInv'
<1> DEFINE k == Issued + 1
<1>1. /\ PlaceInv /\ Numbered /\ CallerCalls /\ Functs /\ Runs /\ Issued < MaxCalls
      /\ caller[c].at = "idle" /\ contexts' = contexts /\ worker' = worker
  BY DEF FuncInv, Find
<1>2. /\ k \in Calls /\ ~Asked(k)
      /\ \A j \in Calls : j # k => log'[j] = log[j]
      /\ log'[k].kind = kind /\ log'[k].runs = 0 /\ log'[k].cancelled = "no"
      /\ log'[k].result \in {"refused", "pending"}
      /\ \/ caller' = caller
         \/ /\ log'[k].result = "pending"
            /\ caller'[c].at = "fill" /\ caller'[c].call = k /\ caller'[c].delay = delay
  BY <1>1, FindIs
<1>3. k \in 1 .. MaxCalls /\ \A j \in Calls : Asked(j) <=> j <= k - 1
  BY <1>1, <1>2, IssuedIs, IssuedType DEF Calls
<1> HIDE DEF k
<1>4. Numbered'
  <2>1. \A j \in Calls : Asked(j)' <=> j <= k
    BY <1>2, <1>3 DEF Asked, Calls
  <2> QED
    BY <1>1, <1>2, <1>3, <2>1 DEF Numbered, Asked
<1>5. CallerCalls'
  BY <1>1, <1>2 DEF CallerCalls
<1>6. \A i \in Contexts : Used(i) => Func(i) \in Calls /\ log'[Func(i)] = log[Func(i)]
  BY <1>1, <1>2 DEF Functs, Asked
<1>7. \A i : ~Putting(i) /\ ~Putting(i)'
  BY <1>1, <1>2 DEF Putting
<1>8. Functs'
  BY <1>1, <1>6, <1>7 DEF Functs, Used, Func
<1>9. Runs'
  BY <1>1, <1>2, <1>6 DEF Runs, Used, Func, Done
<1> QED
  BY <1>4, <1>5, <1>8, <1>9 DEF FuncInv

LEMMA FillIs ==
    ASSUME FuncInv, NEW c, Callers = {c}, Fill(c),
           NEW i, i = caller[c].idx, NEW k, k = caller[c].call
    PROVE  /\ i \in Contexts /\ ~Used(i) /\ Used(i)' /\ Func(i)' = k
           /\ contexts'[i] = Filled(c)
           /\ \A j \in Contexts : j # i => contexts'[j] = contexts[j]
           /\ k \in Calls /\ log[k].result = "pending"
           /\ log'[k].due = clock + caller[c].delay
           /\ \A n \in Calls : n # k => log'[n] = log[n]
           /\ \A n \in Calls : /\ log'[n].kind = log[n].kind
                               /\ log'[n].result = log[n].result
                               /\ log'[n].runs = log[n].runs
                               /\ log'[n].cancelled = log[n].cancelled
           /\ caller'[c].at = "put" /\ caller'[c].idx = i /\ caller'[c].call = k
<1> DEFINE x == [log[k] EXCEPT !.due = clock + caller[c].delay]
<1>1. /\ Types /\ caller[c].at = "fill" /\ i \in Contexts /\ contexts[i].ref_count = 0
      /\ k \in Calls /\ log[k].result = "pending"
  BY DEF FuncInv, PlaceInv, CallerPlaces, CallerCalls, Fill
<1>2. Filled(c).ref_count = 1 /\ Filled(c).func = k
  BY <1>1, FilledIs
<1>3. log[k] \in Entry /\ log \in [Calls -> Entry] /\ contexts \in [Contexts -> Context]
  BY <1>1 DEF Types
<1>4. contexts' = [contexts EXCEPT ![i] = Filled(c)] /\ log' = [log EXCEPT ![k] = x]
  BY DEF Fill
<1>5. /\ x.kind = log[k].kind /\ x.result = log[k].result /\ x.runs = log[k].runs
      /\ x.cancelled = log[k].cancelled /\ x.due = clock + caller[c].delay
  BY <1>3 DEF Entry
<1>6. caller'[c].at = "put" /\ caller'[c].idx = i /\ caller'[c].call = k
  BY <1>1 DEF Fill, Types, Caller
<1> HIDE DEF x
<1>7. contexts'[i] = Filled(c) /\ \A j \in Contexts : j # i => contexts'[j] = contexts[j]
  BY <1>1, <1>3, <1>4
<1>8. Used(i)' /\ Func(i)' = k /\ ~Used(i)
  BY <1>1, <1>2, <1>7 DEF Used, Func
<1>9. /\ log'[k] = x /\ \A n \in Calls : n # k => log'[n] = log[n]
  BY <1>1, <1>3, <1>4
<1> QED
  BY <1>1, <1>5, <1>6, <1>7, <1>8, <1>9

LEMMA FuncFill ==
    ASSUME FuncInv, NEW c, Callers = {c}, Fill(c), PlaceInv'
    PROVE  FuncInv'
<1>0. PICK i, k : i = caller[c].idx /\ k = caller[c].call
  OBVIOUS
<1>1. /\ PlaceInv /\ Numbered /\ CallerCalls /\ Functs /\ Runs
      /\ caller[c].at = "fill" /\ worker' = worker
  BY DEF FuncInv, Fill
<1>2. /\ i \in Contexts /\ ~Used(i) /\ Used(i)' /\ Func(i)' = k
      /\ contexts'[i].interval_ms = IF log[k].kind = "interval" THEN caller[c].delay ELSE -1
      /\ \A j \in Contexts : j # i => contexts'[j] = contexts[j]
      /\ k \in Calls /\ log[k].result = "pending" /\ log[k].cancelled = "no"
      /\ log[k].kind = "interval" => caller[c].delay \in Delays
      /\ \A n \in Calls : /\ log'[n].kind = log[n].kind /\ log'[n].result = log[n].result
                          /\ log'[n].runs = log[n].runs /\ log'[n].cancelled = log[n].cancelled
      /\ caller'[c].at = "put" /\ caller'[c].idx = i /\ caller'[c].call = k
  <2>1. contexts'[i] = Filled(c)
    BY <1>0, FillIs
  <2>2. Filled(c).interval_ms = IF log[k].kind = "interval" THEN caller[c].delay ELSE -1
    BY <1>0, <1>1, FilledIs DEF PlaceInv, CallerPlaces
  <2> QED
    BY <1>0, <1>1, <2>1, <2>2, FillIs DEF CallerCalls
<1>3. Numbered'
  BY <1>1, <1>2 DEF Numbered, Asked
<1>4. CallerCalls'
  BY <1>1, <1>2 DEF CallerCalls
<1>5. \A j \in Contexts : j # i => /\ Used(j)' <=> Used(j)
                                   /\ Func(j)' = Func(j)
                                   /\ ~Putting(j)
  BY <1>0, <1>1, <1>2 DEF Used, Func, Putting
<1>6. Putting(i)'
  BY <1>1, <1>2 DEF Putting
<1>7. \A j \in Contexts : j # i /\ Used(j) => Func(j) \in Calls /\ Func(j) # k
  BY <1>1, <1>2, <1>5 DEF Functs
<1>8. Functs'
  BY <1>1, <1>2, <1>5, <1>6, <1>7 DEF Functs
<1>9. Runs'
  <2>1. worker.idx # i
    BY <1>1, <1>2, UsedIs DEF Held
  <2>2. worker.at = "release" => worker.idx \in Contexts
    BY <1>1, WorkerHas DEF WorkerHolds
  <2>3. \A j \in Contexts : Done(j)' <=> Done(j)
    BY <1>1 DEF Done
  <2>4. log[k].runs = 0
    BY <1>1, <1>2 DEF Numbered
  <2> QED
    BY <1>1, <1>2, <1>5, <1>7, <2>1, <2>2, <2>3, <2>4 DEF Runs, Done
<1> QED
  BY <1>3, <1>4, <1>8, <1>9 DEF FuncInv

(* A call is accepted, and nothing else about it changes.                  *)
LEMMA PutLog ==
    ASSUME FuncInv, NEW c, Callers = {c}, Put(c), NEW k, k = caller[c].call,
           NEW i, i = caller[c].idx
    PROVE  /\ k \in Calls /\ log[k].result = "pending" /\ log[k].cancelled = "no"
           /\ i \in Contexts /\ Func(i) = k /\ contexts' = contexts
           /\ caller'[c].at = IF log[k].kind = "wait" THEN "wait" ELSE "idle"
           /\ caller'[c].at = "wait" => caller'[c].idx = i /\ caller'[c].call = k
           /\ \A n \in Calls : n # k => log'[n] = log[n]
           /\ log'[k].result = "accepted"
           /\ log'[k].kind = log[k].kind /\ log'[k].runs = log[k].runs
           /\ log'[k].cancelled = log[k].cancelled /\ log'[k].due = log[k].due
<1>1. /\ PlaceInv /\ CallerCalls /\ caller[c].at = "put" /\ contexts' = contexts
  BY PutIs DEF FuncInv, Put
<1>2. log[k] \in Entry /\ log \in [Calls -> Entry] /\ k \in Calls
  BY <1>1 DEF PlaceInv, Types, CallerCalls
<1>3. log' = [log EXCEPT ![k] = [log[k] EXCEPT !.result = "accepted"]]
  BY <1>1, PutIs
<1>4. /\ caller'[c].at = IF log[k].kind = "wait" THEN "wait" ELSE "idle"
      /\ caller'[c].at = "wait" => caller'[c].idx = i /\ caller'[c].call = k
  <2>1. caller \in [Callers -> Caller] /\ caller[c] \in Caller
    BY <1>1 DEF PlaceInv, Types
  <2>2. caller' = [caller EXCEPT ![c] = IF log[k].kind = "wait"
                                        THEN [caller[c] EXCEPT !.at = "wait"] ELSE Resting]
    BY <1>1, PutIs
  <2>3. CASE log[k].kind = "wait"
    BY <2>1, <2>2, <2>3 DEF Caller
  <2>4. CASE log[k].kind # "wait"
    BY <2>1, <2>2, <2>4 DEF Caller, Resting
  <2> QED
    BY <2>3, <2>4
<1>5. i \in Contexts /\ Func(i) = k /\ log[k].result = "pending" /\ log[k].cancelled = "no"
  BY <1>1 DEF PlaceInv, CallerPlaces, CallerCalls
<1> QED
  BY <1>1, <1>2, <1>3, <1>4, <1>5 DEF Entry

LEMMA FuncPut ==
    ASSUME FuncInv, NEW c, Callers = {c}, Put(c), PlaceInv'
    PROVE  FuncInv'
<1>0. PICK i, k : i = caller[c].idx /\ k = caller[c].call
  OBVIOUS
<1>1. /\ PlaceInv /\ Numbered /\ CallerCalls /\ Functs /\ Runs
      /\ caller[c].at = "put" /\ worker' = worker /\ contexts' = contexts
  BY PutIs DEF FuncInv, Put
<1>2. /\ k \in Calls /\ log[k].result = "pending" /\ i \in Contexts /\ Func(i) = k
      /\ caller'[c].at \in {"idle", "wait"}
      /\ \A n \in Calls : n # k => log'[n] = log[n]
      /\ log'[k].result = "accepted"
      /\ log'[k].kind = log[k].kind /\ log'[k].runs = log[k].runs
      /\ log'[k].cancelled = log[k].cancelled
  BY <1>0, PutLog
<1>3. Numbered'
  BY <1>1, <1>2 DEF Numbered, Asked
<1>4. CallerCalls'
  BY <1>1, <1>2 DEF CallerCalls
<1>5. \A j : ~Putting(j)' /\ (Putting(j) <=> j = i)
  BY <1>0, <1>1, <1>2 DEF Putting
<1>6. Functs'
  BY <1>1, <1>2, <1>5 DEF Functs, Used, Func
<1>7. Runs'
  BY <1>1, <1>2 DEF Runs, Functs, Used, Func, Done
<1> QED
  BY <1>3, <1>4, <1>6, <1>7 DEF FuncInv

LEMMA FuncWaitEnds ==
    ASSUME FuncInv, NEW c, Callers = {c}, WaitEnds(c), PlaceInv'
    PROVE  FuncInv'
<1>1. caller'[c].at = "idle" /\ \A i : ~Putting(i) /\ ~Putting(i)'
  BY DEF FuncInv, PlaceInv, Types, WaitEnds, Resting, Putting
<1>2. CallerCalls'
  BY <1>1 DEF CallerCalls
<1> QED
  BY <1>1, <1>2 DEF WaitEnds, FuncInv, Numbered, Asked, Functs, Runs, Used, Func, Done

(* What a search for an id to cancel finds.                                *)
LEMMA CancelIs ==
    ASSUME FuncInv, NEW c, Callers = {c}, NEW id \in Int, Cancel(c, id)
    PROVE  \E i \in Contexts, k \in 0 .. MaxCalls :
               /\ Used(i) /\ Func(i) \in Live(id)
               /\ caller'[c].at = "cancel" /\ caller'[c].idx = i /\ caller'[c].call = k
               /\ k # 0 => k \in Calls /\ Live(id) = {k}
               /\ \A n \in Live(id) : n \in Calls /\ log[n].result = "accepted"
               /\ \A n \in Calls : /\ log'[n].kind = log[n].kind
                                   /\ log'[n].result = log[n].result
                                   /\ log'[n].due = log[n].due
                                   /\ log'[n].runs = log[n].runs
                                   /\ log'[n].cancelled =
                                          IF n \in Live(id) /\ log[n].cancelled = "no"
                                          THEN "asked" ELSE log[n].cancelled
<1>1. /\ PlaceInv /\ Types /\ Functs /\ caller[c].at = "idle"
  BY DEF FuncInv, PlaceInv, Cancel
<1>2. PICK k \in Live(id) \cup {0} :
          /\ k = 0 <=> Cardinality(Live(id)) # 1
          /\ caller' = [caller EXCEPT ![c] = [Resting EXCEPT
                           !.at = "cancel", !.idx = Min(Matching(id)), !.call = k]]
  BY DEF Cancel
<1>3. PICK i : i = Min(Matching(id))
  OBVIOUS
<1>4. i \in Contexts /\ Used(i) /\ Func(i) \in Live(id)
  <2>1. i \in Matching(id)
    BY <1>3, MinIn DEF Cancel, Matching
  <2> QED
    BY <2>1 DEF Matching, Used, Func, Live
<1>5. \A n \in Live(id) : n \in Calls /\ log[n].result = "accepted"
  <2>1. \A j : ~Putting(j)
    BY <1>1 DEF Putting
  <2> QED
    BY <1>1, <2>1 DEF Live, Functs, Used, Func
<1>6. k \in 0 .. MaxCalls
  BY <1>2, <1>5, SizeType DEF Calls
<1>7. k # 0 => k \in Calls /\ Live(id) = {k}
  <2> SUFFICES ASSUME k # 0 PROVE Live(id) = {k}
    BY <1>2, <1>5
  <2>1. Cardinality(Live(id)) = 1 /\ k \in Live(id)
    BY <1>2
  <2>2. IsFiniteSet(Live(id))
    <3>1. IsFiniteSet(Calls) /\ Live(id) \subseteq Calls
      BY <1>5, SizeType, FS_Interval DEF Calls
    <3> QED
      BY <3>1, FS_Subset
  <2>3. \E x : Live(id) = {x}
    BY <2>1, <2>2, FS_Singleton
  <2> QED
    BY <2>1, <2>3
<1>8. caller'[c].at = "cancel" /\ caller'[c].idx = i /\ caller'[c].call = k
  <2>1. caller' = [caller EXCEPT ![c] = [Resting EXCEPT
                      !.at = "cancel", !.idx = i, !.call = k]]
    BY <1>2, <1>3
  <2>2. caller \in [Callers -> Caller]
    BY <1>1 DEF Types
  <2> QED
    BY <2>1, <2>2 DEF Resting
<1>9. \A n \in Calls : /\ log'[n].kind = log[n].kind /\ log'[n].result = log[n].result
                       /\ log'[n].due = log[n].due /\ log'[n].runs = log[n].runs
                       /\ log'[n].cancelled = IF n \in Live(id) /\ log[n].cancelled = "no"
                                              THEN "asked" ELSE log[n].cancelled
  <2> TAKE n \in Calls
  <2>1. log[n] \in Entry
    BY <1>1 DEF Types
  <2>2. log'[n] = IF n \in Live(id) /\ log[n].cancelled = "no"
                  THEN [log[n] EXCEPT !.cancelled = "asked"] ELSE log[n]
    BY DEF Cancel
  <2> QED
    BY <2>1, <2>2 DEF Entry
<1> QED
  BY <1>4, <1>5, <1>6, <1>7, <1>8, <1>9

LEMMA FuncCancel ==
    ASSUME FuncInv, NEW c, Callers = {c}, NEW id \in Int, Cancel(c, id), PlaceInv'
    PROVE  FuncInv'
<1>1. /\ Numbered /\ CallerCalls /\ Functs /\ Runs /\ caller[c].at = "idle"
      /\ contexts' = contexts /\ worker' = worker
  BY DEF FuncInv, Cancel
<1>2. /\ caller'[c].at = "cancel"
      /\ caller'[c].call # 0 => caller'[c].call \in Calls /\ Asked(caller'[c].call)
      /\ \A n \in Calls : /\ log'[n].kind = log[n].kind /\ log'[n].result = log[n].result
                          /\ log'[n].runs = log[n].runs
                          /\ log'[n].cancelled # log[n].cancelled => Asked(n)
  BY CancelIs DEF Asked
<1>3. Numbered'
  BY <1>1, <1>2 DEF Numbered, Asked
<1>4. CallerCalls'
  BY <1>1, <1>2 DEF CallerCalls, Asked
<1>5. \A i : ~Putting(i) /\ ~Putting(i)'
  BY <1>1, <1>2 DEF Putting
<1>6. Functs'
  BY <1>1, <1>2, <1>5 DEF Functs, Used, Func
<1>7. Runs'
  BY <1>1, <1>2 DEF Runs, Functs, Used, Func, Done
<1> QED
  BY <1>3, <1>4, <1>6, <1>7 DEF FuncInv

LEMMA CancelSetLog ==
    ASSUME FuncInv, NEW c, Callers = {c}, CancelSet(c)
    PROVE  /\ caller'[c].at = "idle"
           /\ caller[c].call # 0 => caller[c].call \in Calls /\ Asked(caller[c].call)
           /\ \A n \in Calls : /\ log'[n].kind = log[n].kind
                               /\ log'[n].result = log[n].result
                               /\ log'[n].due = log[n].due
                               /\ log'[n].runs = log[n].runs
                               /\ log'[n].cancelled =
                                      IF n = caller[c].call /\ ~AboutToCall(n)
                                      THEN "sure" ELSE log[n].cancelled
<1>1. Types /\ caller[c].at = "cancel"
  BY DEF FuncInv, PlaceInv, CancelSet
<1>2. caller[c].call # 0 => caller[c].call \in Calls /\ Asked(caller[c].call)
  BY <1>1 DEF FuncInv, CallerCalls
<1>3. caller'[c].at = "idle"
  BY CancelSetIs DEF FuncInv, Resting
<1>4. ASSUME NEW n \in Calls
      PROVE  /\ log'[n].kind = log[n].kind /\ log'[n].result = log[n].result
             /\ log'[n].due = log[n].due /\ log'[n].runs = log[n].runs
             /\ log'[n].cancelled = IF n = caller[c].call /\ ~AboutToCall(n)
                                    THEN "sure" ELSE log[n].cancelled
  <2>1. PICK k : k = caller[c].call
    OBVIOUS
  <2>2. log \in [Calls -> Entry] /\ log[n] \in Entry
    BY <1>1 DEF Types
  <2>3. log' = IF k # 0 /\ ~AboutToCall(k)
               THEN [log EXCEPT ![k] = [log[k] EXCEPT !.cancelled = "sure"]] ELSE log
    BY <2>1 DEF CancelSet
  <2>4. n # 0
    BY SizeType
  <2> QED
    BY <2>1, <2>2, <2>3, <2>4 DEF Entry
<1> QED
  BY <1>2, <1>3, <1>4

LEMMA FuncCancelSet ==
    ASSUME FuncInv, NEW c, Callers = {c}, CancelSet(c), PlaceInv'
    PROVE  FuncInv'
<1>1. /\ PlaceInv /\ Numbered /\ CallerCalls /\ Functs /\ Runs /\ caller[c].at = "cancel"
      /\ worker' = worker
  BY DEF FuncInv, CancelSet
<1>2. /\ caller'[c].at = "idle"
      /\ \A n \in Calls : /\ log'[n].kind = log[n].kind /\ log'[n].result = log[n].result
                          /\ log'[n].runs = log[n].runs
                          /\ log'[n].cancelled # log[n].cancelled => Asked(n)
  BY CancelSetLog, SizeType
<1>3. \A i \in Contexts : /\ Used(i)' <=> Used(i)
                          /\ Func(i)' = Func(i)
                          /\ contexts'[i].interval_ms = contexts[i].interval_ms
  BY <1>1, CancelSetIs DEF Used, Func
<1>4. Numbered'
  BY <1>1, <1>2 DEF Numbered, Asked
<1>5. CallerCalls'
  BY <1>1, <1>2 DEF CallerCalls
<1>6. \A i : ~Putting(i) /\ ~Putting(i)'
  BY <1>1, <1>2 DEF Putting
<1>7. Functs'
  BY <1>1, <1>2, <1>3, <1>6 DEF Functs
<1>8. Runs'
  <2>1. worker.at = "release" => worker.idx \in Contexts
    BY <1>1, WorkerHas DEF WorkerHolds
  <2> QED
    BY <1>1, <1>2, <1>3, <2>1 DEF Runs, Functs, Done
<1> QED
  BY <1>4, <1>5, <1>7, <1>8 DEF FuncInv

-----------------------------------------------------------------------------
(* The steps of the worker keep what is in the contexts.                   *)

LEMMA FuncQuiet ==
    ASSUME FuncInv, PlaceInv', UNCHANGED <<contexts, caller, log>>,
           worker.at \notin {"ran", "release"}, worker'.at \notin {"ran", "release"}
    PROVE  FuncInv'
  BY DEF FuncInv, Numbered, Asked, CallerCalls, Functs, Runs, Used, Func, Done, Putting

LEMMA FuncReleased ==
    ASSUME FuncInv, PlaceInv', WorkerHolds, contexts' = Released(worker.idx), worker' = Waiting,
           UNCHANGED <<caller, log>>
    PROVE  FuncInv'
<1>0. PICK i : i = worker.idx
  OBVIOUS
<1>1. /\ PlaceInv /\ Types /\ Numbered /\ CallerCalls /\ Functs /\ Runs
      /\ i \in Contexts /\ contexts[i].ref_count = 1 /\ worker'.at = "idle"
  BY <1>0, WorkerHas, WaitingType DEF FuncInv, PlaceInv
<1>2. /\ \A j \in Contexts : j # i => contexts'[j] = contexts[j]
      /\ contexts'[i].ref_count = 0
      /\ \A j \in Contexts : contexts'[j].func = contexts[j].func
  BY <1>0, <1>1, ReleasedIs
<1>3. /\ ~Used(i)' /\ \A j \in Contexts : /\ j # i => (Used(j)' <=> Used(j))
                                          /\ Func(j)' = Func(j)
  BY <1>1, <1>2 DEF Used, Func
<1>4. Numbered'
  BY <1>1 DEF Numbered, Asked
<1>5. CallerCalls'
  BY <1>1, <1>3 DEF CallerCalls, Asked, PlaceInv, CallerPlaces
<1>6. Functs'
  BY <1>1, <1>2, <1>3 DEF Functs, Putting
<1>7. Runs'
  BY <1>0, <1>1, <1>3 DEF Runs, Done
<1> QED
  BY <1>4, <1>5, <1>6, <1>7 DEF FuncInv

LEMMA FuncCheck ==
    ASSUME FuncInv, PlaceInv', Check
    PROVE  FuncInv'
<1>1. WorkerHolds
  BY DEF Check, WorkerHolds
<1>2. CASE contexts[worker.idx].cancelled
  BY <1>1, <1>2, FuncReleased DEF Check
<1>3. CASE ~contexts[worker.idx].cancelled
  <2>1. worker'.at = "run"
    BY <1>3 DEF Check, FuncInv, PlaceInv, Types, Worker
  <2> QED
    BY <1>3, <2>1, FuncQuiet DEF Check
<1> QED
  BY <1>2, <1>3

(* The worker calls the function of an accepted call that it has.          *)
LEMMA RunIs ==
    ASSUME FuncInv, Run
    PROVE  \E i \in Contexts, k \in Calls :
               /\ i = worker.idx /\ Used(i) /\ Func(i) = k /\ log[k].result = "accepted"
               /\ worker'.at = "ran" /\ worker'.idx = i /\ worker'.now = worker.now
               /\ \A n \in Calls : n # k => log'[n] = log[n]
               /\ log'[k].runs = log[k].runs + 1
               /\ log'[k].kind = log[k].kind /\ log'[k].result = log[k].result
               /\ log'[k].due = log[k].due /\ log'[k].cancelled = log[k].cancelled
<1>0. PICK i, k : i = worker.idx /\ k = Func(worker.idx)
  OBVIOUS
<1>1. i \in Contexts /\ Used(i) /\ ~Putting(i)
  BY <1>0, WorkerHas DEF FuncInv, Run, WorkerHolds, Used
<1>2. k \in Calls /\ log[k].result = "accepted"
  BY <1>0, <1>1 DEF FuncInv, Functs
<1>3. log \in [Calls -> Entry] /\ log[k] \in Entry
  BY <1>2 DEF FuncInv, PlaceInv, Types
<1>4. log' = [log EXCEPT ![k] = [log[k] EXCEPT !.runs = log[k].runs + 1]]
  BY <1>0 DEF Run, Func
<1>5. worker'.at = "ran" /\ worker'.idx = i /\ worker'.now = worker.now
  BY <1>0 DEF Run, FuncInv, PlaceInv, Types, Worker
<1> QED
  BY <1>0, <1>1, <1>2, <1>3, <1>4, <1>5 DEF Entry

LEMMA FuncRun ==
    ASSUME FuncInv, PlaceInv', Run
    PROVE  FuncInv'
<1>1. PICK i \in Contexts, k \in Calls :
          /\ i = worker.idx /\ Used(i) /\ Func(i) = k /\ log[k].result = "accepted"
          /\ worker'.at = "ran" /\ worker'.idx = i
          /\ \A n \in Calls : n # k => log'[n] = log[n]
          /\ log'[k].runs = log[k].runs + 1
          /\ log'[k].kind = log[k].kind /\ log'[k].result = log[k].result
          /\ log'[k].cancelled = log[k].cancelled
  BY RunIs
<1>2. /\ Numbered /\ CallerCalls /\ Functs /\ Runs /\ worker.at = "run"
      /\ contexts' = contexts /\ caller' = caller
  BY DEF FuncInv, Run
<1>3. \A j \in Contexts : j # i /\ Used(j) => Func(j) \in Calls /\ Func(j) # k
  BY <1>1, <1>2 DEF Functs
<1>4. Numbered'
  BY <1>1, <1>2 DEF Numbered, Asked
<1>5. CallerCalls'
  BY <1>1, <1>2 DEF CallerCalls, Asked, Func
<1>6. Functs'
  BY <1>1, <1>2, <1>3 DEF Functs, Used, Func, Putting
<1>7. Runs'
  <2>1. log[k].kind # "interval" => log[k].runs = 0
    BY <1>1, <1>2 DEF Runs, Done
  <2> QED
    BY <1>1, <1>2, <1>3, <2>1 DEF Runs, Used, Func, Done
<1> QED
  BY <1>4, <1>5, <1>6, <1>7 DEF FuncInv

LEMMA FuncAgain ==
    ASSUME FuncInv, PlaceInv', Again
    PROVE  FuncInv'
<1>0. PICK i : i = worker.idx
  OBVIOUS
<1>1. /\ PlaceInv /\ Numbered /\ CallerCalls /\ Functs /\ Runs
      /\ i \in Contexts /\ Used(i) /\ contexts[i].interval_ms > 0
      /\ worker'.at = "idle" /\ caller' = caller /\ log' = log
  BY <1>0, WorkerHas, WaitingType DEF FuncInv, Again, WorkerHolds, Used
<1>2. \A j \in Contexts : /\ Used(j)' <=> Used(j)
                          /\ Func(j)' = Func(j)
                          /\ contexts'[j].interval_ms = contexts[j].interval_ms
  BY <1>1, AgainIs DEF Used, Func
<1>3. log[Func(i)].kind = "interval"
  BY <1>1 DEF Functs
<1>4. Numbered'
  BY <1>1 DEF Numbered, Asked
<1>5. CallerCalls'
  BY <1>1, <1>2 DEF CallerCalls, Asked, PlaceInv, CallerPlaces
<1>6. Functs'
  BY <1>1, <1>2 DEF Functs, Putting
<1>7. Runs'
  BY <1>0, <1>1, <1>2, <1>3 DEF Runs, Done
<1> QED
  BY <1>4, <1>5, <1>6, <1>7 DEF FuncInv

LEMMA FuncSetStatus ==
    ASSUME FuncInv, PlaceInv', SetStatus
    PROVE  FuncInv'
<1>0. PICK i : i = worker.idx
  OBVIOUS
<1>1. /\ PlaceInv /\ Numbered /\ CallerCalls /\ Functs /\ Runs
      /\ i \in Contexts /\ Used(i) /\ contexts[i].interval_ms <= 0
      /\ worker.at = "ran" /\ worker'.at = "release" /\ worker'.idx = i
      /\ caller' = caller /\ log' = log
  BY <1>0, WorkerHas DEF FuncInv, PlaceInv, Types, Worker, SetStatus, WorkerHolds, Used
<1>2. \A j \in Contexts : /\ Used(j)' <=> Used(j)
                          /\ Func(j)' = Func(j)
                          /\ contexts'[j].interval_ms = contexts[j].interval_ms
  BY <1>1, SetStatusIs DEF Used, Func
<1>3. Numbered'
  BY <1>1 DEF Numbered, Asked
<1>4. CallerCalls'
  BY <1>1, <1>2 DEF CallerCalls, Asked, PlaceInv, CallerPlaces
<1>5. Functs'
  BY <1>1, <1>2 DEF Functs, Putting
<1>6. Runs'
  BY <1>0, <1>1, <1>2 DEF Runs, Done
<1> QED
  BY <1>3, <1>4, <1>5, <1>6 DEF FuncInv

-----------------------------------------------------------------------------
LEMMA FuncInit == Init => FuncInv
<1> SUFFICES ASSUME Init PROVE FuncInv
  OBVIOUS
<1>1. \A i \in Contexts : ~Used(i)
  BY DEF Init, Used, Free
<1>2. /\ \A k \in Calls : log[k].result = "none" /\ log[k].runs = 0 /\ log[k].cancelled = "no"
      /\ \A c \in Callers : caller[c].at = "idle"
      /\ worker.at = "idle"
  BY DEF Init, NoCall, Resting, Waiting
<1>3. Numbered
  <2>1. 0 \in 0 .. MaxCalls /\ \A k \in Calls : ~(k <= 0)
    BY SizeType DEF Calls
  <2> QED
    BY <1>2, <2>1 DEF Numbered, Asked
<1>4. CallerCalls /\ Functs /\ Runs
  BY <1>1, <1>2 DEF CallerCalls, Functs, Runs
<1> QED
  BY <1>3, <1>4, PlaceInit DEF FuncInv

LEMMA QuietSteps ==
    ASSUME PlaceInv, Process \/ PopLater \/ SortDue \/ SortLater \/ Pop \/ Tick
    PROVE  /\ UNCHANGED <<contexts, caller, log>>
           /\ worker.at \in {"idle", "delayed", "sort", "pop"} \/ worker' = worker
           /\ worker'.at \in {"idle", "delayed", "sort", "pop", "check"} \/ worker' = worker
<1>1. worker \in Worker /\ Waiting \in Worker
  BY WaitingType DEF PlaceInv, Types
<1>2. CASE Process
  BY <1>1, <1>2 DEF Process, Worker
<1>3. CASE PopLater
  BY <1>1, <1>3 DEF PopLater, Worker
<1>4. CASE SortDue
  BY <1>1, <1>4, SortDueIs DEF SortDue, Worker
<1>5. CASE SortLater
  BY <1>1, <1>5 DEF SortLater, Worker
<1>6. CASE Pop
  BY <1>1, <1>6, WaitingType DEF Pop, Worker
<1>7. CASE Tick
  BY <1>7 DEF Tick
<1> QED
  BY <1>2, <1>3, <1>4, <1>5, <1>6, <1>7

LEMMA FuncSame ==
    ASSUME FuncInv, PlaceInv', UNCHANGED <<contexts, caller, worker, log>>
    PROVE  FuncInv'
  BY DEF FuncInv, Numbered, Asked, CallerCalls, Functs, Runs, Used, Func, Done, Putting

LEMMA FuncStep ==
    ASSUME OneCaller, FuncInv, [Next]_vars
    PROVE  FuncInv'
<1>1. PlaceInv /\ PlaceInv'
  BY PlaceStep DEF FuncInv
<1>2. ASSUME NEW c \in Callers, Calling(c) \/ Finishing(c) PROVE FuncInv'
  <2>1. Callers = {c}
    BY DEF OneCaller
  <2> QED
    BY <1>1, <1>2, <2>1, CallerSteps, FuncFind, FuncCancel, FuncFill, FuncPut, FuncWaitEnds,
       FuncCancelSet
<1>3. CASE Process \/ PopLater \/ SortDue \/ SortLater \/ Pop \/ Tick
  BY <1>1, <1>3, QuietSteps, FuncQuiet, FuncSame
<1>4. CASE Release
  BY <1>1, <1>4, FuncReleased DEF Release, WorkerHolds
<1>5. CASE Check \/ Run \/ Again \/ SetStatus
  BY <1>1, <1>5, FuncCheck, FuncRun, FuncAgain, FuncSetStatus
<1>6. CASE UNCHANGED vars
  BY <1>1, <1>6, FuncSame DEF vars
<1> QED
  BY <1>2, <1>3, <1>4, <1>5, <1>6 DEF Next, Processing

(* With one calling thread the contexts in use hold different calls, which *)
(* were accepted or are about to be, with the interval they were given and *)
(* as many calls of their function as the place they are in says.          *)
THEOREM FuncInvariant ==
    ASSUME OneCaller
    PROVE  Spec => []FuncInv
<1>1. FuncInv /\ [Next]_vars => FuncInv'
  BY FuncStep
<1> QED
  BY <1>1, FuncInit, PTL DEF Spec

(* With one calling thread a function that is not to be repeated is called *)
(* once at most, and one that was refused is never called.                 *)
THEOREM FunctionsCalledOnce ==
    ASSUME OneCaller
    PROVE  Spec => []CalledOnce
<1>1. FuncInv => CalledOnce
  BY DEF FuncInv, Numbered, Runs, CalledOnce
<1> QED
  BY <1>1, FuncInvariant, PTL

-----------------------------------------------------------------------------
(* Cancel.                                                                 *)

(* A call's functions are called by Run only.                              *)
LEMMA RunsChange ==
    ASSUME OneCaller, FuncInv, [Next]_vars, NEW k \in Calls, log'[k].runs # log[k].runs
    PROVE  Run /\ k = Func(worker.idx)
<1>1. PlaceInv
  BY DEF FuncInv
<1>2. ASSUME NEW c \in Callers, Calling(c) \/ Finishing(c) PROVE FALSE
  <2>1. Callers = {c}
    BY DEF OneCaller
  <2>2. ASSUME NEW kind \in Kinds, NEW id \in Int, NEW delay \in Nat, Find(c, kind, id, delay)
        PROVE  FALSE
    <3>1. Numbered
      BY DEF FuncInv
    <3>2. \/ log'[k] = log[k]
          \/ log'[k].runs = 0 /\ ~Asked(k)
      BY <1>1, <2>1, <2>2, <3>1, FindIs
    <3> QED
      BY <3>1, <3>2 DEF Numbered, Asked
  <2>3. CASE \E id \in Int : Cancel(c, id)
    BY <2>1, <2>3, CancelIs
  <2>4. CASE Fill(c)
    BY <2>1, <2>4, FillIs
  <2>5. CASE Put(c)
    BY <2>1, <2>5, PutLog
  <2>6. CASE WaitEnds(c)
    BY <2>6 DEF WaitEnds
  <2>7. CASE CancelSet(c)
    BY <2>1, <2>7, CancelSetLog
  <2> QED
    BY <1>2, <2>2, <2>3, <2>4, <2>5, <2>6, <2>7, CallerSteps
<1>3. CASE Run
  BY <1>3, RunIs
<1> QED
  BY <1>1, <1>2, <1>3
     DEF Next, Processing, Tick, vars, Process, PopLater, SortDue, SortLater, Pop, Check,
         Again, SetStatus, Release

LEMMA CancelInit == Init => CancelInv
<1> SUFFICES ASSUME Init PROVE CancelInv
  OBVIOUS
<1>1. \A i \in Contexts : ~Used(i)
  BY DEF Init, Used, Free
<1>2. \A c \in Callers : caller[c].at = "idle"
  BY DEF Init, Resting
<1> QED
  BY <1>1, <1>2, FuncInit DEF CancelInv, Flags, Cancelling

(* A step after which the same contexts, or fewer, are in use, with the    *)
(* same flags, and the same calls were cancelled.                          *)
LEMMA CancelSame ==
    ASSUME CancelInv, FuncInv', UNCHANGED caller,
           \A i \in Contexts : /\ Used(i)' => Used(i)
                               /\ Func(i)' = Func(i)
                               /\ contexts'[i].cancelled = contexts[i].cancelled,
           \A k \in Calls : log'[k].cancelled = log[k].cancelled,
           \/ worker' = worker
           \/ worker'.at # "run"
           \/ ~contexts[worker'.idx].cancelled
    PROVE  CancelInv'
<1>1. /\ FuncInv /\ Functs /\ Flags /\ Cancelling /\ CallerPlaces
      /\ \A i \in Contexts : Used(i) => Func(i) \in Calls
  BY DEF CancelInv, FuncInv, Functs, PlaceInv
<1>2. Flags'
  BY <1>1 DEF Flags
<1>3. Cancelling'
  BY <1>1 DEF Cancelling, CallerPlaces
<1> QED
  BY <1>2, <1>3 DEF CancelInv

LEMMA CancelFind ==
    ASSUME CancelInv, NEW c, Callers = {c}, NEW kind \in Kinds, NEW id \in Int,
           NEW delay \in Nat, Find(c, kind, id, delay), FuncInv'
    PROVE  CancelInv'
<1>1. /\ PlaceInv /\ Numbered /\ Functs /\ Flags /\ caller[c].at = "idle"
      /\ contexts' = contexts /\ worker' = worker
  BY DEF CancelInv, FuncInv, Find
<1>2. PICK k \in Calls :
          /\ ~Asked(k) /\ \A j \in Calls : j # k => log'[j] = log[j]
          /\ caller' = caller \/ caller'[c].at = "fill"
  BY <1>1, FindIs
<1>3. \A i \in Contexts : Used(i) => Func(i) \in Calls /\ log'[Func(i)] = log[Func(i)]
  BY <1>1, <1>2 DEF Functs, Asked
<1>4. Flags'
  BY <1>1, <1>3 DEF Flags, Used, Func
<1>5. Cancelling'
  BY <1>1, <1>2 DEF Cancelling
<1> QED
  BY <1>4, <1>5 DEF CancelInv

LEMMA CancelFill ==
    ASSUME CancelInv, NEW c, Callers = {c}, Fill(c), FuncInv'
    PROVE  CancelInv'
<1>0. PICK i, k : i = caller[c].idx /\ k = caller[c].call
  OBVIOUS
<1>1. /\ PlaceInv /\ CallerCalls /\ Functs /\ Flags /\ caller[c].at = "fill" /\ worker' = worker
  BY DEF CancelInv, FuncInv, Fill
<1>2. /\ i \in Contexts /\ Used(i)' /\ Func(i)' = k /\ k \in Calls
      /\ \A j \in Contexts : j # i => contexts'[j] = contexts[j]
      /\ \A n \in Calls : log'[n].cancelled = log[n].cancelled
      /\ caller'[c].at = "put" /\ contexts'[i] = Filled(c)
  BY <1>0, FillIs DEF CancelInv
<1>3. ~contexts'[i].cancelled /\ log[k].cancelled = "no"
  BY <1>0, <1>1, <1>2, FilledIs DEF PlaceInv, CallerPlaces, CallerCalls
<1>4. \A j \in Contexts : j # i => /\ Used(j)' <=> Used(j)
                                   /\ Func(j)' = Func(j)
                                   /\ Used(j) => Func(j) \in Calls
  BY <1>1, <1>2 DEF Used, Func, Functs
<1>5. Flags'
  BY <1>1, <1>2, <1>3, <1>4 DEF Flags
<1>6. Cancelling'
  BY <1>1, <1>2 DEF Cancelling
<1> QED
  BY <1>5, <1>6 DEF CancelInv

LEMMA CancelPut ==
    ASSUME CancelInv, NEW c, Callers = {c}, Put(c), FuncInv'
    PROVE  CancelInv'
<1>1. /\ FuncInv /\ Functs /\ Flags /\ worker' = worker
  BY DEF CancelInv, FuncInv, Put
<1>2. /\ contexts' = contexts /\ caller'[c].at # "cancel"
      /\ \A n \in Calls : log'[n].cancelled = log[n].cancelled
  BY <1>1, PutLog
<1>3. Flags'
  BY <1>1, <1>2 DEF Flags, Functs, Used, Func
<1>4. Cancelling'
  BY <1>2 DEF Cancelling
<1> QED
  BY <1>3, <1>4 DEF CancelInv

LEMMA CancelWaitEnds ==
    ASSUME CancelInv, NEW c, Callers = {c}, WaitEnds(c), FuncInv'
    PROVE  CancelInv'
<1>1. caller'[c].at = "idle"
  BY DEF CancelInv, FuncInv, PlaceInv, Types, WaitEnds, Resting
<1>2. Cancelling'
  BY <1>1 DEF Cancelling
<1>3. Flags'
  BY DEF CancelInv, Flags, Used, Func, WaitEnds
<1> QED
  BY <1>2, <1>3 DEF CancelInv

LEMMA CancelCancel ==
    ASSUME CancelInv, NEW c, Callers = {c}, NEW id \in Int, Cancel(c, id), FuncInv'
    PROVE  CancelInv'
<1>1. /\ FuncInv /\ Functs /\ Flags /\ worker' = worker /\ contexts' = contexts
  BY DEF CancelInv, FuncInv, Cancel
<1>2. PICK i \in Contexts, k \in 0 .. MaxCalls :
          /\ Used(i) /\ Func(i) \in Live(id)
          /\ caller'[c].at = "cancel" /\ caller'[c].idx = i /\ caller'[c].call = k
          /\ k # 0 => k \in Calls /\ Live(id) = {k}
          /\ \A n \in Live(id) : n \in Calls
          /\ \A n \in Calls : log'[n].cancelled =
                                  IF n \in Live(id) /\ log[n].cancelled = "no"
                                  THEN "asked" ELSE log[n].cancelled
  BY <1>1, CancelIs
<1>3. Flags'
  BY <1>1, <1>2 DEF Flags, Functs, Used, Func
<1>4. k # 0 => Func(i) = k /\ \A j \in Contexts : Used(j) /\ Func(j) = k => j = i
  BY <1>1, <1>2 DEF Functs
<1>5. Cancelling'
  BY <1>1, <1>2, <1>4 DEF Cancelling, Used, Func
<1> QED
  BY <1>3, <1>5 DEF CancelInv

LEMMA CancelCancelSet ==
    ASSUME CancelInv, NEW c, Callers = {c}, CancelSet(c), FuncInv'
    PROVE  CancelInv'
<1>0. PICK i, k : i = caller[c].idx /\ k = caller[c].call
  OBVIOUS
<1>1. /\ FuncInv /\ PlaceInv /\ Functs /\ Flags /\ Cancelling /\ caller[c].at = "cancel"
      /\ worker' = worker
  BY DEF CancelInv, FuncInv, CancelSet
<1>2. /\ i \in Contexts /\ contexts'[i].cancelled
      /\ \A j \in Contexts : j # i => contexts'[j] = contexts[j]
      /\ \A j \in Contexts : /\ Used(j)' <=> Used(j)
                             /\ Func(j)' = Func(j)
  BY <1>0, <1>1, CancelSetIs DEF Used, Func
<1>3. /\ caller'[c].at = "idle"
      /\ \A n \in Calls : log'[n].cancelled =
                              IF n = k /\ ~AboutToCall(n) THEN "sure" ELSE log[n].cancelled
  BY <1>0, <1>1, CancelSetLog
<1>4. /\ Func(i) \in Calls /\ log[Func(i)].cancelled # "no"
      /\ k # 0 => \A j \in Contexts : Used(j) /\ Func(j) = k => j = i
  BY <1>0, <1>1 DEF Cancelling
<1>5. ASSUME NEW j \in Contexts, Used(j)
      PROVE  /\ contexts'[j].cancelled => log'[Func(j)].cancelled # "no"
             /\ log'[Func(j)].cancelled = "sure" =>
                    contexts'[j].cancelled /\ ~(worker.at = "run" /\ worker.idx = j)
  <2>1. Func(j) \in Calls /\ Func(j) # 0
    BY <1>1, <1>5, SizeType DEF Functs
  <2>2. contexts'[j].cancelled => log'[Func(j)].cancelled # "no"
    BY <1>1, <1>2, <1>3, <1>4, <1>5, <2>1 DEF Flags
  <2>3. CASE Func(j) = k /\ ~AboutToCall(k)
    BY <1>2, <1>4, <1>5, <2>1, <2>2, <2>3 DEF AboutToCall, Func
  <2>4. CASE ~(Func(j) = k /\ ~AboutToCall(k))
    <3>1. log'[Func(j)].cancelled = log[Func(j)].cancelled
      BY <1>3, <2>1, <2>4
    <3> QED
      BY <1>1, <1>2, <1>5, <2>2, <3>1 DEF Flags
  <2> QED
    BY <2>3, <2>4
<1>6. Flags'
  BY <1>1, <1>2, <1>5 DEF Flags
<1>7. Cancelling'
  BY <1>1, <1>3 DEF Cancelling
<1> QED
  BY <1>6, <1>7 DEF CancelInv

LEMMA CancelWorker ==
    ASSUME CancelInv, FuncInv', Check \/ Run \/ Again \/ SetStatus \/ Release
    PROVE  CancelInv'
<1>1. FuncInv /\ PlaceInv
  BY DEF CancelInv, FuncInv
<1>2. WorkerHolds
  BY DEF WorkerHolds, Check, Run, Again, SetStatus, Release
<1>3. ASSUME contexts' = Released(worker.idx), worker' = Waiting, UNCHANGED <<caller, log>>
      PROVE  CancelInv'
  <2>1. worker.idx \in Contexts /\ contexts[worker.idx].ref_count = 1 /\ Types
    BY <1>1, <1>2, WorkerHas DEF PlaceInv
  <2>2. \A i \in Contexts : /\ Used(i)' => Used(i)
                            /\ Func(i)' = Func(i)
                            /\ contexts'[i].cancelled = contexts[i].cancelled
    BY <1>3, <2>1, ReleasedIs DEF Used, Func
  <2> QED
    BY <1>3, <2>2, CancelSame, WaitingType
<1>4. CASE Check
  <2>1. CASE contexts[worker.idx].cancelled
    BY <1>3, <1>4, <2>1 DEF Check
  <2>2. CASE ~contexts[worker.idx].cancelled
    <3>1. worker'.at = "run" /\ worker'.idx = worker.idx
      BY <1>1, <1>4, <2>2 DEF Check, PlaceInv, Types, Worker
    <3>2. UNCHANGED <<contexts, caller, log>>
      BY <1>4, <2>2 DEF Check
    <3> QED
      BY <2>2, <3>1, <3>2, CancelSame DEF Used, Func
  <2> QED
    BY <2>1, <2>2
<1>5. CASE Run
  <2>1. worker'.at = "ran" /\ \A k \in Calls : log'[k].cancelled = log[k].cancelled
    BY <1>1, <1>5, RunIs
  <2> QED
    BY <1>5, <2>1, CancelSame DEF Run, Used, Func
<1>6. CASE Again
  BY <1>1, <1>6, AgainIs, CancelSame, WaitingType DEF Again, Used, Func
<1>7. CASE SetStatus
  <2>1. worker'.at = "release"
    BY <1>1, <1>7 DEF SetStatus, PlaceInv, Types, Worker
  <2> QED
    BY <1>1, <1>7, <2>1, SetStatusIs, CancelSame DEF SetStatus, Used, Func
<1>8. CASE Release
  BY <1>3, <1>8 DEF Release
<1> QED
  BY <1>4, <1>5, <1>6, <1>7, <1>8

LEMMA CancelStep ==
    ASSUME OneCaller, CancelInv, [Next]_vars
    PROVE  CancelInv'
<1>1. FuncInv /\ PlaceInv /\ FuncInv'
  BY FuncStep DEF CancelInv, FuncInv
<1>2. ASSUME NEW c \in Callers, Calling(c) \/ Finishing(c) PROVE CancelInv'
  <2>1. Callers = {c}
    BY DEF OneCaller
  <2> QED
    BY <1>1, <1>2, <2>1, CallerSteps, CancelFind, CancelCancel, CancelFill, CancelPut,
       CancelWaitEnds, CancelCancelSet
<1>3. CASE Process \/ PopLater \/ SortDue \/ SortLater \/ Pop \/ Tick
  <2>1. /\ UNCHANGED <<contexts, caller, log>>
        /\ worker' = worker \/ worker'.at # "run"
    BY <1>1, <1>3, QuietSteps
  <2> QED
    BY <1>1, <2>1, CancelSame DEF Used, Func
<1>4. CASE Check \/ Run \/ Again \/ SetStatus \/ Release
  BY <1>1, <1>4, CancelWorker
<1>5. CASE UNCHANGED vars
  BY <1>1, <1>5, CancelSame DEF vars, Used, Func
<1> QED
  BY <1>2, <1>3, <1>4, <1>5 DEF Next, Processing

(* With one calling thread, once cancel has returned the command that had  *)
(* the id alone is not called again, unless the worker was past its check. *)
THEOREM CancelledIsNotCalled ==
    ASSUME OneCaller
    PROVE  Spec => CancelHolds
<1>1. CancelInv /\ [Next]_vars => CancelInv'
  BY CancelStep
<1>2. CancelInv /\ [Next]_vars =>
          [\A k \in Calls : log[k].cancelled = "sure" => log'[k].runs = log[k].runs]_vars
  <2> SUFFICES ASSUME CancelInv, [Next]_vars, NEW k \in Calls, log[k].cancelled = "sure",
                      log'[k].runs # log[k].runs
               PROVE  FALSE
    OBVIOUS
  <2>1. FuncInv /\ PlaceInv /\ Flags
    BY DEF CancelInv, FuncInv
  <2>2. Run /\ k = Func(worker.idx)
    BY <2>1, RunsChange
  <2>3. worker.idx \in Contexts /\ Used(worker.idx) /\ worker.at = "run"
    BY <2>1, <2>2, WorkerHas DEF Run, WorkerHolds, Used
  <2> QED
    BY <2>1, <2>2, <2>3 DEF Flags
<1> QED
  BY <1>1, <1>2, CancelInit, PTL DEF Spec, CancelHolds

-----------------------------------------------------------------------------
(* Waiting.                                                                *)

LEMMA WaitInit == Init => WaitInv
  BY FuncInit DEF Init, Resting, WaitInv, Waits

(* A step of the worker that keeps functions and answers.                  *)
LEMMA WaitSame ==
    ASSUME WaitInv, FuncInv', UNCHANGED caller,
           \A i \in Contexts : Func(i)' = Func(i) /\ contexts'[i].status = contexts[i].status,
           \A k \in Calls : log'[k].kind = log[k].kind /\ log'[k].runs = log[k].runs
    PROVE  WaitInv'
<1>1. /\ Waits /\ CallerPlaces
      /\ \A c \in Callers : caller[c].at = "wait" => log[caller[c].call].kind = "wait"
  BY DEF WaitInv, Waits, FuncInv, PlaceInv
<1>2. \A c \in Callers : caller[c].at \in {"put", "wait"} =>
          caller[c].idx \in Contexts /\ caller[c].call \in Calls
  BY <1>1 DEF CallerPlaces, Waits, WaitInv, FuncInv, CallerCalls
<1> QED
  BY <1>1, <1>2 DEF Waits, WaitInv

LEMMA WaitCaller ==
    ASSUME WaitInv, FuncInv', NEW c, Callers = {c}, Calling(c) \/ Finishing(c)
    PROVE  WaitInv'
<1>1. FuncInv /\ PlaceInv /\ CallerPlaces /\ Waits
  BY DEF WaitInv, FuncInv, PlaceInv
<1>2. ASSUME NEW kind \in Kinds, NEW id \in Int, NEW delay \in Nat, Find(c, kind, id, delay)
      PROVE  WaitInv'
  <2>1. Numbered /\ caller[c].at = "idle"
    BY <1>1, <1>2 DEF FuncInv, Find
  <2>2. caller' = caller \/ caller'[c].at = "fill"
    BY <1>1, <1>2, <2>1, FindIs
  <2> QED
    BY <2>1, <2>2 DEF WaitInv, Waits
<1>3. ASSUME NEW id \in Int, Cancel(c, id) PROVE WaitInv'
  <2>1. caller'[c].at = "cancel"
    BY <1>1, <1>3, CancelIs
  <2> QED
    BY <2>1 DEF WaitInv, Waits
<1>4. CASE Fill(c)
  <2>1. PICK i, k : i = caller[c].idx /\ k = caller[c].call
    OBVIOUS
  <2>2. /\ i \in Contexts /\ k \in Calls /\ Func(i)' = k /\ contexts'[i] = Filled(c)
        /\ caller'[c].at = "put" /\ caller'[c].idx = i /\ caller'[c].call = k
    BY <1>1, <1>4, <2>1, FillIs
  <2>3. ~Filled(c).status
    BY <1>1, <1>4, <2>1, <2>2, FilledIs DEF Fill, PlaceInv, CallerPlaces
  <2> QED
    BY <2>2, <2>3 DEF WaitInv, Waits
<1>5. CASE Put(c)
  <2>1. PICK i, k : i = caller[c].idx /\ k = caller[c].call
    OBVIOUS
  <2>2. /\ k \in Calls /\ contexts' = contexts /\ Func(i) = k
        /\ caller'[c].at = IF log[k].kind = "wait" THEN "wait" ELSE "idle"
        /\ caller'[c].at = "wait" => caller'[c].idx = i /\ caller'[c].call = k
        /\ log'[k].kind = log[k].kind /\ log'[k].runs = log[k].runs
    BY <1>1, <1>5, <2>1, PutLog
  <2>3. caller[c].at = "put"
    BY <1>5 DEF Put
  <2> QED
    BY <1>1, <2>1, <2>2, <2>3 DEF WaitInv, Waits, Func
<1>6. CASE WaitEnds(c)
  <2>1. caller'[c].at = "idle"
    BY <1>1, <1>6 DEF PlaceInv, Types, WaitEnds, Resting
  <2> QED
    BY <2>1 DEF WaitInv, Waits
<1>7. CASE CancelSet(c)
  <2>1. caller'[c].at = "idle"
    BY <1>1, <1>7, CancelSetLog
  <2> QED
    BY <2>1 DEF WaitInv, Waits
<1>8. c \in Callers
  OBVIOUS
<1> QED
  BY <1>2, <1>3, <1>4, <1>5, <1>6, <1>7, <1>8, CallerSteps

LEMMA WaitWorker ==
    ASSUME WaitInv, FuncInv', Check \/ Run \/ Again \/ SetStatus \/ Release
    PROVE  WaitInv'
<1>1. /\ FuncInv /\ PlaceInv /\ Waits /\ Functs /\ Runs /\ CallerPlaces
  BY DEF WaitInv, FuncInv, PlaceInv
<1>2. WorkerHolds
  BY DEF WorkerHolds, Check, Run, Again, SetStatus, Release
<1>3. PICK i \in Contexts : i = worker.idx /\ contexts[i].ref_count = 1 /\ Used(i)
  BY <1>1, <1>2, WorkerHas DEF Used
<1>4. CASE Check \/ Release
  <2>1. /\ contexts' = contexts \/ contexts' = Released(i)
        /\ UNCHANGED <<caller, log>>
    BY <1>3, <1>4 DEF Check, Release
  <2>2. \A j \in Contexts : Func(j)' = Func(j) /\ contexts'[j].status = contexts[j].status
    BY <1>1, <1>3, <2>1, ReleasedIs DEF Func, PlaceInv
  <2> QED
    BY <2>1, <2>2, WaitSame
<1>5. CASE Run
  <2>1. PICK k \in Calls :
            /\ Func(i) = k /\ log'[k].kind = log[k].kind
            /\ \A n \in Calls : n # k => log'[n] = log[n]
    BY <1>1, <1>3, <1>5, RunIs
  <2>2. log[k].kind # "interval" => log[k].runs = 0
    BY <1>1, <1>3, <1>5, <2>1 DEF Runs, Done, Run
  <2>3. contexts' = contexts /\ caller' = caller
    BY <1>5 DEF Run
  <2>4. \A n \in Calls : log'[n].kind = log[n].kind
    BY <2>1
  <2>5. ASSUME NEW c \in Callers, caller[c].at \in {"put", "wait"},
               log[caller[c].call].kind = "wait", contexts[caller[c].idx].status
        PROVE  log'[caller[c].call].runs = 1
    BY <1>1, <2>1, <2>2, <2>5 DEF Waits
  <2>6. \A c \in Callers : caller[c].at \in {"put", "wait"} => caller[c].call \in Calls
    BY <1>1 DEF FuncInv, CallerCalls, Waits
  <2>7. Waits'
    BY <1>1, <2>3, <2>4, <2>5, <2>6 DEF Waits, Func
  <2> QED
    BY <2>7 DEF WaitInv
<1>6. CASE Again
  BY <1>1, <1>6, AgainIs, WaitSame DEF Again, Func
<1>7. CASE SetStatus
  <2>1. /\ \A j \in Contexts : j # i => contexts'[j] = contexts[j]
        /\ \A j \in Contexts : Func(j)' = Func(j)
        /\ UNCHANGED <<caller, log>> /\ worker.at = "ran"
    BY <1>1, <1>3, <1>7, SetStatusIs DEF Func, SetStatus
  <2>2. log[Func(i)].kind # "interval" => log[Func(i)].runs = 1
    BY <1>1, <1>3, <2>1 DEF Runs, Done
  <2>3. \A c \in Callers : caller[c].at \in {"put", "wait"} => caller[c].idx \in Contexts
    BY <1>1 DEF CallerPlaces
  <2>4. Waits'
    BY <1>1, <2>1, <2>2, <2>3 DEF Waits
  <2> QED
    BY <2>4 DEF WaitInv
<1> QED
  BY <1>4, <1>5, <1>6, <1>7

LEMMA WaitStep ==
    ASSUME OneCaller, WaitInv, [Next]_vars
    PROVE  WaitInv'
<1>1. FuncInv /\ PlaceInv /\ FuncInv'
  BY FuncStep DEF WaitInv, FuncInv
<1>2. ASSUME NEW c \in Callers, Calling(c) \/ Finishing(c) PROVE WaitInv'
  <2>1. Callers = {c}
    BY DEF OneCaller
  <2> QED
    BY <1>1, <1>2, <2>1, WaitCaller
<1>3. CASE Process \/ PopLater \/ SortDue \/ SortLater \/ Pop \/ Tick
  <2>1. UNCHANGED <<contexts, caller, log>>
    BY <1>1, <1>3, QuietSteps
  <2> QED
    BY <1>1, <2>1, WaitSame DEF Func
<1>4. CASE UNCHANGED vars
  BY <1>1, <1>4, WaitSame DEF vars, Func
<1> QED
  BY <1>1, <1>2, <1>3, <1>4, WaitWorker DEF Next, Processing

(* With one calling thread, execute_async with wait returns only after its *)
(* function was called, once: the status it polls is that of its own call. *)
THEOREM WaitReturnsAfterCall ==
    ASSUME OneCaller
    PROVE  Spec => WaitMeansDone
<1>1. WaitInv /\ [Next]_vars => WaitInv'
  BY WaitStep
<1>2. WaitInv /\ [Next]_vars =>
          [\A c \in Callers : caller[c].at = "wait" /\ caller'[c].at = "idle"
               => log[caller[c].call].runs = 1]_vars
  <2> SUFFICES ASSUME WaitInv, [Next]_vars, NEW c \in Callers,
                      caller[c].at = "wait", caller'[c].at = "idle"
               PROVE  log[caller[c].call].runs = 1
    OBVIOUS
  <2>1. FuncInv /\ PlaceInv /\ Waits /\ Callers = {c}
    BY DEF WaitInv, FuncInv, OneCaller
  <2>2. WaitEnds(c)
    <3>1. caller' # caller
      OBVIOUS
    <3>2. Calling(c) \/ Finishing(c)
      BY <2>1, <3>1 DEF Next, Processing, Tick, vars, Process, PopLater, SortDue, SortLater,
                        Pop, Check, Run, Again, SetStatus, Release
    <3> QED
      BY <3>2 DEF Calling, Finishing, Find, Cancel, Fill, Put, CancelSet
  <2> QED
    BY <2>1, <2>2 DEF WaitEnds, Waits
<1> QED
  BY <1>1, <1>2, WaitInit, PTL DEF Spec, WaitMeansDone

-----------------------------------------------------------------------------
(* Delays, while the clock does not wrap.                                  *)

LEMMA NowIsClock ==
    ASSUME Horizon < ClockSize, Types, clock <= Horizon
    PROVE  nowMs = clock
<1>1. clock \in Nat /\ clock < ClockSize /\ ClockSize \in Nat /\ Horizon \in Nat
  BY SizeType DEF Types
<1> QED
  BY <1>1 DEF nowMs

LEMMA DueInit == Init => DueInv
<1> SUFFICES ASSUME Init PROVE DueInv
  OBVIOUS
<1>1. \A i \in Contexts : ~Used(i)
  BY DEF Init, Used, Free
<1>2. clock = 0 /\ worker.now = 0 /\ \A c \in Callers : caller[c].at = "idle"
  BY DEF Init, Waiting, Resting
<1> QED
  BY <1>1, <1>2, FuncInit, SizeType DEF DueInv, Dues

(* A step that keeps the clock, the contexts in use, or fewer, with their  *)
(* times, and what is to be called later.                                  *)
LEMMA DueSame ==
    ASSUME DueInv, FuncInv', UNCHANGED <<clock, caller>>, worker'.now <= clock,
           \A i \in Contexts : /\ Used(i)' => Used(i)
                               /\ Func(i)' = Func(i),
           \A i \in Contexts : Used(i) /\ clock < log[Func(i)].due =>
               /\ contexts'[i].scheduled_ms = contexts[i].scheduled_ms
               /\ \/ In(later, i) \/ (worker.at = "sort" /\ worker.idx = i)
                  => In(later, i)' \/ (worker.at = "sort" /\ worker.idx = i)',
           \A k \in Calls : log'[k].kind = log[k].kind /\ log'[k].due = log[k].due
    PROVE  DueInv'
<1>1. /\ Dues /\ Functs /\ CallerCalls
  BY DEF DueInv, FuncInv
<1>2. \A i : Putting(i)' <=> Putting(i)
  BY DEF Putting
<1>3. ASSUME NEW i \in Contexts, Used(i)', clock < log'[Func(i)].due
      PROVE  /\ log'[Func(i)].due <= contexts'[i].scheduled_ms
             /\ \/ In(later, i)'
                \/ (worker.at = "sort" /\ worker.idx = i)'
                \/ Putting(i)' /\ Delayed(log'[Func(i)].kind)
  <2>1. Used(i) /\ Func(i) \in Calls /\ clock < log[Func(i)].due
    BY <1>1, <1>3 DEF Functs
  <2> QED
    BY <1>1, <1>2, <1>3, <2>1 DEF Dues, Delayed
<1>4. \A c \in Callers : caller[c].at = "fill" => caller[c].call \in Calls
  BY <1>1 DEF CallerCalls
<1>5. Dues'
  BY <1>1, <1>3, <1>4 DEF Dues, Delayed
<1> QED
  BY <1>5 DEF DueInv

LEMMA DueFind ==
    ASSUME DueInv, FuncInv', NEW c, Callers = {c}, NEW kind \in Kinds, NEW id \in Int,
           NEW delay \in Nat, Find(c, kind, id, delay),
           ~Delayed(kind) => delay = 0, Delayed(kind) => delay \in Delays
    PROVE  DueInv'
<1>1. /\ FuncInv /\ PlaceInv /\ Numbered /\ Functs /\ Dues /\ caller[c].at = "idle"
      /\ clock <= LastCall /\ UNCHANGED <<contexts, later, worker, clock>>
  BY DEF DueInv, FuncInv, Find
<1>2. PICK k \in Calls :
          /\ ~Asked(k) /\ log'[k].kind = kind
          /\ \A j \in Calls : j # k => log'[j] = log[j]
          /\ \/ caller' = caller
             \/ caller'[c].at = "fill" /\ caller'[c].call = k /\ caller'[c].delay = delay
  BY <1>1, FindIs
<1>3. \A i \in Contexts : Used(i) => Func(i) \in Calls /\ log'[Func(i)] = log[Func(i)]
  BY <1>1, <1>2 DEF Functs, Asked
<1>4. \A i : ~Putting(i)
  BY <1>1 DEF Putting
<1>5. ASSUME NEW i \in Contexts, Used(i), clock < log[Func(i)].due
      PROVE  /\ log[Func(i)].due <= contexts[i].scheduled_ms
             /\ In(later, i) \/ (worker.at = "sort" /\ worker.idx = i)
  BY <1>1, <1>4, <1>5 DEF Dues
<1>6. Delayed(kind) => LastCall + delay <= Horizon
  BY QueueAssumption
<1>7. \A d \in Callers : caller'[d].at = "fill" =>
          /\ clock <= LastCall
          /\ IF Delayed(log'[caller'[d].call].kind)
             THEN LastCall + caller'[d].delay <= Horizon ELSE caller'[d].delay = 0
  BY <1>1, <1>2, <1>6
<1>8. Dues'
  BY <1>1, <1>3, <1>5, <1>7 DEF Dues, Used, Func
<1> QED
  BY <1>8 DEF DueInv

LEMMA DueFill ==
    ASSUME Horizon < ClockSize, DueInv, FuncInv', NEW c, Callers = {c}, Fill(c)
    PROVE  DueInv'
<1>0. PICK i, k : i = caller[c].idx /\ k = caller[c].call
  OBVIOUS
<1>1. /\ FuncInv /\ PlaceInv /\ Types /\ CallerCalls /\ Functs /\ Dues /\ caller[c].at = "fill"
      /\ UNCHANGED <<later, worker, clock>>
  BY DEF DueInv, FuncInv, PlaceInv, Fill
<1>2. /\ i \in Contexts /\ Func(i)' = k /\ k \in Calls /\ ~Used(i)
      /\ \A j \in Contexts : j # i => contexts'[j] = contexts[j]
      /\ log'[k].due = clock + caller[c].delay
      /\ \A n \in Calls : n # k => log'[n] = log[n]
      /\ log'[k].kind = log[k].kind /\ log[k].result = "pending"
      /\ caller'[c].at = "put" /\ caller'[c].idx = i /\ contexts'[i] = Filled(c)
  BY <1>0, <1>1, FillIs
<1>3. /\ clock \in Nat /\ caller[c].delay \in Nat
      /\ clock <= LastCall /\ clock <= Horizon
      /\ IF Delayed(log[k].kind) THEN LastCall + caller[c].delay <= Horizon
                                 ELSE caller[c].delay = 0
  <2>1. caller[c] \in Caller
    BY <1>1 DEF Types
  <2> QED
    BY <1>0, <1>1, <2>1 DEF Types, Caller, Dues
<1>4. Filled(c).scheduled_ms = IF Delayed(log[k].kind)
                               THEN (clock + caller[c].delay) % ClockSize ELSE 0
  BY <1>0, <1>1, <1>3, FilledIs, NowIsClock DEF PlaceInv, CallerPlaces
<1>5. clock < log'[k].due => Delayed(log[k].kind) /\ log'[k].due <= contexts'[i].scheduled_ms
  <2>1. ASSUME clock < log'[k].due
        PROVE  Delayed(log[k].kind) /\ clock + caller[c].delay < ClockSize
    BY <1>2, <1>3, <2>1, SizeType
  <2>2. \A n \in Nat : n < ClockSize => n % ClockSize = n
    BY SizeType
  <2>3. clock + caller[c].delay \in Nat
    BY <1>3
  <2> QED
    BY <1>2, <1>4, <2>1, <2>2, <2>3
<1>6. Putting(i)'
  BY <1>1, <1>2 DEF Putting
<1>7. ASSUME NEW j \in Contexts, j # i, Used(j)'
      PROVE  /\ Used(j) /\ Func(j)' = Func(j) /\ Func(j) \in Calls /\ ~Putting(j)
             /\ log'[Func(j)] = log[Func(j)]
  <2>1. Used(j) /\ Func(j)' = Func(j) /\ ~Putting(j)
    BY <1>0, <1>1, <1>2, <1>7 DEF Used, Func, Putting
  <2>2. Func(j) \in Calls /\ Func(j) # k
    BY <1>1, <1>2, <2>1 DEF Functs
  <2> QED
    BY <1>2, <2>1, <2>2
<1>8. ASSUME NEW j \in Contexts, Used(j)', clock < log'[Func(j)'].due
      PROVE  /\ log'[Func(j)'].due <= contexts'[j].scheduled_ms
             /\ \/ In(later, j)
                \/ worker.at = "sort" /\ worker.idx = j
                \/ Putting(j)' /\ Delayed(log'[Func(j)'].kind)
  <2>1. CASE j = i
    BY <1>2, <1>5, <1>6, <1>8, <2>1
  <2>2. CASE j # i
    BY <1>1, <1>2, <1>7, <1>8, <2>2 DEF Dues
  <2> QED
    BY <2>1, <2>2
<1>9. Dues'
  BY <1>1, <1>2, <1>3, <1>8 DEF Dues
<1> QED
  BY <1>9 DEF DueInv

LEMMA DuePut ==
    ASSUME DueInv, FuncInv', NEW c, Callers = {c}, Put(c)
    PROVE  DueInv'
<1>0. PICK i, k : i = caller[c].idx /\ k = caller[c].call
  OBVIOUS
<1>1. /\ FuncInv /\ PlaceInv /\ Types /\ Functs /\ Dues /\ caller[c].at = "put"
      /\ UNCHANGED <<worker, clock>>
  BY DEF DueInv, FuncInv, PlaceInv, Put
<1>2. /\ k \in Calls /\ i \in Contexts /\ Func(i) = k /\ contexts' = contexts
      /\ caller'[c].at # "fill"
      /\ \A n \in Calls : log'[n].kind = log[n].kind /\ log'[n].due = log[n].due
  BY <1>0, <1>1, PutLog
<1>3. /\ \A j : In(later, j) => In(later', j)
      /\ Delayed(log[k].kind) => In(later', i)
  <2>1. \A j : In(Append(later, i), j) <=> In(later, j) \/ j = i
    BY <1>1, <1>2, AppendIn DEF Types
  <2>2. IF Delayed(log[k].kind) THEN later' = Append(later, i) ELSE later' = later
    BY <1>0, <1>1, PutIs
  <2>3. CASE Delayed(log[k].kind)
    BY <2>1, <2>2, <2>3
  <2>4. CASE ~Delayed(log[k].kind)
    BY <2>2, <2>4
  <2> QED
    BY <2>3, <2>4
<1>4. \A j : Putting(j) => j = i
  BY <1>0, <1>1 DEF Putting
<1>5. ASSUME NEW j \in Contexts, Used(j), clock < log[Func(j)].due
      PROVE  /\ log[Func(j)].due <= contexts[j].scheduled_ms
             /\ In(later', j) \/ (worker.at = "sort" /\ worker.idx = j)
  BY <1>1, <1>2, <1>3, <1>4, <1>5 DEF Dues
<1>6. \A j \in Contexts : Used(j) => Func(j) \in Calls
  BY <1>1 DEF Functs
<1>7. Dues'
  BY <1>1, <1>2, <1>5, <1>6 DEF Dues, Used, Func
<1> QED
  BY <1>7 DEF DueInv

LEMMA DueOther ==
    ASSUME DueInv, FuncInv', NEW c, Callers = {c},
           WaitEnds(c) \/ CancelSet(c) \/ (\E id \in Int : Cancel(c, id))
    PROVE  DueInv'
<1>1. /\ FuncInv /\ PlaceInv /\ Types /\ Functs /\ Dues
      /\ caller[c].at \notin {"fill", "put"} /\ UNCHANGED <<later, worker, clock>>
  BY DEF DueInv, FuncInv, PlaceInv, WaitEnds, CancelSet, Cancel
<1>2. /\ caller'[c].at # "fill"
      /\ \A k \in Calls : log'[k].kind = log[k].kind /\ log'[k].due = log[k].due
      /\ \A i \in Contexts : /\ Used(i)' <=> Used(i)
                             /\ Func(i)' = Func(i)
                             /\ contexts'[i].scheduled_ms = contexts[i].scheduled_ms
  <2>1. CASE WaitEnds(c)
    BY <1>1, <2>1 DEF WaitEnds, Types, Resting, Used, Func
  <2>2. CASE CancelSet(c)
    BY <1>1, <2>2, CancelSetIs, CancelSetLog DEF Used, Func
  <2>3. ASSUME NEW id \in Int, Cancel(c, id) PROVE <1>2!1 /\ <1>2!2 /\ <1>2!3
    <3>1. contexts' = contexts
      BY <2>3 DEF Cancel
    <3> QED
      BY <1>1, <2>3, <3>1, CancelIs DEF Used, Func
  <2> QED
    BY <2>1, <2>2, <2>3
<1>3. \A i \in Contexts : Used(i) => Func(i) \in Calls /\ ~Putting(i)
  BY <1>1 DEF Functs, Putting
<1>4. Dues'
  BY <1>1, <1>2, <1>3 DEF Dues
<1> QED
  BY <1>4 DEF DueInv

LEMMA DueWorker ==
    ASSUME Horizon < ClockSize, DueInv, FuncInv', Processing
    PROVE  DueInv'
<1>1. /\ FuncInv /\ PlaceInv /\ Types /\ Places /\ Dues
      /\ worker \in Worker /\ worker.now <= clock /\ clock <= Horizon /\ clock \in Nat
      /\ Waiting.now <= clock
  BY WaitingType DEF DueInv, FuncInv, PlaceInv, Types, Dues
<1>2. CASE Process
  <2>1. worker'.at = "delayed" /\ worker'.idx = worker.idx /\ worker'.now = nowMs
    BY <1>1, <1>2 DEF Process, Worker
  <2>2. worker'.now <= clock /\ worker.at # "sort"
    BY <1>1, <1>2, <2>1, NowIsClock DEF Process
  <2> QED
    BY <1>2, <2>2, DueSame DEF Process, Used, Func
<1>3. CASE PopLater
  <2>1. UNCHANGED <<contexts, caller, clock, log>> /\ worker.at = "delayed"
    BY <1>3 DEF PopLater
  <2>2. CASE later' = later /\ worker' = [worker EXCEPT !.at = "pop"]
    <3>1. worker'.now = worker.now
      BY <1>1, <2>2 DEF Worker
    <3> QED
      BY <1>1, <2>1, <2>2, <3>1, DueSame DEF Used, Func
  <2>3. CASE later # <<>> /\ later' = Tail(later)
             /\ worker' = [worker EXCEPT !.at = "sort", !.idx = Head(later)]
    <3>1. worker'.now = worker.now /\ worker'.at = "sort" /\ worker'.idx = Head(later)
      BY <1>1, <2>3 DEF Worker
    <3>2. \A j : In(later, j) => j = Head(later) \/ In(later', j)
      BY <1>1, <2>3, TailIn DEF Types, Places
    <3> QED
      BY <1>1, <2>1, <3>1, <3>2, DueSame DEF Used, Func
  <2> QED
    BY <1>3, <2>2, <2>3 DEF PopLater
<1>4. CASE SortDue
  <2>1. PICK i \in Contexts : i = worker.idx /\ contexts[i].ref_count = 1 /\ ~In(later, i) /\ ~Putting(i)
    BY <1>1, <1>4, WorkerHas DEF SortDue, WorkerHolds
  <2>2. ~(clock < log[Func(i)].due)
    <3>1. Func(i) \in Calls /\ Used(i)
      BY <1>1, <2>1 DEF FuncInv, Functs, Used
    <3>2. log[Func(i)].due \in Nat /\ contexts[i].scheduled_ms \in Nat /\ worker.now \in Nat
      BY <1>1, <2>1, <3>1 DEF Types, Entry, Context, Worker
    <3>3. worker.now >= contexts[i].scheduled_ms
      BY <1>4, <2>1 DEF SortDue, Due
    <3> QED
      BY <1>1, <2>1, <3>1, <3>2, <3>3 DEF Dues
  <2>3. contexts' = contexts /\ UNCHANGED <<later, caller, clock, log>>
    BY <1>1, <1>4, SortDueIs DEF SortDue
  <2>4. worker'.now = worker.now
    BY <1>1, <1>4 DEF SortDue, Worker
  <2> QED
    BY <1>1, <2>1, <2>2, <2>3, <2>4, DueSame DEF Used, Func
<1>5. CASE SortLater
  <2>1. PICK i \in Contexts : i = worker.idx
    BY <1>1, <1>5, WorkerHas DEF SortLater, WorkerHolds
  <2>2. \A j : In(later', j) <=> In(later, j) \/ j = i
    <3>1. \A j : In(Append(later, i), j) <=> In(later, j) \/ j = i
      BY <1>1, <2>1, AppendIn DEF Types
    <3>2. later' = Append(later, i)
      BY <1>1, <1>5, <2>1, SortLaterIs
    <3> QED
      BY <3>1, <3>2
  <2>3. worker'.now = worker.now
    BY <1>1, <1>5 DEF SortLater, Worker
  <2> QED
    BY <1>1, <1>5, <2>1, <2>2, <2>3, DueSame DEF SortLater, Used, Func
<1>6. CASE Pop
  <2>1. worker'.now = 0
    BY <1>6, WaitingType DEF Pop, Worker
  <2> QED
    BY <1>1, <1>6, <2>1, DueSame DEF Pop, Used, Func
<1>7. CASE Check \/ Release
  <2>1. PICK i \in Contexts : i = worker.idx /\ contexts[i].ref_count = 1
    BY <1>1, <1>7, WorkerHas DEF Check, Release, WorkerHolds
  <2>2. /\ contexts' = contexts \/ contexts' = Released(i)
        /\ UNCHANGED <<later, caller, clock, log>> /\ worker.at # "sort"
    BY <1>7, <2>1 DEF Check, Release
  <2>3. \A j \in Contexts : /\ Used(j)' => Used(j)
                            /\ Func(j)' = Func(j)
                            /\ contexts'[j].scheduled_ms = contexts[j].scheduled_ms
    BY <1>1, <2>1, <2>2, ReleasedIs DEF Used, Func
  <2>4. worker'.now <= clock
    BY <1>1, <1>7 DEF Check, Release, Worker
  <2> QED
    BY <2>2, <2>3, <2>4, DueSame
<1>8. CASE Run
  <2>1. /\ worker'.now = worker.now
        /\ \A n \in Calls : log'[n].kind = log[n].kind /\ log'[n].due = log[n].due
    BY <1>1, <1>8, RunIs
  <2> QED
    BY <1>1, <1>8, <2>1, DueSame DEF Run, Used, Func
<1>9. CASE Again
  <2>1. PICK i \in Contexts : i = worker.idx /\ Used(i) /\ ~In(later, i) /\ ~Putting(i)
    BY <1>1, <1>9, WorkerHas DEF Again, WorkerHolds, Used
  <2>2. worker.at = "ran" /\ worker' = Waiting /\ UNCHANGED <<caller, clock, log>>
    BY <1>9 DEF Again
  <2>3. ~(clock < log[Func(i)].due)
    BY <1>1, <2>1, <2>2 DEF Dues
  <2>4. /\ \A j : In(later', j) <=> In(later, j) \/ j = i
        /\ \A j \in Contexts : j # i => contexts'[j] = contexts[j]
        /\ \A j \in Contexts : /\ Used(j)' <=> Used(j)
                               /\ Func(j)' = Func(j)
    <3>1. \A j : In(Append(later, i), j) <=> In(later, j) \/ j = i
      BY <1>1, <2>1, AppendIn DEF Types
    <3>2. /\ later' = Append(later, i)
          /\ \A j \in Contexts : j # i => contexts'[j] = contexts[j]
          /\ \A j \in Contexts : /\ Used(j)' <=> Used(j)
                                 /\ Func(j)' = Func(j)
      BY <1>1, <1>9, <2>1, AgainIs DEF Used, Func
    <3> QED
      BY <3>1, <3>2
  <2> QED
    BY <1>1, <2>1, <2>2, <2>3, <2>4, DueSame
<1>10. CASE SetStatus
  <2>1. worker'.now = worker.now /\ worker.at = "ran"
    BY <1>1, <1>10 DEF SetStatus, Worker
  <2> QED
    BY <1>1, <1>10, <2>1, SetStatusIs, DueSame DEF SetStatus, Used, Func
<1> QED
  BY <1>2, <1>3, <1>4, <1>5, <1>6, <1>7, <1>8, <1>9, <1>10 DEF Processing

LEMMA DueTick ==
    ASSUME DueInv, FuncInv', Tick
    PROVE  DueInv'
<1>1. /\ FuncInv /\ Types /\ Dues /\ Functs /\ clock \in Nat /\ clock < Horizon
      /\ clock' = clock + 1
      /\ UNCHANGED <<contexts, later, commands, caller, worker, log>>
  BY DEF DueInv, FuncInv, PlaceInv, Types, Tick
<1>2. \A c \in Callers : caller[c].at = "fill" => clock < LastCall
  BY DEF Tick
<1>3. \A i \in Contexts : Used(i) => log[Func(i)].due \in Nat
  BY <1>1 DEF Functs, Types, Entry
<1>4. worker.now \in Nat /\ LastCall \in Nat /\ Horizon \in Nat
  BY <1>1, SizeType DEF Types, Worker
<1>5. \A i \in Contexts : Used(i) /\ clock' < log[Func(i)].due => clock < log[Func(i)].due
  BY <1>1, <1>3
<1>6. \A i : Putting(i)' <=> Putting(i)
  BY <1>1 DEF Putting
<1>7. Dues'
  BY <1>1, <1>2, <1>4, <1>5, <1>6 DEF Dues, Used, Func
<1> QED
  BY <1>7 DEF DueInv

LEMMA DueStep ==
    ASSUME OneCaller, Horizon < ClockSize, DueInv, [Next]_vars
    PROVE  DueInv'
<1>1. FuncInv /\ FuncInv'
  BY FuncStep DEF DueInv
<1>2. ASSUME NEW c \in Callers, Calling(c) \/ Finishing(c) PROVE DueInv'
  <2>1. Callers = {c}
    BY DEF OneCaller
  <2> QED
    BY <1>1, <1>2, <2>1, CallerSteps, DueFind, DueFill, DuePut, DueOther
<1>3. CASE UNCHANGED vars
  BY <1>1, <1>3, DueSame DEF vars, DueInv, Dues, Used, Func
<1> QED
  BY <1>1, <1>2, <1>3, DueWorker, DueTick DEF Next

(* With one calling thread, and while the clock of 32 bits does not wrap,  *)
(* no delayed command is called before its delay is over.                  *)
THEOREM DelaysAreKept ==
    ASSUME OneCaller, Horizon < ClockSize
    PROVE  Spec => NotEarly
<1>1. DueInv /\ [Next]_vars => DueInv'
  BY DueStep
<1>2. DueInv /\ [Next]_vars =>
          [\A k \in Calls : log'[k].runs > log[k].runs => clock >= log[k].due]_vars
  <2> SUFFICES ASSUME DueInv, [Next]_vars, NEW k \in Calls, log'[k].runs > log[k].runs
               PROVE  clock >= log[k].due
    OBVIOUS
  <2>1. FuncInv /\ PlaceInv /\ Types /\ Dues
    BY DEF DueInv, FuncInv, PlaceInv
  <2>2. log[k].runs \in Nat /\ log[k].due \in Nat /\ clock \in Nat
    BY <2>1 DEF Types, Entry
  <2>3. Run /\ k = Func(worker.idx)
    BY <2>1, <2>2, RunsChange
  <2>4. /\ worker.idx \in Contexts /\ Used(worker.idx) /\ worker.at = "run"
        /\ ~In(later, worker.idx) /\ ~Putting(worker.idx)
    BY <2>1, <2>3, WorkerHas DEF Run, WorkerHolds, Used
  <2> QED
    BY <2>1, <2>2, <2>3, <2>4 DEF Dues
<1> QED
  BY <1>1, <1>2, DueInit, PTL DEF Spec, NotEarly

-----------------------------------------------------------------------------
(* The queue implements CommandFifo: what the mapping makes of the state.  *)

AskedMap     == [k \in Calls |-> AskedFor(k)]
CancelledMap == {k \in Calls : log[k].cancelled # "no"}
FifoMap      == [p \in DOMAIN commands |-> Func(commands[p])]
DelayedMap   == {Func(i) : i \in {later[p] : p \in DOMAIN later}
                                 \cup (IF worker.at = "sort" THEN {worker.idx} ELSE {})}
CalledMap    == [k \in Calls |-> log[k].runs]

(* Contexts of delayed commands, and all but the one the caller fills.     *)
Later(i) == In(later, i) \/ (worker.at = "sort" /\ worker.idx = i)
Busy(i)  == In(later, i) \/ In(commands, i) \/ worker.idx = i

Mapped(queue, g) == [p \in DOMAIN queue |-> g[queue[p]]]
FuncOf == [i \in Contexts |-> Func(i)]

LEMMA MappedIs ==
    ASSUME NEW queue \in Seq(Contexts), NEW S, NEW g \in [Contexts -> S]
    PROVE  /\ Mapped(queue, g) \in Seq(S) /\ Len(Mapped(queue, g)) = Len(queue)
           /\ Len(queue) \in Nat
           /\ \A p \in 1 .. Len(queue) : Mapped(queue, g)[p] = g[queue[p]]
<1>1. DOMAIN queue = 1 .. Len(queue) /\ Len(queue) \in Nat
      /\ \A p \in 1 .. Len(queue) : queue[p] \in Contexts
  BY LenProperties
<1>2. Mapped(queue, g) \in [1 .. Len(queue) -> S]
  BY <1>1 DEF Mapped
<1>3. Mapped(queue, g) \in Seq(S)
  BY <1>1, <1>2, SeqDef
<1>4. DOMAIN Mapped(queue, g) = 1 .. Len(Mapped(queue, g)) /\ Len(Mapped(queue, g)) \in Nat
  BY <1>3, LenProperties
<1>5. Len(Mapped(queue, g)) = Len(queue)
  BY <1>1, <1>2, <1>4
<1> QED
  BY <1>1, <1>3, <1>5 DEF Mapped

LEMMA MappedAppend ==
    ASSUME NEW queue \in Seq(Contexts), NEW S, NEW g \in [Contexts -> S], NEW i \in Contexts
    PROVE  Mapped(Append(queue, i), g) = Append(Mapped(queue, g), g[i])
<1> DEFINE s == Mapped(Append(queue, i), g)
           t == Append(Mapped(queue, g), g[i])
           n == Len(queue)
<1>1. /\ Append(queue, i) \in Seq(Contexts) /\ Len(Append(queue, i)) = n + 1 /\ n \in Nat
      /\ \A p \in 1 .. n : Append(queue, i)[p] = queue[p]
      /\ Append(queue, i)[n + 1] = i
  BY AppendProperties, LenProperties
<1>2. /\ s \in Seq(S) /\ Len(s) = n + 1
      /\ \A p \in 1 .. n + 1 : s[p] = g[Append(queue, i)[p]]
  <2>1. PICK longer \in Seq(Contexts) : longer = Append(queue, i)
    BY <1>1
  <2>2. /\ Mapped(longer, g) \in Seq(S) /\ Len(Mapped(longer, g)) = Len(longer)
        /\ \A p \in 1 .. Len(longer) : Mapped(longer, g)[p] = g[longer[p]]
    BY MappedIs
  <2> QED
    BY <1>1, <2>1, <2>2
<1>3. /\ Mapped(queue, g) \in Seq(S) /\ Len(Mapped(queue, g)) = n
      /\ \A p \in 1 .. n : Mapped(queue, g)[p] = g[queue[p]]
  BY MappedIs
<1>4. /\ t \in Seq(S) /\ Len(t) = n + 1
      /\ \A p \in 1 .. n : t[p] = g[queue[p]]
      /\ t[n + 1] = g[i]
  BY <1>3, AppendProperties
<1> HIDE DEF s, t, n
<1>5. \A p \in 1 .. n + 1 : s[p] = t[p]
  <2> TAKE p \in 1 .. n + 1
  <2>1. CASE p = n + 1
    BY <1>1, <1>2, <1>4, <2>1
  <2>2. CASE p \in 1 .. n
    BY <1>1, <1>2, <1>4, <2>2
  <2> QED
    BY <1>1, <2>1, <2>2
<1> QED
  BY <1>2, <1>4, <1>5, SeqEqual DEF s, t

LEMMA MappedTail ==
    ASSUME NEW queue \in Seq(Contexts), queue # <<>>, NEW S, NEW g \in [Contexts -> S]
    PROVE  /\ Mapped(queue, g) # <<>> /\ Head(Mapped(queue, g)) = g[Head(queue)]
           /\ Mapped(Tail(queue), g) = Tail(Mapped(queue, g))
<1> DEFINE m == Mapped(queue, g)
           s == Mapped(Tail(queue), g)
           t == Tail(m)
           n == Len(queue)
<1>1. /\ Tail(queue) \in Seq(Contexts) /\ Len(Tail(queue)) = n - 1 /\ n \in Nat /\ n > 0
      /\ \A p \in 1 .. n - 1 : Tail(queue)[p] = queue[p + 1]
      /\ Head(queue) = queue[1]
  BY HeadTailProperties, LenProperties, EmptySeq
<1>2. /\ s \in Seq(S) /\ Len(s) = n - 1
      /\ \A p \in 1 .. n - 1 : s[p] = g[Tail(queue)[p]]
  <2>1. PICK rest \in Seq(Contexts) : rest = Tail(queue)
    BY <1>1
  <2>2. /\ Mapped(rest, g) \in Seq(S) /\ Len(Mapped(rest, g)) = Len(rest)
        /\ \A p \in 1 .. Len(rest) : Mapped(rest, g)[p] = g[rest[p]]
    BY MappedIs
  <2> QED
    BY <1>1, <2>1, <2>2
<1>3. /\ m \in Seq(S) /\ Len(m) = n
      /\ \A p \in 1 .. n : m[p] = g[queue[p]]
  BY MappedIs
<1>4. m # <<>>
  BY <1>1, <1>3, EmptySeq
<1>5. /\ t \in Seq(S) /\ Len(t) = n - 1
      /\ \A p \in 1 .. n - 1 : t[p] = m[p + 1]
      /\ Head(m) = m[1]
  BY <1>3, <1>4, HeadTailProperties
<1> HIDE DEF m, s, t, n
<1>6. \A p \in 1 .. n - 1 : s[p] = t[p]
  BY <1>1, <1>2, <1>3, <1>5
<1>7. s = t
  BY <1>1, <1>2, <1>5, <1>6, SeqEqual
<1>8. Head(m) = g[Head(queue)]
  BY <1>1, <1>3, <1>5
<1> QED
  BY <1>4, <1>7, <1>8 DEF m, s, t

LEMMA FuncOfType ==
    ASSUME Types
    PROVE  FuncOf \in [Contexts -> 0 .. MaxCalls]
  BY DEF Types, Context, FuncOf, Func

LEMMA FifoMapIs ==
    ASSUME Types
    PROVE  FifoMap = Mapped(commands, FuncOf) /\ Len(FifoMap) = Len(commands)
<1>1. \A p \in DOMAIN commands : commands[p] \in Contexts
  BY LenProperties DEF Types
<1>2. FifoMap = Mapped(commands, FuncOf)
  BY <1>1 DEF FifoMap, Mapped, FuncOf
<1>3. commands \in Seq(Contexts)
  BY DEF Types
<1> QED
  BY <1>2, <1>3, MappedIs, FuncOfType

DelayedAre ==
    /\ \A i : Later(i) => i \in Contexts
    /\ \A k : k \in DelayedMap <=> \E i \in Contexts : Later(i) /\ Func(i) = k

LEMMA DelayedMapIs == PlaceInv => DelayedAre
<1> SUFFICES ASSUME PlaceInv PROVE DelayedAre
  OBVIOUS
<1>1. DOMAIN later = 1 .. Len(later) /\ later \in Seq(Contexts)
  BY LenProperties DEF PlaceInv, Types
<1>2. \A i : i \in {later[p] : p \in DOMAIN later}
                    \cup (IF worker.at = "sort" THEN {worker.idx} ELSE {}) <=> Later(i)
  BY <1>1 DEF Later, In
<1>3. \A i : Later(i) => i \in Contexts
  BY <1>1, InContexts, WorkerHas DEF Later, WorkerHolds
<1> QED
  BY <1>2, <1>3 DEF DelayedMap, DelayedAre

LEMMA DelayedMapIsNext == PlaceInv' => DelayedAre'
  BY DelayedMapIs, PTL

(* With what one step leaves alone, what it leaves alone of the mapping.   *)
LEMMA FifoMapSame ==
    ASSUME Types, Types', commands' = commands,
           \A i \in Contexts : In(commands, i) => Func(i)' = Func(i)
    PROVE  FifoMap' = FifoMap
<1>1. DOMAIN commands = 1 .. Len(commands)
  BY LenProperties DEF Types
<1>2. \A p \in DOMAIN commands : commands[p] \in Contexts /\ In(commands, commands[p])
  BY <1>1, LenProperties DEF Types, In
<1> QED
  BY <1>2 DEF FifoMap, Func

LEMMA DelayedMapSame ==
    ASSUME PlaceInv, PlaceInv',
           \A i \in Contexts : /\ Later(i)' <=> Later(i)
                               /\ Later(i) => Func(i)' = Func(i)
    PROVE  DelayedMap' = DelayedMap
<1>1. \A k : k \in DelayedMap <=> \E i \in Contexts : Later(i) /\ Func(i) = k
  BY DelayedMapIs DEF DelayedAre
<1>2. \A k : k \in DelayedMap' <=> \E i \in Contexts : Later(i)' /\ Func(i)' = k
  BY DelayedMapIsNext DEF DelayedAre
<1>3. \A k : k \in DelayedMap' <=> k \in DelayedMap
  BY <1>1, <1>2
<1> QED
  BY <1>3

LEMMA LogMapSame ==
    ASSUME \A k \in Calls : /\ log'[k].runs = log[k].runs
                            /\ AskedFor(k)' = AskedFor(k)
    PROVE  AskedMap' = AskedMap /\ CalledMap' = CalledMap
  BY DEF AskedMap, CalledMap

(* The commands in use are the contexts that are busy.                     *)
LEMMA TakenIs ==
    ASSUME FuncInv
    PROVE  /\ TakenCall # Fifo!Nothing <=> WorkerHolds /\ worker.at # "sort"
           /\ WorkerHolds /\ worker.at # "sort" =>
                 /\ TakenCall.call = Func(worker.idx) /\ TakenCall.call \in Calls
                 /\ TakenCall.done = (worker.at \in {"ran", "release"})
<1>1. WorkerHolds => Func(worker.idx) \in Calls
  <2> SUFFICES ASSUME WorkerHolds PROVE Func(worker.idx) \in Calls
    OBVIOUS
  <2>1. worker.idx \in Contexts /\ Used(worker.idx)
    BY WorkerHas DEF FuncInv, Used
  <2> QED
    BY <2>1 DEF FuncInv, Functs
<1> QED
  BY <1>1, SizeType DEF TakenCall, Fifo!Nothing, WorkerHolds

LEMMA InUseIs ==
    ASSUME FuncInv
    PROVE  Fifo!InUse = Cardinality({i \in Contexts : Busy(i)})
<1> DEFINE E == {i \in Contexts : In(commands, i)}
           D == {i \in Contexts : Later(i)}
           T == IF WorkerHolds /\ worker.at # "sort" THEN {worker.idx} ELSE {}
           B == {i \in Contexts : Busy(i)}
<1>1. PlaceInv /\ Types /\ Places /\ Functs
  BY DEF FuncInv, PlaceInv
<1>2. /\ IsFiniteSet(E) /\ Cardinality(E) = Len(commands)
  <2>1. \A i : i \in E <=> In(commands, i)
    BY <1>1, InContexts DEF Types
  <2> QED
    BY <1>1, <2>1, LengthIsNumber DEF Types, Places
<1>3. IsFiniteSet(D)
  BY ContextsFinite, FS_Subset
<1>4. /\ IsFiniteSet(T)
      /\ Cardinality(T) = IF TakenCall = Fifo!Nothing THEN 0 ELSE 1
  BY TakenIs, FS_EmptySet, FS_Singleton
<1>5. Cardinality(DelayedMap) = Cardinality(D)
  <2> DEFINE f == [i \in D |-> Func(i)]
  <2>1. \A k : k \in DelayedMap <=> \E i \in D : Func(i) = k
    BY <1>1, DelayedMapIs DEF DelayedAre
  <2>2. \A i \in D : Used(i)
    BY <1>1, UsedIs DEF Held, Later
  <2>3. \A i, j \in D : Func(i) = Func(j) => i = j
    BY <1>1, <2>2 DEF Functs
  <2> HIDE DEF D
  <2>4. f \in [D -> DelayedMap] /\ \A i \in D : f[i] = Func(i)
    BY <2>1
  <2> HIDE DEF f
  <2>5. f \in Bijection(D, DelayedMap)
    BY <2>1, <2>3, <2>4 DEF Bijection, Injection, Surjection, IsInjective
  <2> QED
    BY <1>3, <2>5, FS_Bijection DEF ExistsBijection
<1>6. E \cap D = {} /\ (E \cup D) \cap T = {}
  BY <1>1, SizeType DEF Places, Later, WorkerHolds
<1>7. B = (E \cup D) \cup T
  <2>1. T \subseteq Contexts
    BY <1>1, WorkerHas
  <2>2. \A i \in Contexts : worker.idx = i => i \in T \/ worker.at = "sort"
    BY <1>1, SizeType DEF Places, WorkerHolds
  <2>3. \A i \in T : Busy(i)
    BY DEF Busy
  <2> QED
    BY <2>1, <2>2, <2>3 DEF Busy, Later
<1> HIDE DEF E, D, T, B
<1>8. IsFiniteSet(E \cup D) /\ Cardinality(E \cup D) = Cardinality(E) + Cardinality(D)
  <2>1. Cardinality(E) \in Nat /\ Cardinality(D) \in Nat
    BY <1>2, <1>3, FS_CardinalityType
  <2>2. /\ IsFiniteSet(E \cup D)
        /\ Cardinality(E \cup D) = Cardinality(E) + Cardinality(D) - Cardinality(E \cap D)
    BY <1>2, <1>3, FS_Union
  <2>3. Cardinality(E \cap D) = 0
    BY <1>6, FS_EmptySet
  <2> QED
    BY <2>1, <2>2, <2>3
<1>9. Cardinality(B) = Cardinality(E) + Cardinality(D) + Cardinality(T)
  <2>1. /\ Cardinality(E \cup D) \in Nat /\ Cardinality(T) \in Nat
    BY <1>4, <1>8, FS_CardinalityType
  <2>2. Cardinality(B) = Cardinality(E \cup D) + Cardinality(T) - Cardinality((E \cup D) \cap T)
    BY <1>4, <1>7, <1>8, FS_Union
  <2>3. Cardinality((E \cup D) \cap T) = 0
    BY <1>6, FS_EmptySet
  <2> QED
    BY <1>8, <2>1, <2>2, <2>3
<1>10. Len(FifoMap) = Len(commands)
  BY <1>1, FifoMapIs
<1>11. Fifo!InUse = Len(FifoMap) + Cardinality(DelayedMap)
                    + (IF TakenCall = Fifo!Nothing THEN 0 ELSE 1)
  <2>1. \A S : Fifo!Cardinality(S) = Cardinality(S)
    BY DEF Cardinality, Fifo!Cardinality
  <2> QED
    BY <2>1 DEF Fifo!InUse, FifoMap, DelayedMap
<1> QED
  BY <1>2, <1>4, <1>5, <1>9, <1>10, <1>11 DEF B

(* The abstract steps, said of the mapping.                                *)
FifoSame == UNCHANGED <<AskedMap, CancelledMap, FifoMap, DelayedMap, TakenCall, CalledMap>>

FifoStep == [Fifo!FifoNext]_(Fifo!fifoVars)

LEMMA StutterIs ==
    ASSUME FifoSame
    PROVE  FifoStep
  BY DEF FifoSame, FifoStep, Fifo!fifoVars, AskedMap, CancelledMap, FifoMap, DelayedMap,
         CalledMap

LEMMA RefuseIs ==
    ASSUME NEW k \in Calls, AskedMap[k] = "none", Fifo!InUse >= SIZE,
           AskedMap' = [AskedMap EXCEPT ![k] = "refused"],
           UNCHANGED <<CancelledMap, FifoMap, DelayedMap, TakenCall, CalledMap>>
    PROVE  FifoStep
<1>1. Fifo!Refuse(k)
  BY DEF Fifo!Refuse, AskedMap, CancelledMap, FifoMap, DelayedMap, CalledMap
<1> QED
  BY <1>1 DEF FifoStep, Fifo!FifoNext

LEMMA AcceptIs ==
    ASSUME NEW k \in Calls, NEW kind \in {"now", "later", "interval"},
           AskedMap[k] = "none", Fifo!InUse < SIZE,
           AskedMap' = [AskedMap EXCEPT ![k] = kind],
           IF kind = "now" THEN FifoMap' = Append(FifoMap, k) /\ DelayedMap' = DelayedMap
                           ELSE DelayedMap' = DelayedMap \cup {k} /\ FifoMap' = FifoMap,
           UNCHANGED <<CancelledMap, TakenCall, CalledMap>>
    PROVE  FifoStep
<1>1. Fifo!Accept(k, kind)
  BY DEF Fifo!Accept, AskedMap, CancelledMap, FifoMap, DelayedMap, CalledMap
<1> QED
  BY <1>1 DEF FifoStep, Fifo!FifoNext

LEMMA CancelledIs ==
    ASSUME CancelledMap \subseteq CancelledMap',
           UNCHANGED <<AskedMap, FifoMap, DelayedMap, TakenCall, CalledMap>>
    PROVE  FifoStep
<1>1. CancelledMap' \subseteq Calls
  BY DEF CancelledMap
<1>2. Fifo!Cancel
  BY <1>1 DEF Fifo!Cancel, AskedMap, CancelledMap, FifoMap, DelayedMap, CalledMap
<1> QED
  BY <1>2 DEF FifoStep, Fifo!FifoNext

LEMMA PromoteIs ==
    ASSUME NEW k \in Calls, k \in DelayedMap,
           DelayedMap' = DelayedMap \ {k}, FifoMap' = Append(FifoMap, k),
           UNCHANGED <<AskedMap, CancelledMap, TakenCall, CalledMap>>
    PROVE  FifoStep
<1>1. Fifo!Promote(k)
  BY DEF Fifo!Promote, AskedMap, CancelledMap, FifoMap, DelayedMap, CalledMap
<1> QED
  BY <1>1 DEF FifoStep, Fifo!FifoNext

LEMMA TakeIs ==
    ASSUME TakenCall = Fifo!Nothing, FifoMap # <<>>,
           TakenCall' = [call |-> Head(FifoMap), done |-> FALSE], FifoMap' = Tail(FifoMap),
           UNCHANGED <<AskedMap, CancelledMap, DelayedMap, CalledMap>>
    PROVE  FifoStep
<1>1. Fifo!Take
  BY DEF Fifo!Take, AskedMap, CancelledMap, FifoMap, DelayedMap, CalledMap
<1> QED
  BY <1>1 DEF FifoStep, Fifo!FifoNext

LEMMA SkipIs ==
    ASSUME TakenCall.call \in CancelledMap, ~TakenCall.done, TakenCall' = Fifo!Nothing,
           UNCHANGED <<AskedMap, CancelledMap, FifoMap, DelayedMap, CalledMap>>
    PROVE  FifoStep
<1>1. Fifo!Skip
  BY DEF Fifo!Skip, AskedMap, CancelledMap, FifoMap, DelayedMap, CalledMap
<1> QED
  BY <1>1 DEF FifoStep, Fifo!FifoNext

LEMMA CallIs ==
    ASSUME TakenCall # Fifo!Nothing, ~TakenCall.done,
           CalledMap' = [CalledMap EXCEPT ![TakenCall.call] = @ + 1],
           TakenCall' = [TakenCall EXCEPT !.done = TRUE],
           UNCHANGED <<AskedMap, CancelledMap, FifoMap, DelayedMap>>
    PROVE  FifoStep
<1>1. Fifo!Call
  BY DEF Fifo!Call, AskedMap, CancelledMap, FifoMap, DelayedMap, CalledMap
<1> QED
  BY <1>1 DEF FifoStep, Fifo!FifoNext

LEMMA FinishIs ==
    ASSUME TakenCall.done, TakenCall' = Fifo!Nothing,
           DelayedMap' = IF AskedMap[TakenCall.call] = "interval"
                         THEN DelayedMap \cup {TakenCall.call} ELSE DelayedMap,
           UNCHANGED <<AskedMap, CancelledMap, FifoMap, CalledMap>>
    PROVE  FifoStep
<1>1. Fifo!Finish
  BY DEF Fifo!Finish, AskedMap, CancelledMap, FifoMap, DelayedMap, CalledMap
<1> QED
  BY <1>1 DEF FifoStep, Fifo!FifoNext

(* What the steps of the queue leave alone of the mapping.                 *)
LEMMA LogSame ==
    ASSUME \A n \in Calls : /\ log'[n].kind = log[n].kind
                            /\ log'[n].result = log[n].result
                            /\ log'[n].runs = log[n].runs
    PROVE  AskedMap' = AskedMap /\ CalledMap' = CalledMap
<1>1. \A n \in Calls : AskedFor(n)' = AskedFor(n)
  BY DEF AskedFor
<1> QED
  BY <1>1, LogMapSame

LEMMA AskedExcept ==
    ASSUME NEW k \in Calls, \A n \in Calls : n # k => log'[n] = log[n], NEW kind,
           AskedFor(k)' = kind
    PROVE  AskedMap' = [AskedMap EXCEPT ![k] = kind]
<1>1. \A n \in Calls : n # k => AskedFor(n)' = AskedFor(n)
  BY DEF AskedFor
<1> QED
  BY <1>1 DEF AskedMap

LEMMA CancelledSame ==
    ASSUME \A n \in Calls : log'[n].cancelled = log[n].cancelled
    PROVE  CancelledMap' = CancelledMap
  BY DEF CancelledMap

LEMMA TakenSame ==
    ASSUME contexts' = contexts, worker' = worker
    PROVE  TakenCall' = TakenCall
  BY DEF TakenCall, Func

(* The queues and the worker are left alone, and the functions of contexts *)
(* in use.                                                                 *)
LEMMA QueuesSame ==
    ASSUME FuncInv, FuncInv', UNCHANGED <<later, commands, worker>>,
           \A i \in Contexts : Used(i) => Func(i)' = Func(i)
    PROVE  UNCHANGED <<FifoMap, DelayedMap, TakenCall>>
<1>1. PlaceInv /\ PlaceInv' /\ Types /\ Types'
  BY DEF FuncInv, PlaceInv
<1>2. \A i \in Contexts : In(commands, i) \/ Later(i) \/ worker.idx = i => Func(i)' = Func(i)
  BY <1>1, UsedIs DEF Held, Later
<1>3. FifoMap' = FifoMap
  BY <1>1, <1>2, FifoMapSame
<1>4. DelayedMap' = DelayedMap
  <2>1. \A i \in Contexts : Later(i)' <=> Later(i)
    BY DEF Later, In
  <2> QED
    BY <1>1, <1>2, <2>1, DelayedMapSame
<1>5. TakenCall' = TakenCall
  <2>1. WorkerHolds => worker.idx \in Contexts
    BY <1>1, WorkerHas
  <2>2. WorkerHolds => Func(worker.idx)' = Func(worker.idx)
    <3>1. ASSUME NEW i \in Contexts, i = worker.idx PROVE Func(i)' = Func(i)
      BY <1>2, <3>1
    <3>2. ASSUME WorkerHolds PROVE Func(worker.idx)' = Func(worker.idx)
      BY <2>1, <3>1, <3>2 DEF Func
    <3> QED
      BY <3>2
  <2> QED
    BY <2>2 DEF TakenCall, WorkerHolds
<1> QED
  BY <1>3, <1>4, <1>5

LEMMA FifoMapNext ==
    ASSUME Types', contexts' = contexts
    PROVE  FifoMap' = Mapped(commands', FuncOf)
<1>1. \A p \in DOMAIN commands' : commands'[p] \in Contexts
  BY LenProperties DEF Types
<1> QED
  BY <1>1 DEF FifoMap, Mapped, FuncOf, Func

(* A context gets to the end of the queue: so does its function.           *)
LEMMA FifoMapAppend ==
    ASSUME Types, Types', NEW i \in Contexts, NEW k, k = Func(i), contexts' = contexts,
           commands' = Append(commands, i)
    PROVE  FifoMap' = Append(FifoMap, k)
<1>1. FuncOf \in [Contexts -> 0 .. MaxCalls] /\ commands \in Seq(Contexts)
  BY FuncOfType DEF Types
<1>2. Mapped(Append(commands, i), FuncOf) = Append(Mapped(commands, FuncOf), FuncOf[i])
  BY <1>1, MappedAppend
<1>3. FuncOf[i] = k
  BY DEF FuncOf
<1>4. FifoMap = Mapped(commands, FuncOf)
  BY FifoMapIs
<1>5. FifoMap' = Mapped(commands', FuncOf)
  BY FifoMapNext
<1> QED
  BY <1>2, <1>3, <1>4, <1>5

LEMMA FifoMapTail ==
    ASSUME Types, Types', commands # <<>>, commands' = Tail(commands), contexts' = contexts
    PROVE  /\ FifoMap # <<>> /\ Head(FifoMap) = Func(Head(commands))
           /\ Head(commands) \in Contexts
           /\ FifoMap' = Tail(FifoMap)
<1>1. FuncOf \in [Contexts -> 0 .. MaxCalls] /\ commands \in Seq(Contexts)
  BY FuncOfType DEF Types
<1>2. /\ Mapped(commands, FuncOf) # <<>>
      /\ Head(Mapped(commands, FuncOf)) = FuncOf[Head(commands)]
      /\ Mapped(Tail(commands), FuncOf) = Tail(Mapped(commands, FuncOf))
  BY <1>1, MappedTail
<1>3. Head(commands) \in Contexts /\ FuncOf[Head(commands)] = Func(Head(commands))
  BY <1>1, HeadTailProperties DEF FuncOf
<1>4. FifoMap = Mapped(commands, FuncOf)
  BY FifoMapIs
<1>5. FifoMap' = Mapped(commands', FuncOf)
  BY FifoMapNext
<1> QED
  BY <1>2, <1>3, <1>4, <1>5

-----------------------------------------------------------------------------
(* The queue implements CommandFifo: its steps.                            *)

LEMMA FifoFind ==
    ASSUME FuncInv, FuncInv', NEW c, Callers = {c}, NEW kind \in Kinds, NEW id \in Int,
           NEW delay \in Nat, Find(c, kind, id, delay)
    PROVE  FifoStep
<1>1. PICK k : k = Issued + 1
  OBVIOUS
<1>2. PlaceInv /\ Numbered /\ Types
  BY DEF FuncInv, PlaceInv
<1>3. /\ k \in Calls /\ ~Asked(k)
      /\ \A j \in Calls : j # k => log'[j] = log[j]
      /\ log'[k].runs = 0 /\ log'[k].cancelled = "no"
      /\ \/ log'[k].result = "refused" /\ Available = {}
         \/ log'[k].result = "pending"
  BY <1>1, <1>2, FindIs
<1>4. UNCHANGED <<contexts, later, commands, worker>> /\ caller[c].at = "idle"
  BY DEF Find
<1>5. UNCHANGED <<FifoMap, DelayedMap, TakenCall>>
  BY <1>4, QueuesSame DEF Func
<1>6. log[k].result = "none" /\ log[k].cancelled = "no" /\ log[k].runs = 0
  BY <1>2, <1>3 DEF Numbered, Asked
<1>7. \A n \in Calls : /\ log'[n].cancelled = log[n].cancelled
                       /\ log'[n].runs = log[n].runs
  BY <1>3, <1>6
<1>8. CancelledMap' = CancelledMap /\ CalledMap' = CalledMap
  BY <1>7, CancelledSame DEF CalledMap
<1>9. AskedFor(k) = "none"
  BY <1>6 DEF AskedFor
<1>10. CASE log'[k].result = "pending"
  <2>1. AskedFor(k)' = "none"
    BY <1>10 DEF AskedFor
  <2>2. \A n \in Calls : AskedFor(n)' = AskedFor(n)
    BY <1>3, <1>9, <2>1 DEF AskedFor
  <2>3. AskedMap' = AskedMap
    BY <2>2 DEF AskedMap
  <2> QED
    BY <1>5, <1>8, <2>3, StutterIs DEF FifoSame
<1>11. CASE log'[k].result = "refused" /\ Available = {}
  <2>1. AskedFor(k)' = "refused"
    BY <1>11 DEF AskedFor
  <2>2. AskedMap[k] = "none" /\ AskedMap' = [AskedMap EXCEPT ![k] = "refused"]
    BY <1>3, <1>9, <2>1, AskedExcept DEF AskedMap
  <2>3. \A i \in Contexts : Busy(i)
    <3> TAKE i \in Contexts
    <3>1. contexts[i].ref_count # 0 /\ contexts[i].ref_count \in Nat
      BY <1>2, <1>11 DEF Available, Types, Context
    <3>2. Held(i)
      BY <1>2, <3>1, UsedIs DEF Used
    <3>3. ~Putting(i)
      BY <1>4 DEF Putting
    <3> QED
      BY <3>2, <3>3 DEF Held, Busy
  <2>4. {i \in Contexts : Busy(i)} = Contexts
    BY <2>3
  <2>5. Fifo!InUse = SIZE
    BY <2>4, InUseIs, ContextsFinite
  <2>6. Fifo!InUse >= SIZE
    BY <2>5, SizeType
  <2> QED
    BY <1>3, <1>5, <1>8, <2>2, <2>6, RefuseIs
<1> QED
  BY <1>3, <1>10, <1>11

LEMMA FifoFill ==
    ASSUME FuncInv, FuncInv', NEW c, Callers = {c}, Fill(c)
    PROVE  FifoStep
<1>1. PICK i, k : i = caller[c].idx /\ k = caller[c].call
  OBVIOUS
<1>2. /\ ~Used(i)
      /\ \A j \in Contexts : j # i => contexts'[j] = contexts[j]
      /\ \A n \in Calls : /\ log'[n].kind = log[n].kind
                          /\ log'[n].result = log[n].result
                          /\ log'[n].runs = log[n].runs
                          /\ log'[n].cancelled = log[n].cancelled
  BY <1>1, FillIs
<1>3. \A j \in Contexts : Used(j) => Func(j)' = Func(j)
  BY <1>2 DEF Func
<1>4. UNCHANGED <<later, commands, worker>>
  BY DEF Fill
<1> QED
  BY <1>2, <1>3, <1>4, QueuesSame, LogSame, CancelledSame, StutterIs DEF FifoSame

LEMMA FifoPut ==
    ASSUME FuncInv, FuncInv', NEW c, Callers = {c}, Put(c)
    PROVE  FifoStep
<1>1. PICK i, k : i = caller[c].idx /\ k = caller[c].call
  OBVIOUS
<1>2. PlaceInv /\ PlaceInv' /\ Types /\ Types' /\ Places
  BY DEF FuncInv, PlaceInv
<1>3. /\ k \in Calls /\ log[k].result = "pending" /\ log[k].cancelled = "no"
      /\ i \in Contexts /\ Func(i) = k /\ contexts' = contexts
      /\ \A n \in Calls : n # k => log'[n] = log[n]
      /\ log'[k].result = "accepted" /\ log'[k].kind = log[k].kind
      /\ log'[k].runs = log[k].runs /\ log'[k].cancelled = log[k].cancelled
  BY <1>1, PutLog
<1>4. worker' = worker /\ Putting(i)
  BY <1>1 DEF Put, Putting
<1>5. TakenCall' = TakenCall
  BY <1>3, <1>4, TakenSame
<1>6. CancelledMap' = CancelledMap /\ CalledMap' = CalledMap
  <2>1. \A n \in Calls : /\ log'[n].cancelled = log[n].cancelled
                         /\ log'[n].runs = log[n].runs
    BY <1>3
  <2> QED
    BY <2>1, CancelledSame DEF CalledMap
<1>7. PICK kind \in {"now", "later", "interval"} :
          kind = IF Delayed(log[k].kind) THEN log[k].kind ELSE "now"
  BY DEF Delayed
<1>8. AskedMap[k] = "none" /\ AskedMap' = [AskedMap EXCEPT ![k] = kind]
  <2>1. AskedFor(k) = "none"
    BY <1>3 DEF AskedFor
  <2>2. AskedFor(k)' = kind
    BY <1>3, <1>7 DEF AskedFor
  <2> QED
    BY <1>3, <2>1, <2>2, AskedExcept DEF AskedMap
<1>9. Fifo!InUse < SIZE
  <2> DEFINE B == {j \in Contexts : Busy(j)}
  <2>1. ~Busy(i)
    BY <1>2, <1>3, <1>4 DEF Places, Busy
  <2>2. B \subseteq Contexts \ {i}
    BY <2>1
  <2>3. IsFiniteSet(Contexts \ {i}) /\ Cardinality(Contexts \ {i}) = SIZE - 1
    BY <1>3, ContextsFinite, FS_RemoveElement
  <2>4. IsFiniteSet(B) /\ Cardinality(B) <= Cardinality(Contexts \ {i})
    BY <2>2, <2>3, FS_Subset
  <2>5. Cardinality(B) \in Nat
    BY <2>4, FS_CardinalityType
  <2>6. Fifo!InUse = Cardinality(B)
    BY InUseIs
  <2> QED
    BY <2>3, <2>4, <2>5, <2>6, SizeType
<1>10. CASE Delayed(log[k].kind)
  <2>1. later' = Append(later, i) /\ commands' = commands
    BY <1>1, <1>2, <1>10, PutIs
  <2>2. \A j : Later(j)' <=> Later(j) \/ j = i
    <3>1. \A j : In(Append(later, i), j) <=> In(later, j) \/ j = i
      BY <1>2, <1>3, AppendIn DEF Types
    <3>2. \A j : In(later', j) <=> In(later, j) \/ j = i
      BY <2>1, <3>1
    <3> QED
      BY <1>4, <3>2 DEF Later
  <2>3. \A n : n \in DelayedMap' <=> n \in DelayedMap \/ n = k
    <3>1. /\ \A n : n \in DelayedMap <=> \E j \in Contexts : Later(j) /\ Func(j) = n
          /\ \A n : n \in DelayedMap' <=> \E j \in Contexts : Later(j)' /\ Func(j)' = n
      BY <1>2, DelayedMapIs, DelayedMapIsNext DEF DelayedAre
    <3>2. \A j : Func(j)' = Func(j)
      BY <1>3 DEF Func
    <3> QED
      BY <1>3, <2>2, <3>1, <3>2
  <2>4. DelayedMap' = DelayedMap \cup {k}
    BY <2>3
  <2>5. FifoMap' = FifoMap
    BY <1>2, <1>3, <2>1, FifoMapSame DEF Func
  <2>6. kind # "now"
    BY <1>7, <1>10 DEF Delayed
  <2> QED
    BY <1>3, <1>5, <1>6, <1>8, <1>9, <2>4, <2>5, <2>6, AcceptIs
<1>11. CASE ~Delayed(log[k].kind)
  <2>1. commands' = Append(commands, i) /\ later' = later
    BY <1>1, <1>2, <1>11, PutIs
  <2>2. FifoMap' = Append(FifoMap, k)
    BY <1>2, <1>3, <2>1, FifoMapAppend
  <2>3. DelayedMap' = DelayedMap
    <3>1. \A j \in Contexts : (Later(j)' <=> Later(j)) /\ Func(j)' = Func(j)
      BY <1>3, <1>4, <2>1 DEF Later, In, Func
    <3> QED
      BY <1>2, <3>1, DelayedMapSame
  <2>4. kind = "now"
    BY <1>7, <1>11
  <2> QED
    BY <1>3, <1>5, <1>6, <1>8, <1>9, <2>2, <2>3, <2>4, AcceptIs
<1> QED
  BY <1>10, <1>11

LEMMA FifoCaller ==
    ASSUME FuncInv, FuncInv', NEW c, Callers = {c},
           WaitEnds(c) \/ CancelSet(c) \/ (\E id \in Int : Cancel(c, id))
    PROVE  FifoStep
<1>1. CASE WaitEnds(c)
  <2>1. UNCHANGED <<contexts, later, commands, worker, log>>
    BY <1>1 DEF WaitEnds
  <2> QED
    BY <2>1, QueuesSame, LogSame, CancelledSame, StutterIs DEF FifoSame, Func
<1>2. CASE CancelSet(c)
  <2>1. UNCHANGED <<later, commands, worker>>
    BY <1>2 DEF CancelSet
  <2>2. \A i \in Contexts : Func(i)' = Func(i)
    BY <1>2, CancelSetIs DEF FuncInv, Func
  <2>3. \A n \in Calls : /\ log'[n].kind = log[n].kind
                         /\ log'[n].result = log[n].result
                         /\ log'[n].runs = log[n].runs
                         /\ log'[n].cancelled = log[n].cancelled \/ log'[n].cancelled = "sure"
    BY <1>2, CancelSetLog
  <2>4. CancelledMap \subseteq CancelledMap'
    BY <2>3 DEF CancelledMap
  <2> QED
    BY <2>1, <2>2, <2>3, <2>4, QueuesSame, LogSame, CancelledIs
<1>3. ASSUME NEW id \in Int, Cancel(c, id) PROVE FifoStep
  <2>1. UNCHANGED <<contexts, later, commands, worker>>
    BY <1>3, Zenon DEF Cancel
  <2>2. \A n \in Calls : /\ log'[n].kind = log[n].kind
                         /\ log'[n].result = log[n].result
                         /\ log'[n].runs = log[n].runs
                         /\ log'[n].cancelled = log[n].cancelled \/ log'[n].cancelled = "asked"
    BY <1>3, CancelIs
  <2>3. CancelledMap \subseteq CancelledMap'
    BY <2>2 DEF CancelledMap
  <2> QED
    BY <2>1, <2>2, <2>3, QueuesSame, LogSame, CancelledIs DEF Func
<1> QED
  BY <1>1, <1>2, <1>3

LEMMA FifoQuiet ==
    ASSUME FuncInv, FuncInv', Process \/ PopLater \/ SortLater
    PROVE  FifoStep
<1>1. PlaceInv /\ PlaceInv' /\ Types /\ Types'
  BY DEF FuncInv, PlaceInv
<1>2. /\ UNCHANGED <<contexts, commands, log>>
      /\ worker.at \in {"idle", "delayed", "sort", "pop"}
      /\ worker'.at \in {"idle", "delayed", "sort", "pop"}
  <2>1. worker'.at \in {"delayed", "sort", "pop"}
    BY <1>1 DEF Types, Worker, Process, PopLater, SortLater
  <2> QED
    BY <2>1 DEF Process, PopLater, SortLater
<1>3. TakenCall' = TakenCall
  BY <1>2 DEF TakenCall
<1>4. \A j : Later(j)' <=> Later(j)
  <2>1. CASE Process
    BY <1>1, <2>1 DEF Process, Later, In, Types, Worker
  <2>2. CASE PopLater
    <3>1. CASE later = <<>>
      BY <1>1, <2>2, <3>1 DEF PopLater, Later, In, Types, Worker
    <3>2. CASE later # <<>>
      <4>1. /\ worker.at = "delayed" /\ worker'.at = "sort" /\ worker'.idx = Head(later)
            /\ later' = Tail(later)
        BY <1>1, <2>2, <3>2 DEF PopLater, Types, Worker
      <4>2. \A j : In(later, j) <=> j = Head(later) \/ In(Tail(later), j)
        BY <1>1, <3>2, TailIn DEF PlaceInv, Types, Places
      <4> QED
        BY <4>1, <4>2 DEF Later
    <3> QED
      BY <3>1, <3>2
  <2>3. CASE SortLater
    <3>1. PICK i \in Contexts : i = worker.idx
      BY <1>1, <2>3, WorkerHas DEF SortLater, WorkerHolds
    <3>2. \A j : In(Append(later, i), j) <=> In(later, j) \/ j = i
      BY <1>1, <3>1, AppendIn DEF Types
    <3>3. later' = Append(later, i)
      BY <1>1, <2>3, <3>1, SortLaterIs
    <3>4. worker.at = "sort" /\ worker'.at # "sort"
      BY <1>1, <2>3 DEF SortLater, Types, Worker
    <3> QED
      BY <3>1, <3>2, <3>3, <3>4 DEF Later
  <2> QED
    BY <2>1, <2>2, <2>3
<1>5. DelayedMap' = DelayedMap
  BY <1>1, <1>2, <1>4, DelayedMapSame DEF Func
<1>6. FifoMap' = FifoMap
  BY <1>1, <1>2, FifoMapSame DEF Func
<1> QED
  BY <1>2, <1>3, <1>5, <1>6, LogSame, CancelledSame, StutterIs DEF FifoSame

LEMMA FifoSortDue ==
    ASSUME FuncInv, FuncInv', SortDue
    PROVE  FifoStep
<1>1. PlaceInv /\ PlaceInv' /\ Types /\ Types' /\ Functs /\ Places
  BY DEF FuncInv, PlaceInv
<1>2. PICK i \in Contexts : i = worker.idx /\ Used(i) /\ ~In(later, i)
  BY <1>1, WorkerHas DEF SortDue, WorkerHolds, Used
<1>3. /\ commands' = Append(commands, i) /\ contexts' = contexts
      /\ UNCHANGED <<later, log>> /\ worker.at = "sort"
      /\ worker'.at = "pop"
  BY <1>1, <1>2, SortDueIs DEF SortDue, Types, Worker
<1>4. PICK k \in Calls : k = Func(i)
  BY <1>1, <1>2 DEF Functs
<1>5. TakenCall' = TakenCall
  BY <1>3 DEF TakenCall
<1>6. FifoMap' = Append(FifoMap, k)
  BY <1>1, <1>3, <1>4, FifoMapAppend
<1>7. \A j : Later(j)' <=> Later(j) /\ j # i
  BY <1>2, <1>3 DEF Later, In
<1>8. \A n : n \in DelayedMap' <=> n \in DelayedMap /\ n # k
  <2>1. /\ \A n : n \in DelayedMap <=> \E j \in Contexts : Later(j) /\ Func(j) = n
        /\ \A n : n \in DelayedMap' <=> \E j \in Contexts : Later(j)' /\ Func(j)' = n
    BY <1>1, DelayedMapIs, DelayedMapIsNext DEF DelayedAre
  <2>2. \A j : Func(j)' = Func(j)
    BY <1>3 DEF Func
  <2>3. \A j \in Contexts : Later(j) => Used(j)
    BY <1>1, UsedIs DEF Held, Later
  <2>4. \A j \in Contexts : Later(j) /\ Func(j) = k => j = i
    BY <1>1, <1>2, <1>4, <2>3 DEF Functs
  <2> QED
    BY <1>4, <1>7, <2>1, <2>2, <2>4
<1>9. k \in DelayedMap /\ DelayedMap' = DelayedMap \ {k}
  <2>1. Later(i)
    BY <1>2, <1>3 DEF Later
  <2> QED
    BY <1>1, <1>4, <1>8, <2>1, DelayedMapIs DEF DelayedAre
<1> QED
  BY <1>3, <1>5, <1>6, <1>9, LogSame, CancelledSame, PromoteIs

(* The call of a worker that has checked nothing yet, or has called.       *)
TakenAre ==
    \A i : /\ worker.at \in {"check", "run"} /\ worker.idx = i
                 => TakenCall = [call |-> Func(i), done |-> FALSE]
           /\ worker.at \in {"ran", "release"} /\ worker.idx = i
                 => TakenCall = [call |-> Func(i), done |-> TRUE]

LEMMA NotIn ==
    ASSUME NEW S, NEW x, x \notin S
    PROVE  (x \in S) = FALSE
  BY SMT

LEMMA DoneExcept ==
    ASSUME NEW call, NEW before, NEW after
    PROVE  [[call |-> call, done |-> before] EXCEPT !.done = after]
               = [call |-> call, done |-> after]
  BY SMT

LEMMA TakenAtIs == TakenAre
<1>1. ASSUME worker.at \in {"check", "run"}
      PROVE  (worker.at \in {"ran", "release"}) = FALSE
  <2>1. worker.at \notin {"ran", "release"}
    BY <1>1
  <2> QED
    BY <2>1, NotIn, Zenon
<1>2. ASSUME worker.at \in {"ran", "release"}
      PROVE  (worker.at \in {"ran", "release"}) = TRUE
  BY <1>2, Zenon
<1>3. ASSUME worker.at \in {"check", "run", "ran", "release"}
      PROVE  TakenCall = [call |-> Func(worker.idx),
                          done |-> worker.at \in {"ran", "release"}]
  BY <1>3, Zenon DEF TakenCall
<1>4. ASSUME NEW i, worker.at \in {"check", "run"}, worker.idx = i
      PROVE  TakenCall = [call |-> Func(i), done |-> FALSE]
  <2>1. worker.at \in {"check", "run", "ran", "release"}
    BY <1>4
  <2> QED
    BY <1>1, <1>3, <1>4, <2>1, Zenon
<1>5. ASSUME NEW i, worker.at \in {"ran", "release"}, worker.idx = i
      PROVE  TakenCall = [call |-> Func(i), done |-> TRUE]
  <2>1. worker.at \in {"check", "run", "ran", "release"}
    BY <1>5
  <2> QED
    BY <1>2, <1>3, <1>5, <2>1, Zenon
<1> QED
  BY <1>4, <1>5 DEF TakenAre

LEMMA TakenAtIsNext == TakenAre'
  BY TakenAtIs, PTL

LEMMA FifoPop ==
    ASSUME FuncInv, FuncInv', Pop
    PROVE  FifoStep
<1>1. PlaceInv /\ PlaceInv' /\ Types /\ Types'
  BY DEF FuncInv, PlaceInv
<1>2. UNCHANGED <<contexts, later, log>> /\ worker.at = "pop"
  BY DEF Pop
<1>3. worker'.at # "sort"
  BY WaitingType DEF Pop, Waiting
<1>4. DelayedMap' = DelayedMap
  <2>1. \A j : Later(j)' <=> Later(j)
    BY <1>2, <1>3 DEF Later, In
  <2> QED
    BY <1>1, <1>2, <2>1, DelayedMapSame DEF Func
<1>5. AskedMap' = AskedMap /\ CalledMap' = CalledMap /\ CancelledMap' = CancelledMap
  BY <1>2, LogSame, CancelledSame
<1>6. TakenCall = Fifo!Nothing
  BY <1>2 DEF TakenCall, Fifo!Nothing
<1>7. CASE commands = <<>>
  <2>1. worker' = Waiting /\ commands' = commands
    BY <1>7 DEF Pop
  <2>2. TakenCall' = TakenCall
    BY <1>2, <2>1, WaitingType DEF TakenCall
  <2>3. FifoMap' = FifoMap
    BY <1>1, <1>2, <2>1, FifoMapSame DEF Func
  <2> QED
    BY <1>4, <1>5, <2>2, <2>3, StutterIs DEF FifoSame
<1>8. CASE commands # <<>>
  <2>1. /\ worker'.at = "check" /\ worker'.idx = Head(commands)
        /\ commands' = Tail(commands)
    BY <1>8 DEF Pop, Waiting
  <2>2. /\ FifoMap # <<>> /\ Head(FifoMap) = Func(Head(commands))
        /\ FifoMap' = Tail(FifoMap)
        /\ Head(commands) \in Contexts
    BY <1>1, <1>2, <1>8, <2>1, FifoMapTail
  <2>3. TakenCall' = [call |-> Head(FifoMap), done |-> FALSE]
    <3>1. PICK i \in Contexts : i = Head(commands)
      BY <2>2
    <3>2. TakenCall' = [call |-> Func(i)', done |-> FALSE]
      BY <2>1, <3>1, TakenAtIsNext DEF TakenAre
    <3>3. Func(i)' = Func(i)
      BY <1>2 DEF Func
    <3> QED
      BY <2>2, <3>1, <3>2, <3>3
  <2> QED
    BY <1>4, <1>5, <1>6, <2>2, <2>3, TakeIs
<1> QED
  BY <1>7, <1>8

(* The context the worker has is given up: its function is in neither of   *)
(* the queues, and no other's is changed.                                  *)
LEMMA QueuesKeep ==
    ASSUME FuncInv, FuncInv', UNCHANGED <<later, commands, log>>,
           worker.at # "sort", worker'.at # "sort",
           \A i \in Contexts : Func(i)' = Func(i)
    PROVE  UNCHANGED <<AskedMap, CancelledMap, FifoMap, DelayedMap, CalledMap>>
<1>1. PlaceInv /\ PlaceInv' /\ Types /\ Types'
  BY DEF FuncInv, PlaceInv
<1>2. \A i : Later(i)' <=> Later(i)
  BY DEF Later, In
<1> QED
  BY <1>1, <1>2, FifoMapSame, DelayedMapSame, LogSame, CancelledSame

LEMMA FifoCheck ==
    ASSUME FuncInv, FuncInv', Flags, Check
    PROVE  FifoStep
<1>1. PlaceInv /\ Types /\ WorkerHolds /\ worker.at = "check"
  BY DEF FuncInv, PlaceInv, Check, WorkerHolds
<1>2. PICK i \in Contexts : i = worker.idx /\ Used(i) /\ contexts[i].ref_count = 1
  BY <1>1, WorkerHas DEF Used
<1>3. /\ TakenCall.call = Func(i) /\ TakenCall.call \in Calls /\ TakenCall.done = FALSE
  <2>1. TakenCall = [call |-> Func(i), done |-> FALSE]
    BY <1>1, <1>2, TakenAtIs DEF TakenAre
  <2> QED
    BY <1>1, <1>2, <2>1, TakenIs
<1>4. CASE contexts[i].cancelled
  <2>1. contexts' = Released(i) /\ worker' = Waiting /\ UNCHANGED <<later, commands, log>>
    BY <1>2, <1>4 DEF Check
  <2>2. \A j \in Contexts : Func(j)' = Func(j)
    BY <1>1, <1>2, <2>1, ReleasedIs DEF Func
  <2>3. TakenCall' = Fifo!Nothing
    BY <2>1, WaitingType DEF TakenCall, Fifo!Nothing
  <2>4. TakenCall.call \in CancelledMap
    BY <1>2, <1>3, <1>4 DEF Flags, CancelledMap
  <2> QED
    BY <1>1, <1>3, <2>1, <2>2, <2>3, <2>4, QueuesKeep, WaitingType, SkipIs
<1>5. CASE ~contexts[i].cancelled
  <2>1. /\ worker'.at = "run" /\ worker'.idx = worker.idx
        /\ UNCHANGED <<contexts, later, commands, log>>
    BY <1>1, <1>2, <1>5 DEF Check, Types, Worker
  <2>2. TakenCall' = TakenCall
    BY <1>1, <2>1 DEF TakenCall, Func
  <2> QED
    BY <1>1, <2>1, <2>2, QueuesKeep, StutterIs DEF FifoSame, Func
<1> QED
  BY <1>4, <1>5

LEMMA FifoRun ==
    ASSUME FuncInv, FuncInv', Run
    PROVE  FifoStep
<1>1. PlaceInv /\ PlaceInv' /\ Types /\ Types' /\ WorkerHolds /\ worker.at = "run"
  BY DEF FuncInv, PlaceInv, Run, WorkerHolds
<1>2. PICK i \in Contexts, k \in Calls :
          /\ i = worker.idx /\ Used(i) /\ Func(i) = k
          /\ worker'.at = "ran" /\ worker'.idx = i
          /\ \A n \in Calls : n # k => log'[n] = log[n]
          /\ log'[k].runs = log[k].runs + 1
          /\ log'[k].kind = log[k].kind /\ log'[k].result = log[k].result
          /\ log'[k].cancelled = log[k].cancelled
  BY RunIs
<1>3. UNCHANGED <<contexts, later, commands>>
  BY DEF Run
<1>4. TakenCall = [call |-> k, done |-> FALSE]
  BY <1>1, <1>2, TakenAtIs DEF TakenAre
<1>5. TakenCall' = [call |-> k, done |-> TRUE]
  BY <1>2, <1>3, TakenAtIsNext DEF TakenAre, Func
<1>6. TakenCall # Fifo!Nothing
  BY <1>2, <1>4, SizeType DEF Fifo!Nothing
<1>7. FifoMap' = FifoMap
  BY <1>1, <1>3, FifoMapSame DEF Func
<1>8. DelayedMap' = DelayedMap
  <2>1. \A j : Later(j)' <=> Later(j)
    BY <1>1, <1>2, <1>3 DEF Later, In
  <2> QED
    BY <1>1, <1>3, <2>1, DelayedMapSame DEF Func
<1>9. AskedMap' = AskedMap
  <2>1. \A n \in Calls : AskedFor(n)' = AskedFor(n)
    BY <1>2 DEF AskedFor
  <2> QED
    BY <2>1 DEF AskedMap
<1>10. CancelledMap' = CancelledMap
  BY <1>2, CancelledSame
<1>11. CalledMap' = [CalledMap EXCEPT ![TakenCall.call] = @ + 1]
  <2>1. \A n \in Calls : log'[n].runs = IF n = k THEN log[n].runs + 1 ELSE log[n].runs
    BY <1>2
  <2>2. TakenCall.call = k
    BY <1>4
  <2> QED
    BY <2>1, <2>2 DEF CalledMap
<1>12. ~TakenCall.done
  BY <1>4
<1>13. TakenCall' = [TakenCall EXCEPT !.done = TRUE]
  <2>1. [[call |-> k, done |-> FALSE] EXCEPT !.done = TRUE] = [call |-> k, done |-> TRUE]
    BY DoneExcept, Zenon
  <2> QED
    BY <1>4, <1>5, <2>1
<1> QED
  BY <1>6, <1>7, <1>8, <1>9, <1>10, <1>11, <1>12, <1>13, CallIs

LEMMA FifoAgain ==
    ASSUME FuncInv, FuncInv', Again
    PROVE  FifoStep
<1>1. PlaceInv /\ PlaceInv' /\ Types /\ Types' /\ Functs /\ WorkerHolds /\ worker.at = "ran"
  BY DEF FuncInv, PlaceInv, Again, WorkerHolds
<1>2. PICK i \in Contexts : i = worker.idx /\ Used(i) /\ ~Putting(i)
  BY <1>1, WorkerHas DEF Used
<1>3. /\ later' = Append(later, i) /\ worker' = Waiting /\ UNCHANGED <<commands, log>>
      /\ contexts[i].interval_ms > 0
  BY <1>1, <1>2, AgainIs DEF Again
<1>4. \A j \in Contexts : Func(j)' = Func(j)
  BY <1>1, AgainIs DEF Func
<1>5. PICK k \in Calls : k = Func(i) /\ TakenCall.call = k /\ TakenCall.done
  BY <1>1, <1>2, TakenIs
<1>6. AskedMap[k] = "interval"
  <2>1. log[k].kind = "interval"
    BY <1>1, <1>2, <1>3, <1>5 DEF Functs
  <2>2. log[k].result = "accepted"
    BY <1>1, <1>2, <1>5 DEF Functs
  <2> QED
    BY <2>1, <2>2 DEF AskedMap, AskedFor, Delayed
<1>7. TakenCall' = Fifo!Nothing
  BY <1>3, WaitingType DEF TakenCall, Fifo!Nothing
<1>8. \A j : Later(j)' <=> Later(j) \/ j = i
  <2>1. \A j : In(Append(later, i), j) <=> In(later, j) \/ j = i
    BY <1>1, AppendIn DEF Types
  <2>2. \A j : In(later', j) <=> In(later, j) \/ j = i
    BY <1>3, <2>1
  <2> QED
    BY <1>1, <1>3, <2>2, WaitingType DEF Later
<1>9. DelayedMap' = DelayedMap \cup {k}
  <2>1. /\ \A n : n \in DelayedMap <=> \E j \in Contexts : Later(j) /\ Func(j) = n
        /\ \A n : n \in DelayedMap' <=> \E j \in Contexts : Later(j)' /\ Func(j)' = n
    BY <1>1, DelayedMapIs, DelayedMapIsNext DEF DelayedAre
  <2>2. \A n : n \in DelayedMap' <=> n \in DelayedMap \/ n = k
    BY <1>4, <1>5, <1>8, <2>1
  <2> QED
    BY <2>2
<1>10. FifoMap' = FifoMap
  BY <1>1, <1>3, <1>4, FifoMapSame
<1> QED
  BY <1>3, <1>5, <1>6, <1>7, <1>9, <1>10, LogSame, CancelledSame, FinishIs

LEMMA FifoEnd ==
    ASSUME 0 \notin Delays, FuncInv, FuncInv', SetStatus \/ Release
    PROVE  FifoStep
<1>1. PlaceInv /\ Types /\ Functs /\ Runs /\ WorkerHolds /\ worker.at \in {"ran", "release"}
  BY DEF FuncInv, PlaceInv, SetStatus, Release, WorkerHolds
<1>2. PICK i \in Contexts : i = worker.idx /\ Used(i) /\ contexts[i].ref_count = 1
  BY <1>1, WorkerHas DEF Used
<1>3. TakenCall.call = Func(i) /\ TakenCall.call \in Calls /\ TakenCall.done
  BY <1>1, <1>2, TakenIs
<1>4. UNCHANGED <<later, commands, log>>
  BY DEF SetStatus, Release
<1>5. CASE SetStatus
  <2>1. \A j \in Contexts : Func(j)' = Func(j)
    BY <1>1, <1>5, SetStatusIs DEF Func
  <2>2. worker'.at = "release" /\ worker'.idx = worker.idx /\ worker.at = "ran"
    BY <1>1, <1>5 DEF SetStatus, Types, Worker
  <2>3. Func(worker.idx)' = Func(worker.idx)
    BY <1>2, <2>1, <2>2 DEF Func
  <2>4. TakenCall' = TakenCall
    BY <2>2, <2>3 DEF TakenCall
  <2> QED
    BY <1>4, <2>1, <2>2, <2>4, QueuesKeep, StutterIs DEF FifoSame
<1>6. CASE Release
  <2>1. contexts' = Released(i) /\ worker' = Waiting /\ worker.at = "release"
    BY <1>2, <1>6 DEF Release
  <2>2. \A j \in Contexts : Func(j)' = Func(j)
    BY <1>1, <1>2, <2>1, ReleasedIs DEF Func
  <2>3. TakenCall' = Fifo!Nothing
    BY <2>1, WaitingType DEF TakenCall, Fifo!Nothing
  <2>4. AskedMap[TakenCall.call] # "interval"
    <3>1. contexts[i].interval_ms <= 0
      BY <1>1, <1>2, <2>1 DEF Runs
    <3>2. \A delay \in Delays : delay \in Nat /\ delay # 0
      BY SizeType
    <3>3. log[Func(i)].kind # "interval"
      BY <1>1, <1>2, <3>1, <3>2 DEF Functs
    <3> QED
      BY <1>3, <3>3 DEF AskedMap, AskedFor
  <2>5. UNCHANGED <<AskedMap, CancelledMap, FifoMap, DelayedMap, CalledMap>>
    BY <1>1, <1>4, <2>1, <2>2, WaitingType, QueuesKeep
  <2> QED
    BY <1>3, <2>3, <2>4, <2>5, FinishIs
<1> QED
  BY <1>5, <1>6

LEMMA FifoNextStep ==
    ASSUME OneCaller, 0 \notin Delays, CancelInv, [Next]_vars
    PROVE  FifoStep
<1>1. FuncInv /\ FuncInv' /\ Flags
  BY FuncStep DEF CancelInv
<1>2. ASSUME NEW c \in Callers, Calling(c) \/ Finishing(c) PROVE FifoStep
  <2>1. Callers = {c}
    BY DEF OneCaller
  <2> QED
    BY <1>1, <1>2, <2>1, CallerSteps, FifoFind, FifoFill, FifoPut, FifoCaller
<1>3. CASE Tick \/ UNCHANGED vars
  <2>1. UNCHANGED <<contexts, later, commands, worker, log>>
    BY <1>3 DEF Tick, vars
  <2> QED
    BY <1>1, <2>1, QueuesSame, LogSame, CancelledSame, StutterIs DEF FifoSame, Func
<1>4. CASE Processing
  BY <1>1, <1>4, FifoQuiet, FifoSortDue, FifoPop, FifoCheck, FifoRun, FifoAgain, FifoEnd
     DEF Processing
<1> QED
  BY <1>2, <1>3, <1>4 DEF Next

LEMMA FifoStart == Init => Fifo!FifoInit
<1> SUFFICES ASSUME Init PROVE Fifo!FifoInit
  OBVIOUS
<1>1. /\ worker.at = "idle" /\ later = <<>> /\ commands = <<>>
      /\ \A k \in Calls : /\ log[k].result = "none" /\ log[k].runs = 0
                          /\ log[k].cancelled = "no"
  BY DEF Init, Waiting, NoCall
<1>2. AskedMap = [k \in Calls |-> "none"]
  BY <1>1 DEF AskedMap, AskedFor
<1>3. CancelledMap = {} /\ CalledMap = [k \in Calls |-> 0]
  BY <1>1 DEF CancelledMap, CalledMap
<1>4. TakenCall = Fifo!Nothing
  BY <1>1 DEF TakenCall, Fifo!Nothing
<1>5. DOMAIN later = {} /\ DOMAIN commands = {}
  BY <1>1
<1>6. DelayedMap = {}
  BY <1>1, <1>5 DEF DelayedMap
<1>7. FifoMap = <<>>
  <2>1. PlaceInv /\ Types
    BY PlaceInit DEF PlaceInv
  <2>2. commands \in Seq(Contexts) /\ FuncOf \in [Contexts -> 0 .. MaxCalls]
    BY <2>1, FuncOfType DEF Types
  <2>3. /\ Mapped(commands, FuncOf) \in Seq(0 .. MaxCalls)
        /\ Len(Mapped(commands, FuncOf)) = Len(commands)
    BY <2>2, MappedIs
  <2>4. FifoMap \in Seq(0 .. MaxCalls) /\ Len(FifoMap) = 0
    BY <1>1, <2>1, <2>3, FifoMapIs, EmptySeq
  <2> QED
    BY <2>4, EmptySeq
<1> QED
  BY <1>2, <1>3, <1>4, <1>6, <1>7
     DEF Fifo!FifoInit, AskedMap, CancelledMap, CalledMap, DelayedMap, FifoMap

(* With one calling thread, and intervals and delays of at least 1 ms, the *)
(* queue implements CommandFifo: every step of a caller and of the worker  *)
(* is one of the fifo's or leaves it alone.  No command is lost between    *)
(* the queues or comes back without being asked for, only a cancelled one  *)
(* is skipped, and only a full queue refuses.                              *)
THEOREM QueueImplementsFifo ==
    ASSUME OneCaller, 0 \notin Delays
    PROVE  Spec => ImplementsCommandFifo
<1>1. CancelInv /\ [Next]_vars => CancelInv'
  BY CancelStep
<1>2. CancelInv /\ [Next]_vars => [Fifo!FifoNext]_(Fifo!fifoVars)
  BY FifoNextStep DEF FifoStep
<1> QED
  BY <1>1, <1>2, CancelInit, FifoStart, PTL DEF Spec, ImplementsCommandFifo, Fifo!FifoSpec

=============================================================================
