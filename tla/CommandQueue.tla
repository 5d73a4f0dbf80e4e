----------------------------- MODULE CommandQueue -----------------------------
(***************************************************************************)
(* lib_util/command_queue.h: threads hand functions to a worker thread, to *)
(* be called at once, after a delay or at an interval.  A function lives   *)
(* in one of SIZE contexts, whose reference count says that it is in use;  *)
(* two queues carry context numbers to the worker.  The queues are thread  *)
(* safe (external); the search for a free context is not.                  *)
(*                                                                         *)
(* A function is the number of the call that passed it; `log' is history,  *)
(* read by the properties only.                                            *)
(***************************************************************************)
EXTENDS Integers, Sequences, FiniteSets, FiniteSetsExt

CONSTANTS Callers,    \* the threads that call
          SIZE,       \* number of contexts, and of entries in each queue
          Ids,        \* command ids given by callers (-1 is none)
          Delays,     \* delay_ms and interval_ms given by callers
          ClockSize,  \* nowMs() counts modulo this, 2^32
          LastCall,   \* bound: the time after which no call is made
          Horizon,    \* bound: the time when the clock stops
          MaxCalls    \* bound: calls of execute_async and its variants

ASSUME QueueAssumption ==
    /\ SIZE \in Nat \ {0} /\ MaxCalls \in Nat
    /\ Ids \subseteq Nat /\ Delays \subseteq Nat
    /\ ClockSize \in Nat \ {0}
    /\ LastCall \in Nat /\ Horizon \in Nat
    /\ \A delay \in Delays : LastCall + delay <= Horizon

VARIABLES contexts,  \* m_func_contexts
          later,     \* m_commands_later
          commands,  \* m_commands
          caller,    \* per thread: where it is, its context, call and arguments
          worker,    \* where process is, its context, start and now
          clock,     \* the time in ms
          log        \* per call: kind, answer, executions, cancellation

vars == <<contexts, later, commands, caller, worker, clock, log>>

Contexts == 1 .. SIZE
Calls    == 1 .. MaxCalls
Kinds    == {"now", "wait", "later", "interval"}

Free == [ref_count |-> 0, func |-> 0, status |-> FALSE, cancelled |-> FALSE,
         scheduled_ms |-> 0, cmd_id |-> -1, interval_ms |-> -1]

Resting == [at |-> "idle", idx |-> 0, call |-> 0, id |-> -1, delay |-> 0]
Waiting == [at |-> "idle", idx |-> 0, start |-> 0, now |-> 0]
NoCall  == [kind |-> "now", result |-> "none", due |-> 0, runs |-> 0, cancelled |-> "no"]

Init == /\ contexts = [i \in Contexts |-> Free]
        /\ later = <<>> /\ commands = <<>>
        /\ caller = [c \in Callers |-> Resting]
        /\ worker = Waiting
        /\ clock = 0
        /\ log = [k \in Calls |-> NoCall]

nowMs == clock % ClockSize

Issued == Cardinality({k \in Calls : log[k].result # "none"})

(* A bug the checks must see: one entry of a queue is never used.          *)
MutHasRoom(queue) == Len(queue) + 1 < SIZE

HasRoom(queue) == Len(queue) < SIZE

Delayed(kind) == kind \in {"later", "interval"}

-----------------------------------------------------------------------------
(* A caller: execute_async, execute_async_later, execute_async_interval    *)

(* A bug the checks must see: a context is free while one reference is left*)
MutAvailable == {i \in Contexts : contexts[i].ref_count <= 1}

(* find_available_func_context                                             *)
Available == {i \in Contexts : contexts[i].ref_count = 0}

(* The first free context is taken; nothing marks it as taken yet.         *)
Find(c, kind, id, delay) ==
    /\ caller[c].at = "idle" /\ Issued < MaxCalls
    /\ clock <= LastCall
    /\ LET k == Issued + 1
           asked(result) == [NoCall EXCEPT !.kind = kind, !.result = result]
       IN
       \/ /\ Available = {}
          /\ log' = [log EXCEPT ![k] = asked("refused")]
          /\ UNCHANGED caller
       \/ /\ Available # {}
          /\ log' = [log EXCEPT ![k] = asked("pending")]
          /\ caller' = [caller EXCEPT ![c] = [at |-> "fill", idx |-> Min(Available),
                                              call |-> k, id |-> id, delay |-> delay]]
    /\ UNCHANGED <<contexts, later, commands, worker, clock>>

(* reset, and what the three methods store; the reference is counted last. *)
NewContext(c) ==
    LET kind == log[caller[c].call].kind IN
    [ref_count |-> contexts[caller[c].idx].ref_count + 1, func |-> caller[c].call,
     status |-> FALSE, cancelled |-> FALSE,
     scheduled_ms |-> IF Delayed(kind) THEN (nowMs + caller[c].delay) % ClockSize ELSE 0,
     cmd_id |-> caller[c].id,
     interval_ms |-> IF kind = "interval" THEN caller[c].delay ELSE -1]

(* Bugs the checks must see: reset forgets a field of the context.         *)
Kept(c) == contexts[caller[c].idx]
MutResetStatus(c) == [NewContext(c) EXCEPT !.status = Kept(c).status]
MutResetInterval(c) ==
    IF log[caller[c].call].kind = "interval" THEN NewContext(c)
    ELSE [NewContext(c) EXCEPT !.interval_ms = Kept(c).interval_ms]

(* What the context holds before its number goes into a queue.             *)
Filled(c) == NewContext(c)

Fill(c) ==
    /\ caller[c].at = "fill"
    /\ contexts' = [contexts EXCEPT ![caller[c].idx] = Filled(c)]
    /\ caller' = [caller EXCEPT ![c].at = "put"]
    /\ log' = [log EXCEPT ![caller[c].call].due = clock + caller[c].delay]
    /\ UNCHANGED <<later, commands, worker, clock>>

Released(i) == [contexts EXCEPT ![i].ref_count = @ - 1]

Put(c) ==
    /\ caller[c].at = "put"
    /\ LET i == caller[c].idx
           k == caller[c].call
           kind == log[k].kind
           queue == IF Delayed(kind) THEN later ELSE commands
       IN
       \/ /\ HasRoom(queue)
          /\ IF Delayed(kind)
             THEN later' = Append(later, i) /\ UNCHANGED commands
             ELSE commands' = Append(commands, i) /\ UNCHANGED later
          /\ log' = [log EXCEPT ![k].result = "accepted"]
          /\ caller' = [caller EXCEPT ![c] = IF kind = "wait"
                                             THEN [@ EXCEPT !.at = "wait"] ELSE Resting]
          /\ UNCHANGED contexts
       \/ /\ ~HasRoom(queue)
          /\ contexts' = Released(i)
          /\ log' = [log EXCEPT ![k].result = "refused"]
          /\ caller' = [caller EXCEPT ![c] = Resting]
          /\ UNCHANGED <<later, commands>>
    /\ UNCHANGED <<worker, clock>>

(* IntStatus::wait_for polls.                                              *)
WaitEnds(c) ==
    /\ caller[c].at = "wait" /\ contexts[caller[c].idx].status
    /\ caller' = [caller EXCEPT ![c] = Resting]
    /\ UNCHANGED <<contexts, later, commands, worker, clock, log>>

(* A bug the checks must see: a context no longer in use is found.         *)
MutMatching(id) == {i \in Contexts : contexts[i].cmd_id = id}

Matching(id) == {i \in Contexts : contexts[i].cmd_id = id /\ contexts[i].ref_count > 0}

(* The calls with this id that are in use, for the history.                *)
Live(id) == {contexts[i].func : i \in {j \in Contexts : contexts[j].cmd_id = id
                                                       /\ contexts[j].ref_count > 0}}

Cancel(c, id) ==
    /\ caller[c].at = "idle" /\ Matching(id) # {}
    /\ \E k \in Live(id) \cup {0} :
          /\ k = 0 <=> Cardinality(Live(id)) # 1
          /\ caller' = [caller EXCEPT ![c] = [Resting EXCEPT
                           !.at = "cancel", !.idx = Min(Matching(id)), !.call = k]]
    /\ log' = [k \in Calls |-> IF k \in Live(id) /\ log[k].cancelled = "no"
                               THEN [log[k] EXCEPT !.cancelled = "asked"] ELSE log[k]]
    /\ UNCHANGED <<contexts, later, commands, worker, clock>>

(* The worker is about to call k.                                          *)
AboutToCall(k) == worker.at = "run" /\ contexts[worker.idx].func = k

(* The worker may have finished with the context since it was found.       *)
CancelSet(c) ==
    /\ caller[c].at = "cancel"
    /\ contexts' = [contexts EXCEPT ![caller[c].idx].cancelled = TRUE]
    /\ LET k == caller[c].call IN
       log' = IF k # 0 /\ ~AboutToCall(k) THEN [log EXCEPT ![k].cancelled = "sure"] ELSE log
    /\ caller' = [caller EXCEPT ![c] = Resting]
    /\ UNCHANGED <<later, commands, worker, clock>>

-----------------------------------------------------------------------------
(* The worker: process                                                     *)

Process ==
    /\ worker.at = "idle"
    /\ worker' = [worker EXCEPT !.at = "delayed", !.now = nowMs]
    /\ UNCHANGED <<contexts, later, commands, caller, clock, log>>

(* enqueue_delayed_commands takes the delayed commands one by one.         *)
PopLater ==
    /\ worker.at = "delayed"
    /\ \/ /\ later = <<>>
          /\ worker' = [worker EXCEPT !.at = "pop"]
          /\ UNCHANGED later
       \/ /\ later # <<>>
          /\ worker' = [worker EXCEPT !.at = "sort", !.idx = Head(later)]
          /\ later' = Tail(later)
    /\ UNCHANGED <<contexts, commands, caller, clock, log>>

(* A bug the checks must see: the comparison is the wrong way round at the *)
(* boundary.                                                               *)
MutDue(i) == worker.now + 1 >= contexts[i].scheduled_ms

Due(i) == worker.now >= contexts[i].scheduled_ms

(* The first command that is due ends the search.                          *)
SortDue ==
    /\ worker.at = "sort" /\ Due(worker.idx)
    /\ \/ /\ HasRoom(commands)
          /\ commands' = Append(commands, worker.idx)
          /\ UNCHANGED contexts
       \/ /\ ~HasRoom(commands)
          /\ contexts' = Released(worker.idx)
          /\ UNCHANGED commands
    /\ worker' = [worker EXCEPT !.at = "pop", !.idx = 0, !.start = 0]
    /\ UNCHANGED <<later, caller, clock, log>>

(* A bug the checks must see: the start is the last command looked at, not *)
(* the first.                                                              *)
MutStartAfter(i) == i

StartAfter(i) == IF worker.start = 0 THEN i ELSE worker.start

(* Others go back into the queue, until the first one comes round again.   *)
SortLater ==
    /\ worker.at = "sort" /\ ~Due(worker.idx)
    /\ later' = IF HasRoom(later) THEN Append(later, worker.idx) ELSE later
    /\ worker' = IF worker.idx = worker.start
                 THEN [worker EXCEPT !.at = "pop", !.idx = 0, !.start = 0]
                 ELSE [worker EXCEPT !.at = "delayed", !.idx = 0,
                                     !.start = StartAfter(worker.idx)]
    /\ UNCHANGED <<contexts, commands, caller, clock, log>>

(* Nothing arrives in time, or a command is there.                         *)
Pop ==
    /\ worker.at = "pop"
    /\ \/ commands = <<>> /\ worker' = Waiting /\ UNCHANGED commands
       \/ /\ commands # <<>>
          /\ worker' = [Waiting EXCEPT !.at = "check", !.idx = Head(commands)]
          /\ commands' = Tail(commands)
    /\ UNCHANGED <<contexts, later, caller, clock, log>>

Check ==
    /\ worker.at = "check"
    /\ IF contexts[worker.idx].cancelled
       THEN contexts' = Released(worker.idx) /\ worker' = Waiting
       ELSE worker' = [worker EXCEPT !.at = "run"] /\ UNCHANGED contexts
    /\ UNCHANGED <<later, commands, caller, clock, log>>

Run ==
    /\ worker.at = "run"
    /\ log' = [log EXCEPT ![contexts[worker.idx].func].runs = @ + 1]
    /\ worker' = [worker EXCEPT !.at = "ran"]
    /\ UNCHANGED <<contexts, later, commands, caller, clock>>

AgainContext(i) ==
    [contexts[i] EXCEPT !.scheduled_ms = (nowMs + contexts[i].interval_ms) % ClockSize]

(* An interval command goes back among the delayed ones.                   *)
Again ==
    /\ worker.at = "ran" /\ contexts[worker.idx].interval_ms > 0
    /\ LET i == worker.idx
           again == [contexts EXCEPT ![i] = AgainContext(i)]
       IN
       \/ HasRoom(later) /\ later' = Append(later, i) /\ contexts' = again
       \/ /\ ~HasRoom(later)
          /\ contexts' = [again EXCEPT ![i].ref_count = @ - 1]
          /\ UNCHANGED later
    /\ worker' = Waiting
    /\ UNCHANGED <<commands, caller, clock, log>>

(* A bug the checks must see: the waiting thread is not told.              *)
MutUntold(i) == contexts

Told(i) == [contexts EXCEPT ![i].status = TRUE]

(* Any other is done: first the waiting thread is told, then the context   *)
(* is given back.                                                          *)
SetStatus ==
    /\ worker.at = "ran" /\ contexts[worker.idx].interval_ms <= 0
    /\ contexts' = Told(worker.idx)
    /\ worker' = [worker EXCEPT !.at = "release"]
    /\ UNCHANGED <<later, commands, caller, clock, log>>

Release ==
    /\ worker.at = "release"
    /\ contexts' = Released(worker.idx)
    /\ worker' = Waiting
    /\ UNCHANGED <<later, commands, caller, clock, log>>

-----------------------------------------------------------------------------
Tick ==
    /\ clock < Horizon
    /\ clock < LastCall \/ \A c \in Callers : caller[c].at # "fill"
    /\ clock' = clock + 1
    /\ UNCHANGED <<contexts, later, commands, caller, worker, log>>

Calling(c) ==
    \/ \E kind \in {"now", "wait"} : Find(c, kind, -1, 0)
    \/ \E kind \in {"later", "interval"}, id \in Ids, delay \in Delays : Find(c, kind, id, delay)
    \/ \E id \in Ids : Cancel(c, id)

Finishing(c) == Fill(c) \/ Put(c) \/ WaitEnds(c) \/ CancelSet(c)

Processing == \/ Process \/ PopLater \/ SortDue \/ SortLater
              \/ Pop \/ Check \/ Run \/ Again \/ SetStatus \/ Release

Next == \/ \E c \in Callers : Calling(c) \/ Finishing(c)
        \/ Processing
        \/ Tick

Spec == Init /\ [][Next]_vars

(* The worker calls process in a loop, calls that began go on, time passes.*)
FairSpec == /\ Spec
            /\ WF_vars(Processing) /\ WF_vars(Tick)
            /\ \A c \in Callers : WF_vars(Finishing(c))

-----------------------------------------------------------------------------
(* Properties                                                              *)

(* How many places hold context i: entries of the queues, the worker, the  *)
(* callers between its reference and its entry.                            *)
Holders(i) ==
    Cardinality({p \in 1 .. Len(later) : later[p] = i})
    + Cardinality({p \in 1 .. Len(commands) : commands[p] = i})
    + (IF worker.idx = i THEN 1 ELSE 0)
    + Cardinality({c \in Callers : caller[c].at = "put" /\ caller[c].idx = i})

(* The reference count of a context (line 274, "do not have increase the   *)
(* ref count here because we already did") is the number of its holders,   *)
(* at most one: no entry is dropped with its context still counted, no     *)
(* context is handed out while the worker or a queue still has it.         *)
ContextsHeldOnce ==
    \A i \in Contexts : contexts[i].ref_count = Holders(i) /\ Holders(i) <= 1

(* A function given to execute_async or execute_async_later is called once *)
(* at most, a refused one never.                                           *)
CalledOnce ==
    \A k \in Calls : /\ log[k].result = "refused" => log[k].runs = 0
                     /\ log[k].kind # "interval" => log[k].runs <= 1

(* Once cancel has returned, the only command in use with the id it was    *)
(* given is not called again, unless the worker was past its check of the  *)
(* flag.                                                                   *)
CancelHolds ==
    [][\A k \in Calls : log[k].cancelled = "sure" => log'[k].runs = log[k].runs]_vars

(* With one caller the queue is a fifo of calls, next to a set of delayed  *)
(* ones, and loses none: no number is dropped on the way between the two   *)
(* queues, an interval command always gets back, only a cancelled command  *)
(* is skipped, and a call is refused only while SIZE of them are in use.   *)
Func(i) == contexts[i].func

TakenCall == IF worker.at \in {"check", "run", "ran", "release"}
             THEN [call |-> Func(worker.idx), done |-> worker.at \in {"ran", "release"}]
             ELSE [call |-> 0, done |-> FALSE]

AskedFor(k) == CASE log[k].result = "refused" -> "refused"
                 [] log[k].result = "accepted" ->
                       IF Delayed(log[k].kind) THEN log[k].kind ELSE "now"
                 [] OTHER -> "none"

Fifo == INSTANCE CommandFifo WITH
    Size <- SIZE,
    asked <- [k \in Calls |-> AskedFor(k)],
    cancelled <- {k \in Calls : log[k].cancelled # "no"},
    fifo <- [p \in DOMAIN commands |-> Func(commands[p])],
    delayed <- {Func(i) : i \in {later[p] : p \in DOMAIN later}
                                \cup (IF worker.at = "sort" THEN {worker.idx} ELSE {})},
    taken <- TakenCall,
    called <- [k \in Calls |-> log[k].runs]

ImplementsCommandFifo == Fifo!FifoSpec

(* A delayed command is not called before its delay is over.               *)
NotEarly ==
    [][\A k \in Calls : log'[k].runs > log[k].runs => clock >= log[k].due]_vars

(* execute_async with wait returns after its function was called.          *)
WaitMeansDone ==
    [][\A c \in Callers : caller[c].at = "wait" /\ caller'[c].at = "idle"
           => log[caller[c].call].runs = 1]_vars

(* A call that waits returns.                                              *)
WaitReturns == \A c \in Callers : caller[c].at = "wait" ~> caller[c].at = "idle"

(* What was accepted is called, unless it is cancelled.                    *)
AcceptedIsCalled ==
    \A k \in Calls : log[k].result = "accepted" ~> log[k].runs > 0 \/ log[k].cancelled # "no"

=============================================================================
