------------------------------ MODULE EventTrace ------------------------------
(***************************************************************************)
(* lib_lw_event_trace's logger, in which threads record the begin and the  *)
(* end of scopes, and lib_http's PayloadTraceEvent, which delivers the     *)
(* events as a JSON array: it refers to the logger's vector and reads it   *)
(* without the logger's lock.                                              *)
(*                                                                         *)
(* An event is its thread's id and phase.  Its JSON counts two units, the  *)
(* object and the character behind it; the bracket before the first event  *)
(* is a unit of its own.  A step of the reader is atomic.                  *)
(***************************************************************************)
EXTENDS Naturals, Sequences, SequencesExt, FiniteSets, FiniteSetsExt

CONSTANTS Threads,       \* the ids of the threads
          MaxNested,     \* bound: scopes of a thread within each other
          Reservations,  \* the numbers of events enable is called for
          WordSize       \* values of a size_t

ASSUME TraceAssumption ==
    /\ Threads \subseteq Nat /\ MaxNested \in Nat
    /\ Reservations \subseteq Nat
    /\ WordSize \in Nat \ {0} /\ \A n \in Reservations : n < WordSize

VARIABLES enabled,   \* m_enabled
          capacity,  \* of m_events
          events,    \* m_events
          open,      \* the ScopedEvents that live: <<thread, how deep it is nested>>
          before,    \* history: those that lived when the trace was enabled
          payload,   \* of the response that is being sent, or NoPayload
          body,      \* history: what was committed of it, until the events are cleared
          since      \* history: what happened to the events since its creation

traceVars == <<enabled, capacity, events, open, before, payload, body, since>>
log == <<enabled, capacity, events, open, before>>

NoPayload == <<>>

TraceInit == /\ enabled = FALSE /\ capacity = 0 /\ events = <<>>
             /\ open = {} /\ before = {}
             /\ payload = NoPayload /\ body = <<>> /\ since = "quiet"

-----------------------------------------------------------------------------
(* The logger, under its lock                                              *)

(* reserve never gives memory back.                                        *)
Enable(n) ==
    /\ capacity' = Max({capacity, n})
    /\ events' = <<>> /\ enabled' = TRUE /\ before' = open
    /\ since' = "cleared" /\ body' = <<>>
    /\ UNCHANGED <<open, payload>>

Disable == /\ enabled' = FALSE
           /\ UNCHANGED <<capacity, events, open, before, payload, body, since>>

(* A bug the checks must see: there is always room.                        *)
MutHasRoom == TRUE

(* One element stays free; capacity() - 1 is a size_t.                     *)
HasRoom == Len(events) < (capacity + WordSize - 1) % WordSize

(* push_back doubles a vector that is full.                                *)
Grown == IF Len(events) < capacity THEN capacity ELSE Max({1, 2 * capacity})

(* An event has eight bits for the id of its thread: others may share it.  *)
Id(t) == t % 255

(* A bug the checks must see: the end of a scope is always recorded.       *)
MutAddEventTrace(t, phase) ==
    LET recorded == (enabled \/ phase = "E") /\ HasRoom IN
    /\ events' = IF recorded THEN Append(events, <<Id(t), phase>>) ELSE events
    /\ capacity' = IF recorded THEN Grown ELSE capacity
    /\ since' = IF recorded /\ since # "cleared" THEN "grown" ELSE since

AddEventTrace(t, phase) ==
    \/ /\ enabled /\ HasRoom
       /\ events' = Append(events, <<Id(t), phase>>)
       /\ capacity' = Grown
       /\ since' = IF since = "cleared" THEN since ELSE "grown"
    \/ /\ ~(enabled /\ HasRoom)
       /\ UNCHANGED <<events, capacity, since>>

(* ScopedEvent: constructed within the others of its thread, ...           *)
Begin(t, n) ==
    /\ <<t, n>> \notin open /\ (n = 1 \/ <<t, n - 1>> \in open)
    /\ open' = open \cup {<<t, n>>}
    /\ AddEventTrace(t, "B")
    /\ UNCHANGED <<enabled, before, payload, body>>

(* ... and destroyed when those within it are.                             *)
End(t, n) ==
    /\ <<t, n>> \in open /\ <<t, n + 1>> \notin open
    /\ open' = open \ {<<t, n>>}
    /\ AddEventTrace(t, "E")
    /\ UNCHANGED <<enabled, before, payload, body>>

-----------------------------------------------------------------------------
(* The payload                                                             *)

Json(k, first, behind) == (IF first THEN <<<<"open">>>> ELSE <<>>) \o <<events[k], <<behind>>>>

(* size: the JSON of every event, and the bracket.                         *)
JsonSize == 2 * Len(events) + 1

Create ==
    /\ payload = NoPayload
    /\ payload' = [text |-> <<>>, cursor |-> 0, index |-> 0]
    /\ body' = <<>> /\ since' = "quiet"
    /\ UNCHANGED log

(* A bug the checks must see: the index counts from one.                   *)
MutIsLast(index) == index = Len(events)

IsLast(index) == index = Len(events) - 1

(* get_read_ptr goes on to the next event when the last one is committed.  *)
Fetched(p) ==
    IF p.cursor = Len(p.text) /\ p.index < Len(events)
    THEN [p EXCEPT !.text = Json(p.index + 1, p.index = 0,
                                 IF IsLast(p.index) THEN "close" ELSE "comma"),
                   !.cursor = 0, !.index = @ + 1]
    ELSE p

GetReadPtr ==
    /\ payload # NoPayload
    /\ payload' = Fetched(payload)
    /\ UNCHANGED <<log, body, since>>

IsComplete(p) == p.cursor = Len(p.text) /\ p.index >= Len(events)

(* The server commits what fits into its packet of what it was given.      *)
CommitEvents(n) ==
    /\ payload # NoPayload /\ n \in 1 .. Len(payload.text) - payload.cursor
    /\ body' = IF since = "cleared" THEN body
               ELSE body \o SubSeq(payload.text, payload.cursor + 1, payload.cursor + n)
    /\ LET p == [payload EXCEPT !.cursor = @ + n]
       IN  payload' = IF IsComplete(p) THEN NoPayload ELSE p
    /\ UNCHANGED <<log, since>>

TraceNext ==
    \/ \E n \in Reservations : Enable(n)
    \/ Disable \/ Create \/ GetReadPtr
    \/ \E t \in Threads, n \in 1 .. MaxNested : Begin(t, n) \/ End(t, n)
    \/ \E n \in 1 .. 3 : CommitEvents(n)

TraceSpec == TraceInit /\ [][TraceNext]_traceVars

-----------------------------------------------------------------------------
(* How many of the first k events are such, and how many of the scopes are *)
(* of threads with this id.                                                *)
Count(k, id, phase) == Cardinality({i \in 1 .. k : events[i] = <<id, phase>>})

OfId(scopes, id) == Cardinality({s \in scopes : Id(s[1]) = id})

(* Whatever is recorded, dropped and cleared in the middle of scopes, the  *)
(* events, replayed from the scopes that were open at enable, never end a  *)
(* scope that is not open, and lead to exactly the scopes open now as long *)
(* as there is room.  Threads of one id are counted together: the events   *)
(* do not tell them apart.                                                 *)
ScopesBalance == \A t \in Threads :
    LET id == Id(t) IN
    /\ \A k \in DOMAIN events :
          Count(k, id, "E") <= OfId(before, id) + Count(k, id, "B")
    /\ enabled /\ HasRoom =>
          OfId(before, id) + Count(Len(events), id, "B")
              = OfId(open, id) + Count(Len(events), id, "E")

(* "pre-allocate to avoid any stalls" (lw_event_trace.cpp:32): recording   *)
(* never moves the events, to which the payload refers.  Memory is         *)
(* allocated by a recording thread only for the first event of a trace     *)
(* that was enabled with no room for one: capacity() - 1 wraps at 0.       *)
EventsStayInPlace ==
    [][capacity' # capacity /\ events' # <<>> => capacity = 0 /\ events = <<>>]_traceVars

(* A JSON array of the first n events, with a character behind each; and   *)
(* the array of all.                                                       *)
IsJson(text, n) ==
    /\ Len(text) = IF n = 0 THEN 0 ELSE 2 * n + 1
    /\ n > 0 => text[1] = <<"open">>
    /\ \A k \in 1 .. n : text[2 * k] = events[k] /\ text[2 * k + 1] \in {<<"comma">>, <<"close">>}

IsDocument(text) ==
    /\ IsJson(text, Len(events))
    /\ \A k \in DOMAIN events : text[2 * k + 1] = <<IF k = Len(events) THEN "close" ELSE "comma">>

Rest(p) == SubSeq(p.text, p.cursor + 1, Len(p.text))

(* What the client gets while threads record are the events in order, none *)
(* twice and none left out, unless they are cleared.  If events come after *)
(* the one that was the last, its bracket stands in the middle of the text *)
(* (get_read_ptr looks at what is there then): only a download during      *)
(* which nothing is recorded or cleared is a whole array, and has the size *)
(* its header announced.                                                   *)
DownloadIsExact ==
    /\ payload # NoPayload /\ since # "cleared" => IsJson(body \o Rest(payload), payload.index)
    /\ payload = NoPayload /\ since = "quiet" /\ body # <<>> =>
          IsDocument(body) /\ Len(body) = JsonSize

=============================================================================
