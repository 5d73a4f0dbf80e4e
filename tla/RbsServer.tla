------------------------------ MODULE RbsServer ------------------------------
(***************************************************************************)
(* lib_rbs: the client side of reference broadcast synchronisation.  The   *)
(* network thread queues sync pulses, each carrying a table of clock       *)
(* coefficients; the server thread adopts new tables into a double buffer  *)
(* and replies with the latest timestamps; any other thread converts its   *)
(* local time by the active table, without a lock.                         *)
(*                                                                         *)
(* Of a table only what concerns this sensor is kept: whether it is listed *)
(* and its coefficients m and t, each standing for the table it is from.   *)
(***************************************************************************)
EXTENDS Integers, Sequences, SequencesExt

CONSTANTS Tables,      \* table ids
          Unlisted,    \* the tables without a row for this sensor
          QueueSize,   \* capacity of m_received_packets, 10
          MaxPulses    \* bound: packets received

ASSUME RbsAssumption ==
    /\ Tables \subseteq Nat /\ Unlisted \subseteq Tables
    /\ QueueSize \in Nat \ {0} /\ MaxPulses \in Nat

VARIABLES buffers,    \* m_sync_table_buffer[0], [1] and, at 2, nullTable
          active_table,     \* active_sync_table: the index of one of them
          queue,      \* m_received_packets
          history,    \* m_history, sequence ids only
          suspended,  \* m_suspended
          socket,     \* m_udp_socket: "none", "deaf" without callback, or "open"
          server,     \* where the server thread is, and the packet it processes
          reader,     \* where calculate_synced_time is, its pointer, m and t,
                      \* and, a history, what happened to its table (age) and
                      \* the coefficients of the tables active so far (seen)
          received,   \* number of packets received
          held,       \* packets of the network stack not yet given back
          answered    \* history: the pulses answered since the last reset

rbsVars == <<buffers, active_table, queue, history, suspended, socket, server, reader,
             received, held, answered>>
tableVars  == <<buffers, active_table>>
packetVars == <<queue, received, held>>
replyVars  == <<history, answered>>

NoCoeff == -1   \* a coefficient of zeroed memory

ZeroTable == [table_id |-> 0, listed |-> FALSE, m |-> NoCoeff, t |-> NoCoeff]

(* No conversion is under way.                                             *)
Idle == [at |-> "idle", table |-> 0, m |-> NoCoeff, t |-> NoCoeff,
         seen |-> {}, age |-> "active"]

NoPacket == [sequence_id |-> 0, table_id |-> 0, valid |-> FALSE]

RbsInit == /\ buffers = [b \in 0 .. 2 |-> ZeroTable]
           /\ active_table = 0
           /\ queue = <<>> /\ history = <<>> /\ answered = <<>>
           /\ suspended = FALSE /\ socket = "none"
           /\ server = [at |-> "idle", packet |-> NoPacket, adopt |-> FALSE]
           /\ reader = Idle
           /\ received = 0 /\ held = 0

At(label) == server' = [server EXCEPT !.at = label]

-----------------------------------------------------------------------------
(* The network thread: on_receive_packet                                   *)

(* Given back at once.                                                     *)
Dropped == held

Receive(id, valid) ==
    /\ socket = "open" /\ received < MaxPulses
    /\ received' = received + 1
    /\ \/ /\ Len(queue) < QueueSize
          /\ queue' = Append(queue, [sequence_id |-> received', table_id |-> id,
                                     valid |-> valid])
          /\ held' = held + 1
       \/ Len(queue) >= QueueSize /\ held' = Dropped /\ UNCHANGED queue
    /\ UNCHANGED <<tableVars, replyVars, suspended, socket, server, reader>>

-----------------------------------------------------------------------------
(* The server thread: process                                              *)

PopPulse ==
    /\ server.at = "idle" /\ queue # <<>>
    /\ server' = [at |-> IF Head(queue).valid THEN "compare" ELSE "delete",
                  packet |-> Head(queue), adopt |-> FALSE]
    /\ queue' = Tail(queue)
    /\ UNCHANGED <<tableVars, replyVars, suspended, socket, reader, received, held>>

(* A bug the checks must see: only larger ids are new.                     *)
MutIsNew(id) == id > buffers[active_table].table_id

IsNew(id) == id # buffers[active_table].table_id

Compare ==
    /\ server.at = "compare"
    /\ LET adopt == IsNew(server.packet.table_id) /\ ~suspended IN
       server' = [server EXCEPT !.at = IF adopt THEN "copy" ELSE "reply",
                                !.adopt = ~suspended]
    /\ UNCHANGED <<tableVars, packetVars, replyVars, suspended, socket, reader>>

(* A bug the checks must see: the buffers are taken for each other.        *)
MutNotInUse == IF active_table = 0 THEN 0 ELSE 1

NotInUse == IF active_table = 0 THEN 1 ELSE 0

(* Nobody waits for a reader: it may be in a buffer that is written.       *)
Overtaken(r) == IF r.at = "idle" THEN r ELSE [r EXCEPT !.age = "overtaken"]

(* flip_sync_tables copies the table field by field ...                    *)
CopyRow ==
    /\ server.at = "copy"
    /\ LET id == server.packet.table_id IN
       buffers' = [buffers EXCEPT ![NotInUse].table_id = id,
                                  ![NotInUse].listed = id \notin Unlisted]
    /\ reader' = IF reader.age = "old" THEN Overtaken(reader) ELSE reader
    /\ At("copy m")
    /\ UNCHANGED <<active_table, packetVars, replyVars, suspended, socket>>

CopyM ==
    /\ server.at = "copy m"
    /\ buffers' = [buffers EXCEPT ![NotInUse].m = server.packet.table_id]
    /\ At("copy t")
    /\ UNCHANGED <<active_table, packetVars, replyVars, suspended, socket, reader>>

CopyT ==
    /\ server.at = "copy t"
    /\ buffers' = [buffers EXCEPT ![NotInUse].t = server.packet.table_id]
    /\ At("flip")
    /\ UNCHANGED <<active_table, packetVars, replyVars, suspended, socket, reader>>

(* A reader in the middle of a read, when table b becomes active: it may   *)
(* have been given b's coefficients, its own table is old.                 *)
Noted(b) == IF reader.at = "idle" THEN reader
            ELSE [reader EXCEPT !.seen = @ \cup {buffers[b].m},
                                !.age = IF @ = "active" THEN "old" ELSE @]

(* ... and makes it the active one.                                        *)
Flip ==
    /\ server.at = "flip"
    /\ active_table' = NotInUse
    /\ reader' = Noted(NotInUse)
    /\ At("reply")
    /\ UNCHANGED <<buffers, packetVars, replyVars, suspended, socket>>

(* A bug the checks must see: one timestamp too many is kept.              *)
MutKept(h) == IF Len(h) > 3 THEN Tail(h) ELSE h

(* The history before a timestamp is added to it.                          *)
Kept(h) == IF Len(h) > 2 THEN Tail(h) ELSE h

(* The history is put into a packet, if the stack has one ...              *)
Reply ==
    /\ server.at = "reply"
    /\ history' = Append(Kept(history), server.packet.sequence_id)
    /\ answered' = Append(answered, server.packet.sequence_id)
    /\ \/ At("send") /\ held' = held + 1
       \/ At("delete") /\ UNCHANGED held
    /\ UNCHANGED <<tableVars, queue, received, suspended, socket, reader>>

(* A bug the checks must see: a packet that is not sent is kept.           *)
MutNotSent == held

(* Deleted.                                                                *)
NotSent == held - 1

(* ... and sent back: the stack takes it, or it fails.                     *)
Send ==
    /\ server.at = "send"
    /\ held' \in {held - 1, NotSent}
    /\ At("delete")
    /\ UNCHANGED <<tableVars, queue, received, replyVars, suspended, socket, reader>>

Delete ==
    /\ server.at = "delete"
    /\ held' = held - 1
    /\ server' = [at |-> "idle", packet |-> NoPacket, adopt |-> FALSE]
    /\ UNCHANGED <<tableVars, queue, received, replyVars, suspended, socket, reader>>

-----------------------------------------------------------------------------
(* reset, suspend, start, stop                                             *)

(* A bug the checks must see: the tables are cleared while one is active.  *)
MutResetTable == active_table

(* The table that is active while the buffers are cleared.                 *)
ResetTable == 2

ResetBegin ==
    /\ server.at = "idle"
    /\ active_table' = ResetTable
    /\ reader' = Overtaken(Noted(ResetTable))
    /\ At("clear")
    /\ UNCHANGED <<buffers, packetVars, replyVars, suspended, socket>>

ResetClear ==
    /\ server.at = "clear"
    /\ buffers' = [b \in 0 .. 2 |-> ZeroTable]
    /\ At("restart")
    /\ UNCHANGED <<active_table, packetVars, replyVars, suspended, socket, reader>>

ResetEnd ==
    /\ server.at = "restart"
    /\ active_table' = 0
    /\ reader' = Noted(0)
    /\ history' = <<>> /\ answered' = <<>>
    /\ At("idle")
    /\ UNCHANGED <<buffers, packetVars, suspended, socket>>

Suspend ==
    /\ suspended' = ~suspended
    /\ UNCHANGED <<tableVars, packetVars, replyVars, socket, server, reader>>

(* There may be no socket, or one that is not told of packets and keeps    *)
(* start from trying again.                                                *)
Start ==
    /\ server.at = "idle" /\ socket = "none"
    /\ socket' \in {"none", "deaf", "open"}
    /\ UNCHANGED <<tableVars, packetVars, replyVars, suspended, server, reader>>

(* stop gives back what is queued, while the socket still receives.        *)
Stop ==
    /\ server.at = "idle"
    /\ At("drain")
    /\ UNCHANGED <<tableVars, packetVars, replyVars, suspended, socket, reader>>

Drain ==
    /\ server.at = "drain"
    /\ \/ /\ queue # <<>>
          /\ queue' = Tail(queue) /\ held' = held - 1
          /\ UNCHANGED server
       \/ queue = <<>> /\ At("close") /\ UNCHANGED <<queue, held>>
    /\ UNCHANGED <<tableVars, received, replyVars, suspended, socket, reader>>

Close ==
    /\ server.at = "close"
    /\ socket' = "none"
    /\ At("idle")
    /\ UNCHANGED <<tableVars, packetVars, replyVars, suspended, reader>>

-----------------------------------------------------------------------------
(* Another thread: calculate_synced_time                                   *)

Load ==
    /\ reader.at = "idle"
    /\ reader' = [Idle EXCEPT !.at = "row", !.table = active_table,
                              !.seen = {buffers[active_table].m}]
    /\ UNCHANGED <<tableVars, packetVars, replyVars, suspended, socket, server>>

(* get_coeff looks for the sensor's row; without it the conversion fails.  *)
ReadRow ==
    /\ reader.at = "row"
    /\ reader' = IF buffers[reader.table].listed
                 THEN [reader EXCEPT !.at = "m"] ELSE Idle
    /\ UNCHANGED <<tableVars, packetVars, replyVars, suspended, socket, server>>

ReadM ==
    /\ reader.at = "m"
    /\ reader' = [reader EXCEPT !.at = "t", !.m = buffers[reader.table].m]
    /\ UNCHANGED <<tableVars, packetVars, replyVars, suspended, socket, server>>

ReadT ==
    /\ reader.at = "t"
    /\ reader' = [reader EXCEPT !.at = "done", !.t = buffers[reader.table].t]
    /\ UNCHANGED <<tableVars, packetVars, replyVars, suspended, socket, server>>

Return ==
    /\ reader.at = "done"
    /\ reader' = Idle
    /\ UNCHANGED <<tableVars, packetVars, replyVars, suspended, socket, server>>

RbsNext == \/ \E id \in Tables, valid \in BOOLEAN : Receive(id, valid)
           \/ PopPulse \/ Compare \/ CopyRow \/ CopyM \/ CopyT \/ Flip
           \/ Reply \/ Send \/ Delete
           \/ ResetBegin \/ ResetClear \/ ResetEnd
           \/ Suspend \/ Start \/ Stop \/ Drain \/ Close
           \/ Load \/ ReadRow \/ ReadM \/ ReadT \/ Return

RbsSpec == RbsInit /\ [][RbsNext]_rbsVars

-----------------------------------------------------------------------------
(* Properties                                                              *)

(* "the buffer pointed at by `active_sync_table` always being valid"       *)
(* (rbs_sync_table.cpp:11): a step that does not switch tables leaves the  *)
(* active one alone.                                                       *)
ActiveIsUntouched ==
    [][active_table' = active_table => buffers'[active_table] = buffers[active_table]]_rbsVars

(* "To avoid race conditions" (rbs_sync_table.cpp:10): both coefficients   *)
(* of a conversion are from one table, which was active during the call,   *)
(* whatever new table comes in the middle of it.  The code promises no     *)
(* more: a conversion still under way when a second new table is copied,   *)
(* or when reset clears the buffers, may mix coefficients of two.          *)
ReadsOneTable ==
    reader.at = "done" /\ reader.age # "overtaken"
        => reader.m = reader.t /\ reader.m \in reader.seen

(* A reply carries the pulse it answers and the two answered before it.    *)
RepliesAreRecent ==
    history = SubSeq(answered, IF Len(answered) > 3 THEN Len(answered) - 2 ELSE 1,
                     Len(answered))

(* Every packet of the network stack is queued, being processed or given   *)
(* back, once, and so is every packet for a reply that was created.        *)
PacketsAccounted ==
    held = Len(queue) + (IF server.packet = NoPacket THEN 0 ELSE 1)
                      + (IF server.at = "send" THEN 1 ELSE 0)

(* When a pulse is answered its table is the active one, unless the server *)
(* was suspended.                                                          *)
TableIsAdopted ==
    server.at \in {"reply", "send", "delete"} /\ server.adopt
        => buffers[active_table].table_id = server.packet.table_id

=============================================================================
