-------------------------- MODULE RbsServer_proofs --------------------------
(***************************************************************************)
(* Proofs about RbsServer, for any tables, queue and number of pulses: the *)
(* active table is never written, an answered pulse's table is the active  *)
(* one, every packet is given back once, and a conversion that no second   *)
(* table and no reset overtakes uses one table.                            *)
(***************************************************************************)
EXTENDS RbsServer, SequenceTheorems, TLAPS

Copying    == {"copy m", "copy t", "flip"}
Answering  == {"reply", "send", "delete"}
Processing == {"compare", "copy"} \cup Copying \cup Answering
Resetting  == {"clear", "restart"}
Stopping   == {"drain", "close"}

Table   == [table_id : Int, listed : BOOLEAN, m : Int, t : Int]
Packets == [sequence_id : Nat \ {0}, table_id : Int, valid : BOOLEAN]

Labels == {"idle", "compare", "copy", "copy m", "copy t", "flip", "reply", "send", "delete",
           "clear", "restart", "drain", "close"}
Servers == [at : Labels, packet : Packets \cup {NoPacket}, adopt : BOOLEAN]
Readers == [at : {"idle", "row", "m", "t", "done"}, table : 0 .. 2, m : Int, t : Int,
            seen : SUBSET Int, age : {"active", "old", "overtaken"}]

Types ==
    /\ buffers \in [0 .. 2 -> Table] /\ active_table \in 0 .. 2
    /\ queue \in Seq(Packets)
    /\ server \in Servers /\ reader \in Readers
    /\ received \in Nat /\ held \in Int

(* The server has a packet while it processes one.                         *)
HasPacket == IF server.at \in Processing THEN server.packet \in Packets
             ELSE server.packet = NoPacket

-----------------------------------------------------------------------------
LEMMA TypesInit ==
    ASSUME RbsInit
    PROVE  Types /\ HasPacket
<1>1. ZeroTable \in Table
  BY DEF ZeroTable, Table, NoCoeff
<1>2. server \in Servers /\ HasPacket
  BY DEF RbsInit, Servers, Labels, HasPacket, Processing, Copying, Answering
<1>3. reader \in Readers
  BY DEF RbsInit, Idle, Readers, NoCoeff
<1>4. buffers \in [0 .. 2 -> Table]
  BY <1>1 DEF RbsInit
<1> QED
  BY <1>2, <1>3, <1>4 DEF RbsInit, Types

(* What a step of the server thread writes into server.                    *)
LEMMA AtType ==
    ASSUME Types, NEW label \in Labels, At(label)
    PROVE  server' \in Servers /\ server'.at = label /\ server'.packet = server.packet
           /\ server'.adopt = server.adopt
  BY DEF At, Types, Servers

(* A switch of tables adds a coefficient to what the reader may see.       *)
LEMMA NotedType ==
    ASSUME Types, NEW b \in 0 .. 2
    PROVE  Noted(b) \in Readers
  BY DEF Noted, Types, Readers, Table

LEMMA OvertakenType ==
    ASSUME NEW r \in Readers
    PROVE  Overtaken(r) \in Readers
  BY DEF Overtaken, Readers

LEMMA TypesNext ==
    ASSUME Types, HasPacket, [RbsNext]_rbsVars
    PROVE  Types' /\ HasPacket'
<1> USE DEF tableVars, packetVars, replyVars
<1>1. ASSUME NEW id \in Tables, NEW valid \in BOOLEAN, Receive(id, valid)
      PROVE  Types' /\ HasPacket'
  <2> DEFINE packet == [sequence_id |-> received', table_id |-> id, valid |-> valid]
  <2>1. received' \in Nat \ {0} /\ held' \in Int
    BY <1>1 DEF Receive, Dropped, Types
  <2>2. packet \in Packets
    BY <2>1, RbsAssumption DEF Packets
  <2>3. queue' = queue \/ queue' = Append(queue, packet)
    BY <1>1 DEF Receive
  <2>4. queue' \in Seq(Packets)
    <3> HIDE DEF packet
    <3> QED
      BY <2>2, <2>3 DEF Types
  <2> QED
    BY <1>1, <2>1, <2>4 DEF Receive, Types, HasPacket
<1>2. CASE PopPulse
  <2>1. Head(queue) \in Packets /\ queue' \in Seq(Packets)
    BY <1>2 DEF PopPulse, Types
  <2>2. server' \in Servers /\ server'.packet = Head(queue)
        /\ server'.at \in {"compare", "delete"}
    BY <1>2, <2>1 DEF PopPulse, Servers, Labels
  <2> QED
    BY <1>2, <2>1, <2>2 DEF PopPulse, Types, HasPacket, Processing, Answering
<1>3. CASE Compare
  <2>1. server' \in Servers /\ server'.packet = server.packet
        /\ server'.at \in {"copy", "reply"} /\ server.at = "compare"
    BY <1>3 DEF Compare, Types, Servers, Labels
  <2> QED
    BY <1>3, <2>1 DEF Compare, Types, HasPacket, Processing, Answering
<1>4. CASE CopyRow \/ CopyM \/ CopyT
  <2>1. NotInUse \in 0 .. 2
    BY DEF NotInUse
  <2>2. server.at \in Processing /\ server.packet \in Packets
    BY <1>4 DEF CopyRow, CopyM, CopyT, HasPacket, Processing, Copying
  <2>3. server.packet.table_id \in Int
    BY <2>2 DEF Packets
  <2>4. buffers' \in [0 .. 2 -> Table]
    <3>1. \A b \in 0 .. 2 : buffers[b] \in Table
      BY DEF Types
    <3>2. CASE CopyRow
      BY <2>1, <2>3, <3>1, <3>2 DEF CopyRow, Types, Table
    <3>3. CASE CopyM
      BY <2>1, <2>3, <3>1, <3>3 DEF CopyM, Types, Table
    <3>4. CASE CopyT
      BY <2>1, <2>3, <3>1, <3>4 DEF CopyT, Types, Table
    <3> QED
      BY <1>4, <3>2, <3>3, <3>4
  <2>5. server' \in Servers /\ server'.packet = server.packet /\ server'.at \in Copying
    BY <1>4, AtType DEF CopyRow, CopyM, CopyT, Copying, Labels
  <2>6. reader' \in Readers
    BY <1>4, OvertakenType DEF CopyRow, CopyM, CopyT, Types
  <2> QED
    BY <1>4, <2>2, <2>4, <2>5, <2>6 DEF CopyRow, CopyM, CopyT, Types, HasPacket, Processing
<1>5. CASE Flip
  <2>1. NotInUse \in 0 .. 2
    BY DEF NotInUse
  <2>2. server' \in Servers /\ server'.packet = server.packet /\ server'.at = "reply"
    BY <1>5, AtType DEF Flip, Labels
  <2>3. reader' \in Readers
    BY <1>5, <2>1, NotedType DEF Flip
  <2> QED
    BY <1>5, <2>1, <2>2, <2>3 DEF Flip, Types, HasPacket, Processing, Copying, Answering
<1>6. CASE Reply \/ Send
  <2>1. server' \in Servers /\ server'.packet = server.packet
        /\ server'.at \in {"send", "delete"}
    BY <1>6, AtType DEF Reply, Send, Labels
  <2>2. held' \in Int
    BY <1>6 DEF Reply, Send, NotSent, Types
  <2> QED
    BY <1>6, <2>1, <2>2 DEF Reply, Send, Types, HasPacket, Processing, Answering
<1>7. CASE Delete
  <2>1. server' \in Servers /\ server'.packet = NoPacket /\ server'.at = "idle"
    BY <1>7 DEF Delete, Servers, Labels
  <2> QED
    BY <1>7, <2>1 DEF Delete, Types, HasPacket, Processing, Copying, Answering
<1>8. CASE ResetBegin \/ ResetClear \/ ResetEnd \/ Stop \/ Close
  <2>1. server' \in Servers /\ server'.packet = server.packet
        /\ server'.at \in {"clear", "restart", "idle", "drain"}
    BY <1>8, AtType DEF ResetBegin, ResetClear, ResetEnd, Stop, Close, Labels
  <2>2. server.at \notin Processing
    BY <1>8 DEF ResetBegin, ResetClear, ResetEnd, Stop, Close, Processing, Copying, Answering
  <2>3. active_table' \in 0 .. 2 /\ reader' \in Readers
    BY <1>8, NotedType, OvertakenType
       DEF ResetBegin, ResetClear, ResetEnd, Stop, Close, ResetTable, Types
  <2>4. ZeroTable \in Table
    BY DEF ZeroTable, Table, NoCoeff
  <2>5. buffers' \in [0 .. 2 -> Table]
    BY <1>8, <2>4 DEF ResetBegin, ResetClear, ResetEnd, Stop, Close, Types
  <2>6. UNCHANGED <<queue, received, held>>
    BY <1>8 DEF ResetBegin, ResetClear, ResetEnd, Stop, Close
  <2> QED
    BY <2>1, <2>2, <2>3, <2>5, <2>6 DEF Types, HasPacket, Processing, Copying, Answering
<1>9. CASE Drain
  <2>1. server' \in Servers /\ server'.packet = server.packet
        /\ server'.at \in {"drain", "close"} /\ server.at = "drain"
    BY <1>9, AtType DEF Drain, Types, Labels
  <2>2. queue' \in Seq(Packets) /\ held' \in Int
    BY <1>9 DEF Drain, Types
  <2> QED
    BY <1>9, <2>1, <2>2 DEF Drain, Types, HasPacket, Processing, Copying, Answering
<1>10. CASE Suspend \/ Start \/ UNCHANGED rbsVars
  BY <1>10 DEF Suspend, Start, rbsVars, Types, HasPacket
<1>11. CASE Load \/ ReadRow \/ ReadM \/ ReadT \/ Return
  <2>1. reader' \in Readers
    <3>1. \A b \in 0 .. 2 : buffers[b].m \in Int /\ buffers[b].t \in Int
      BY DEF Types, Table
    <3>2. Idle \in Readers
      BY DEF Idle, Readers, NoCoeff
    <3>3. CASE Load
      <4>1. active_table \in 0 .. 2 /\ {buffers[active_table].m} \in SUBSET Int
        BY <3>1 DEF Types
      <4>2. reader' = [at |-> "row", table |-> active_table, m |-> NoCoeff, t |-> NoCoeff,
                       seen |-> {buffers[active_table].m}, age |-> "active"]
        BY <3>3 DEF Load, Idle
      <4> QED
        BY <4>1, <4>2 DEF Readers, NoCoeff
    <3>4. CASE ReadRow
      BY <3>2, <3>4 DEF ReadRow, Types, Readers
    <3>5. CASE ReadM
      BY <3>1, <3>5 DEF ReadM, Types, Readers
    <3>6. CASE ReadT
      BY <3>1, <3>6 DEF ReadT, Types, Readers
    <3>7. CASE Return
      BY <3>2, <3>7 DEF Return
    <3> QED
      BY <1>11, <3>3, <3>4, <3>5, <3>6, <3>7
  <2> QED
    BY <1>11, <2>1 DEF Load, ReadRow, ReadM, ReadT, Return, Types, HasPacket
<1> QED
  BY <1>1, <1>2, <1>3, <1>4, <1>5, <1>6, <1>7, <1>8, <1>9, <1>10, <1>11 DEF RbsNext

(* The variables have their shape, and the server has a packet while it    *)
(* processes one.                                                          *)
THEOREM ServerTypes == RbsSpec => [](Types /\ HasPacket)
<1>1. RbsInit => Types /\ HasPacket
  BY TypesInit
<1>2. Types /\ HasPacket /\ [RbsNext]_rbsVars => (Types /\ HasPacket)'
  BY TypesNext
<1> QED
  BY <1>1, <1>2, PTL DEF RbsSpec

-----------------------------------------------------------------------------
(* The cleared table is active only while the others are cleared, the new  *)
(* one is copied next to the active one, and is active when its pulse is   *)
(* answered.                                                               *)
TablesInv ==
    /\ active_table = ResetTable <=> server.at \in Resetting
    /\ buffers[ResetTable] = ZeroTable
    /\ server.at \in Copying => buffers[NotInUse].table_id = server.packet.table_id
    /\ server.at \in Answering /\ server.adopt
          => buffers[active_table].table_id = server.packet.table_id

(* What is held of the network stack's packets.                            *)
PacketsInv ==
    /\ server.at \notin Processing => held = Len(queue)
    /\ server.at \in Processing \ {"send"} => held = Len(queue) + 1
    /\ server.at = "send" => held = Len(queue) + 2

(* Outside of copying both coefficients of a table are of one kind.  The   *)
(* table of a reader that is not overtaken is not being written: it is     *)
(* active, or the cleared one, or old with nothing being copied.           *)
ReadsInv ==
    /\ \A b \in 0 .. 2 :
          ~(server.at = "copy t" /\ b = NotInUse) => buffers[b].m = buffers[b].t
    /\ server.at = "copy t" => buffers[NotInUse].m = server.packet.table_id
    /\ reader.at # "idle" /\ reader.age # "overtaken" =>
          /\ buffers[reader.table].m \in reader.seen
          /\ reader.at \in {"t", "done"} => reader.m = buffers[reader.table].m
          /\ reader.at = "done" => reader.t = reader.m
          /\ \/ reader.table \in {active_table, ResetTable}
             \/ reader.age = "old" /\ server.at \notin Copying \cup Resetting
    /\ reader.at # "idle" /\ reader.age = "active" => reader.table = active_table
    /\ server.at \in Copying => reader.age # "old"
    /\ reader.at = "idle" => reader.age = "active"

(* What the steps of the server thread do to server.at.                    *)
LEMMA AtStep ==
    ASSUME Types, NEW label \in Labels, At(label)
    PROVE  server'.at = label /\ server'.packet = server.packet /\ server'.adopt = server.adopt
  BY AtType

(* The copying of a table, field by field: the others stay as they are.    *)
LEMMA CopyStep ==
    ASSUME Types, TablesInv, CopyRow \/ CopyM \/ CopyT
    PROVE  /\ active_table' = active_table
           /\ reader' = IF reader.age = "old" /\ server.at = "copy" THEN Overtaken(reader)
                        ELSE reader
           /\ NotInUse \in {0, 1} \ {active_table}
           /\ \A b \in (0 .. 2) \ {NotInUse} : buffers'[b] = buffers[b]
           /\ buffers'[NotInUse].table_id = server.packet.table_id
           /\ server'.packet = server.packet
           /\ \/ /\ server.at = "copy" /\ server'.at = "copy m"
                 /\ buffers'[NotInUse].m = buffers[NotInUse].m
                 /\ buffers'[NotInUse].t = buffers[NotInUse].t
              \/ /\ server.at = "copy m" /\ server'.at = "copy t"
                 /\ buffers'[NotInUse].m = server.packet.table_id
              \/ /\ server.at = "copy t" /\ server'.at = "flip"
                 /\ buffers'[NotInUse].m = buffers[NotInUse].m
                 /\ buffers'[NotInUse].t = server.packet.table_id
<1> USE DEF packetVars, replyVars
<1>1. NotInUse \in {0, 1} \ {active_table}
  BY DEF NotInUse
<1>2. buffers \in [0 .. 2 -> Table] /\ buffers[NotInUse] \in Table
  BY <1>1 DEF Types
<1>3. CASE CopyRow
  <2>1. server.at = "copy" /\ server'.at = "copy m" /\ server'.packet = server.packet
    BY <1>3, AtStep DEF CopyRow, Labels
  <2>2. /\ active_table' = active_table
        /\ reader' = IF reader.age = "old" THEN Overtaken(reader) ELSE reader
    BY <1>3 DEF CopyRow
  <2>3. buffers' = [buffers EXCEPT ![NotInUse] =
                       [buffers[NotInUse] EXCEPT !.table_id = server.packet.table_id,
                            !.listed = server.packet.table_id \notin Unlisted]]
    BY <1>1, <1>2, <1>3 DEF CopyRow
  <2>5. /\ buffers'[NotInUse] = [buffers[NotInUse] EXCEPT !.table_id = server.packet.table_id,
                                  !.listed = server.packet.table_id \notin Unlisted]
        /\ \A b \in (0 .. 2) \ {NotInUse} : buffers'[b] = buffers[b]
    <3> DEFINE row == [buffers[NotInUse] EXCEPT !.table_id = server.packet.table_id,
                           !.listed = server.packet.table_id \notin Unlisted]
    <3>1. buffers' = [buffers EXCEPT ![NotInUse] = row]
      BY <2>3
    <3> HIDE DEF row
    <3>2. buffers'[NotInUse] = row /\ \A b \in (0 .. 2) \ {NotInUse} : buffers'[b] = buffers[b]
      BY <1>1, <1>2, <3>1
    <3> QED
      BY <3>2 DEF row
  <2> QED
    BY <1>1, <1>2, <2>1, <2>2, <2>5 DEF Table
<1>4. CASE CopyM
  <2>1. server.at = "copy m" /\ server'.at = "copy t" /\ server'.packet = server.packet
    BY <1>4, AtStep DEF CopyM, Labels
  <2>2. active_table' = active_table /\ reader' = reader
    BY <1>4 DEF CopyM
  <2>3. buffers' = [buffers EXCEPT ![NotInUse] =
                       [buffers[NotInUse] EXCEPT !.m = server.packet.table_id]]
    BY <1>1, <1>2, <1>4 DEF CopyM
  <2>4. buffers[NotInUse].table_id = server.packet.table_id
    BY <2>1 DEF TablesInv, Copying
  <2>5. /\ buffers'[NotInUse] = [buffers[NotInUse] EXCEPT !.m = server.packet.table_id]
        /\ \A b \in (0 .. 2) \ {NotInUse} : buffers'[b] = buffers[b]
    BY <1>1, <1>2, <2>3
  <2> QED
    BY <1>1, <1>2, <2>1, <2>2, <2>4, <2>5 DEF Table
<1>5. CASE CopyT
  <2>1. server.at = "copy t" /\ server'.at = "flip" /\ server'.packet = server.packet
    BY <1>5, AtStep DEF CopyT, Labels
  <2>2. active_table' = active_table /\ reader' = reader
    BY <1>5 DEF CopyT
  <2>3. buffers' = [buffers EXCEPT ![NotInUse] =
                       [buffers[NotInUse] EXCEPT !.t = server.packet.table_id]]
    BY <1>1, <1>2, <1>5 DEF CopyT
  <2>4. buffers[NotInUse].table_id = server.packet.table_id
    BY <2>1 DEF TablesInv, Copying
  <2>5. /\ buffers'[NotInUse] = [buffers[NotInUse] EXCEPT !.t = server.packet.table_id]
        /\ \A b \in (0 .. 2) \ {NotInUse} : buffers'[b] = buffers[b]
    BY <1>1, <1>2, <2>3
  <2> QED
    BY <1>1, <1>2, <2>1, <2>2, <2>4, <2>5 DEF Table
<1> QED
  BY <1>3, <1>4, <1>5

LEMMA TablesNext ==
    ASSUME Types, TablesInv, [RbsNext]_rbsVars
    PROVE  TablesInv'
<1> USE DEF tableVars, packetVars, replyVars
<1>1. CASE \/ \E id \in Tables, valid \in BOOLEAN : Receive(id, valid)
           \/ Suspend \/ Start \/ Load \/ ReadRow \/ ReadM \/ ReadT \/ Return
           \/ UNCHANGED rbsVars
  <2>1. UNCHANGED <<buffers, active_table, server>>
    BY <1>1 DEF Receive, Suspend, Start, Load, ReadRow, ReadM, ReadT, Return, rbsVars
  <2> QED
    BY <2>1 DEF TablesInv, NotInUse
<1>2. CASE PopPulse \/ Delete \/ Stop \/ Drain \/ Close
  <2>1. UNCHANGED <<buffers, active_table>>
    BY <1>2 DEF PopPulse, Delete, Stop, Drain, Close
  <2>2. /\ server.at \notin Resetting
        /\ \/ server'.at \in {"compare", "idle", "drain", "close"}
           \/ server'.at = "delete" /\ ~server'.adopt
    <3>1. CASE PopPulse \/ Delete
      BY <3>1 DEF PopPulse, Delete, Resetting
    <3>2. CASE Stop \/ Close
      BY <3>2, AtStep DEF Stop, Close, Resetting, Labels
    <3>3. CASE Drain
      BY <3>3, AtStep DEF Drain, Resetting, Labels
    <3> QED
      BY <1>2, <3>1, <3>2, <3>3
  <2> QED
    BY <2>1, <2>2 DEF TablesInv, Resetting, Copying, Answering
<1>3. CASE Compare
  <2>1. /\ server.at = "compare" /\ server'.packet = server.packet
        /\ \/ server'.at = "copy"
           \/ /\ server'.at = "reply"
              /\ server'.adopt => ~IsNew(server.packet.table_id)
    BY <1>3 DEF Compare, Types, Servers
  <2> QED
    BY <1>3, <2>1 DEF Compare, IsNew, TablesInv, Resetting, Copying, Answering
<1>4. CASE CopyRow \/ CopyM \/ CopyT
  <2>1. server.at \notin Resetting /\ server'.at \in Copying /\ server'.packet = server.packet
    BY <1>4, CopyStep DEF Resetting, Copying
  <2>2. /\ active_table' = active_table /\ NotInUse' = NotInUse
        /\ buffers'[ResetTable] = buffers[ResetTable]
        /\ buffers'[NotInUse].table_id = server.packet.table_id
    <3>1. ResetTable \in (0 .. 2) \ {NotInUse}
      BY DEF ResetTable, NotInUse
    <3>2. active_table' = active_table
      BY <1>4, CopyStep
    <3>3. NotInUse' = NotInUse
      BY <3>2 DEF NotInUse
    <3> QED
      BY <1>4, <3>1, <3>2, <3>3, CopyStep
  <2> QED
    BY <2>1, <2>2 DEF TablesInv, Resetting, Copying, Answering
<1>5. CASE Flip
  <2>1. server.at = "flip" /\ server'.at = "reply" /\ server'.packet = server.packet
    BY <1>5, AtStep DEF Flip, Labels
  <2>2. active_table' = NotInUse /\ NotInUse # ResetTable /\ buffers' = buffers
    BY <1>5 DEF Flip, NotInUse, ResetTable
  <2> QED
    BY <2>1, <2>2 DEF TablesInv, Resetting, Copying, Answering
<1>6. CASE Reply \/ Send
  <2>1. /\ server.at \in {"reply", "send"} /\ server'.at \in {"send", "delete"}
        /\ server'.packet = server.packet /\ server'.adopt = server.adopt
    BY <1>6, AtStep DEF Reply, Send, Labels
  <2>2. UNCHANGED <<buffers, active_table>>
    BY <1>6 DEF Reply, Send
  <2> QED
    BY <2>1, <2>2 DEF TablesInv, Resetting, Copying, Answering
<1>7. CASE ResetBegin \/ ResetClear \/ ResetEnd
  <2>1. \/ ResetBegin /\ server'.at = "clear"
        \/ ResetClear /\ server'.at = "restart" /\ server.at = "clear"
        \/ ResetEnd /\ server'.at = "idle"
    BY <1>7, AtStep DEF ResetBegin, ResetClear, ResetEnd, Labels
  <2>2. buffers'[ResetTable] = ZeroTable
    BY <1>7 DEF ResetBegin, ResetClear, ResetEnd, ResetTable, TablesInv
  <2>3. active_table' = ResetTable <=> server'.at \in Resetting
    BY <2>1 DEF ResetBegin, ResetClear, ResetEnd, ResetTable, TablesInv, Resetting
  <2> QED
    BY <2>1, <2>2, <2>3 DEF TablesInv, Resetting, Copying, Answering
<1> QED
  BY <1>1, <1>2, <1>3, <1>4, <1>5, <1>6, <1>7 DEF RbsNext

LEMMA TablesInit ==
    ASSUME RbsInit
    PROVE  TablesInv
  BY DEF RbsInit, TablesInv, ResetTable, Resetting, Copying, Answering

LEMMA TablesInvariant == RbsSpec => []TablesInv
<1>1. RbsInit => TablesInv
  BY TablesInit
<1>2. Types /\ TablesInv /\ [RbsNext]_rbsVars => TablesInv'
  BY TablesNext
<1> QED
  BY <1>1, <1>2, ServerTypes, PTL DEF RbsSpec

(* A pulse is answered with its table active (rbs_server.cpp:111-125).     *)
THEOREM Adopted == RbsSpec => []TableIsAdopted
<1>1. TablesInv => TableIsAdopted
  BY DEF TablesInv, TableIsAdopted, Answering
<1> QED
  BY <1>1, TablesInvariant, PTL

(* "the buffer pointed at by `active_sync_table` always being valid"       *)
(* (rbs_sync_table.cpp:11): only a switch changes what is active.          *)
THEOREM ActiveUntouched == RbsSpec => ActiveIsUntouched
<1> DEFINE Still(a) == active_table' = active_table => buffers'[active_table] = buffers[active_table]
<1>1. Types /\ TablesInv /\ [RbsNext]_rbsVars => Still(active_table)
  <2> SUFFICES ASSUME Types, TablesInv, [RbsNext]_rbsVars
               PROVE  Still(active_table)
    OBVIOUS
  <2>1. CASE CopyRow \/ CopyM \/ CopyT
    BY <2>1, CopyStep DEF Types
  <2>2. CASE ResetClear
    <3>1. active_table = ResetTable
      BY <2>2 DEF ResetClear, TablesInv, Resetting
    <3> QED
      BY <2>2, <3>1 DEF ResetClear, TablesInv, ResetTable
  <2>3. CASE ~(CopyRow \/ CopyM \/ CopyT \/ ResetClear)
    <3>1. buffers' = buffers
      BY <2>3 DEF RbsNext, Receive, PopPulse, Compare, Flip, Reply, Send, Delete, ResetBegin, ResetEnd,
                  Suspend, Start, Stop, Drain, Close, Load, ReadRow, ReadM, ReadT, Return,
                  tableVars, packetVars, replyVars, rbsVars
    <3> QED
      BY <3>1
  <2> QED
    BY <2>1, <2>2, <2>3
<1> QED
  BY <1>1, ServerTypes, TablesInvariant, PTL DEF RbsSpec, ActiveIsUntouched

-----------------------------------------------------------------------------
LEMMA PacketsNext ==
    ASSUME Types, HasPacket, PacketsInv, [RbsNext]_rbsVars
    PROVE  PacketsInv'
<1> USE DEF tableVars, packetVars, replyVars
<1>0. queue \in Seq(Packets) /\ Len(queue) \in Nat /\ held \in Int
  BY DEF Types
<1>1. ASSUME NEW id \in Tables, NEW valid \in BOOLEAN, Receive(id, valid)
      PROVE  PacketsInv'
  <2> DEFINE packet == [sequence_id |-> received', table_id |-> id, valid |-> valid]
  <2>1. \/ queue' = Append(queue, packet) /\ held' = held + 1
        \/ queue' = queue /\ held' = held
    BY <1>1 DEF Receive, Dropped
  <2>2. server' = server
    BY <1>1 DEF Receive
  <2> HIDE DEF packet
  <2>3. Len(Append(queue, packet)) = Len(queue) + 1
    BY DEF Types
  <2> QED
    BY <1>0, <2>1, <2>2, <2>3 DEF PacketsInv
<1>2. CASE PopPulse
  <2>1. Len(queue') = Len(queue) - 1 /\ held' = held
    BY <1>2 DEF PopPulse, Types
  <2>2. server.at = "idle" /\ server'.at \in {"compare", "delete"}
    BY <1>2 DEF PopPulse
  <2> QED
    <3>1. held = Len(queue)
      BY <2>2 DEF PacketsInv, Processing, Copying, Answering
    <3>2. server'.at \in Processing \ {"send"}
      BY <2>2 DEF Processing, Answering
    <3>3. held' = Len(queue') + 1
      BY <1>0, <2>1, <3>1
    <3> QED
      BY <3>2, <3>3 DEF PacketsInv
<1>3. CASE CopyRow \/ CopyM \/ CopyT \/ Flip \/ Compare
  <2>1. /\ server.at \in Processing \ {"send"} /\ server'.at \in Processing \ {"send"}
        /\ UNCHANGED <<queue, held>>
    <3>1. CASE Compare
      BY <3>1 DEF Compare, Processing, Answering
    <3>2. CASE CopyRow \/ CopyM \/ CopyT
      BY <3>2, AtStep DEF CopyRow, CopyM, CopyT, Processing, Copying, Labels
    <3>3. CASE Flip
      BY <3>3, AtStep DEF Flip, Processing, Copying, Answering, Labels
    <3> QED
      BY <1>3, <3>1, <3>2, <3>3
  <2> QED
    BY <2>1 DEF PacketsInv
<1>4. CASE Reply
  <2>1. \/ server'.at = "send" /\ held' = held + 1
        \/ server'.at = "delete" /\ held' = held
    BY <1>4, AtStep DEF Reply, Labels
  <2>2. server.at = "reply" /\ queue' = queue
    BY <1>4 DEF Reply
  <2> QED
    BY <1>0, <2>1, <2>2 DEF PacketsInv, Processing, Answering
<1>5. CASE Send
  <2>1. server.at = "send" /\ server'.at = "delete" /\ held' = held - 1 /\ queue' = queue
    BY <1>5, AtStep DEF Send, NotSent, Labels
  <2> QED
    BY <1>0, <2>1 DEF PacketsInv, Processing, Answering
<1>6. CASE Delete
  <2>1. server.at = "delete" /\ server'.at = "idle" /\ held' = held - 1 /\ queue' = queue
    BY <1>6 DEF Delete
  <2> QED
    BY <1>0, <2>1 DEF PacketsInv, Processing, Copying, Answering
<1>7. CASE Drain
  <2>1. /\ server.at = "drain"
        /\ \/ Len(queue') = Len(queue) - 1 /\ held' = held - 1 /\ server' = server
           \/ queue' = queue /\ held' = held /\ server'.at = "close"
    <3>1. queue # <<>> => Len(Tail(queue)) = Len(queue) - 1
      BY <1>0
    <3> QED
      BY <1>7, <3>1, AtStep DEF Drain, Labels
  <2> QED
    BY <1>0, <2>1 DEF PacketsInv, Processing, Copying, Answering
<1>8. CASE ResetBegin \/ ResetClear \/ ResetEnd \/ Stop \/ Close
  <2>1. /\ server.at \notin Processing
        /\ server'.at \in {"clear", "restart", "idle", "drain"}
        /\ UNCHANGED <<queue, held>>
    BY <1>8, AtStep DEF ResetBegin, ResetClear, ResetEnd, Stop, Close, Labels, Processing,
                        Copying, Answering
  <2> QED
    BY <2>1 DEF PacketsInv, Processing, Copying, Answering
<1>9. CASE Suspend \/ Start \/ Load \/ ReadRow \/ ReadM \/ ReadT \/ Return \/ UNCHANGED rbsVars
  <2>1. UNCHANGED <<queue, held, server>>
    BY <1>9 DEF Suspend, Start, Load, ReadRow, ReadM, ReadT, Return, rbsVars
  <2> QED
    BY <2>1 DEF PacketsInv
<1> QED
  BY <1>1, <1>2, <1>3, <1>4, <1>5, <1>6, <1>7, <1>8, <1>9 DEF RbsNext

(* "important! Delete the packet to give back to network stack"            *)
(* (rbs_server.cpp:138): with any queue and any failure each is, once.     *)
THEOREM PacketsGivenBack == RbsSpec => []PacketsAccounted
<1>1. RbsInit => PacketsInv
  BY DEF RbsInit, PacketsInv, Processing, Copying, Answering
<1>2. Types /\ HasPacket /\ PacketsInv /\ [RbsNext]_rbsVars => PacketsInv'
  BY PacketsNext
<1>3. Types /\ HasPacket /\ PacketsInv => PacketsAccounted
  <2>1. NoPacket \notin Packets
    BY DEF Packets, NoPacket
  <2>2. "send" \in Processing
    BY DEF Processing, Answering
  <2> QED
    <3> SUFFICES ASSUME Types, HasPacket, PacketsInv
                 PROVE  PacketsAccounted
      OBVIOUS
    <3>1. Len(queue) \in Nat
      BY DEF Types
    <3>2. CASE server.at = "send"
      BY <2>1, <2>2, <3>1, <3>2 DEF HasPacket, PacketsInv, PacketsAccounted
    <3>3. CASE server.at \in Processing \ {"send"}
      <4>1. held = Len(queue) + 1 /\ server.at # "send"
        BY <2>2, <3>1, <3>3 DEF PacketsInv
      <4>2. (IF server.packet = NoPacket THEN 0 ELSE 1) = 1
        BY <2>1, <3>3 DEF HasPacket
      <4>3. (IF server.at = "send" THEN 1 ELSE 0) = 0
        BY <4>1
      <4> QED
        BY <3>1, <4>1, <4>2, <4>3 DEF PacketsAccounted
    <3>4. CASE server.at \notin Processing
      <4>1. held = Len(queue) + 0 /\ server.at # "send"
        BY <2>2, <3>1, <3>4 DEF PacketsInv
      <4>2. (IF server.packet = NoPacket THEN 0 ELSE 1) = 0
        BY <2>1, <3>4 DEF HasPacket
      <4>3. (IF server.at = "send" THEN 1 ELSE 0) = 0
        BY <4>1
      <4> QED
        BY <3>1, <4>1, <4>2, <4>3 DEF PacketsAccounted
    <3> QED
      BY <3>2, <3>3, <3>4
<1> QED
  BY <1>1, <1>2, <1>3, ServerTypes, PTL DEF RbsSpec

-----------------------------------------------------------------------------
(* A switch of tables leaves alone what a reader holds.                    *)
LEMMA NotedReader ==
    ASSUME Types, ReadsInv, NEW b \in 0 .. 2
    PROVE  /\ Noted(b).at = reader.at /\ Noted(b).table = reader.table
           /\ Noted(b).m = reader.m /\ Noted(b).t = reader.t
           /\ reader.seen \subseteq Noted(b).seen
           /\ reader.at = "idle" => Noted(b).age = "active"
           /\ reader.at # "idle" => Noted(b).age # "active"
           /\ Noted(b).age = "overtaken" <=> reader.age = "overtaken"
  BY DEF Noted, Types, Readers, ReadsInv

(* A reader is overtaken when it is in the middle of a conversion.         *)
LEMMA OvertakenReader ==
    ASSUME NEW r \in Readers
    PROVE  /\ Overtaken(r).at = r.at /\ Overtaken(r).table = r.table
           /\ r.at = "idle" => Overtaken(r) = r
           /\ r.at # "idle" => Overtaken(r).age = "overtaken"
  BY DEF Overtaken, Readers

(* The table of a reader is not the one that is being written.             *)
LEMMA ReaderIsApart ==
    ASSUME Types, ReadsInv, server.at \in Copying, reader.at # "idle", reader.age # "overtaken"
    PROVE  reader.table = active_table /\ reader.table # NotInUse /\ reader.age = "active"
<1>1. reader.age = "active"
  BY DEF ReadsInv, Types, Readers
<1>2. reader.table = active_table
  BY <1>1 DEF ReadsInv
<1> QED
  BY <1>1, <1>2 DEF NotInUse

(* Steps that only move the server, from and to where nothing is copied.   *)
LEMMA ReadsApart ==
    ASSUME Types, ReadsInv, UNCHANGED <<buffers, active_table, reader>>,
           server.at \notin Resetting, server'.at \notin Copying \cup Resetting,
           server.at # "copy t"
    PROVE  ReadsInv'
  BY DEF ReadsInv, NotInUse, Copying

LEMMA ReadsNext ==
    ASSUME Types, TablesInv, ReadsInv, [RbsNext]_rbsVars
    PROVE  ReadsInv'
<1> USE DEF tableVars, packetVars, replyVars
<1>0. \A b \in 0 .. 2 : buffers[b] \in Table
  BY DEF Types
<1>1. CASE \/ \E id \in Tables, valid \in BOOLEAN : Receive(id, valid)
           \/ Suspend \/ Start \/ UNCHANGED rbsVars
  <2>1. UNCHANGED <<buffers, active_table, server, reader>>
    BY <1>1 DEF Receive, Suspend, Start, rbsVars
  <2> QED
    BY <2>1 DEF ReadsInv, NotInUse
<1>2. CASE PopPulse \/ Compare \/ Reply \/ Send \/ Delete \/ Stop \/ Drain \/ Close
  <2>1. UNCHANGED <<buffers, active_table, reader>>
    BY <1>2 DEF PopPulse, Compare, Reply, Send, Delete, Stop, Drain, Close
  <2>2. server.at \notin Copying \cup Resetting
    BY <1>2 DEF PopPulse, Compare, Reply, Send, Delete, Stop, Drain, Close, Copying, Resetting
  <2>3. server'.at \notin Copying \cup Resetting
    <3>1. CASE PopPulse \/ Delete
      <4>1. server'.at \in {"compare", "delete", "idle"}
        BY <3>1 DEF PopPulse, Delete
      <4> QED
        BY <4>1 DEF Copying, Resetting
    <3>5. CASE Compare
      <4>1. server'.at \in {"copy", "reply"}
        BY <3>5 DEF Compare, Types, Servers
      <4> QED
        BY <4>1 DEF Copying, Resetting
    <3>2. CASE Reply \/ Send
      BY <3>2, AtStep DEF Reply, Send, Labels, Copying, Resetting
    <3>3. CASE Stop \/ Close
      BY <3>3, AtStep DEF Stop, Close, Labels, Copying, Resetting
    <3>4. CASE Drain
      BY <2>2, <3>4, AtStep DEF Drain, Labels, Copying, Resetting
    <3> QED
      BY <1>2, <3>1, <3>2, <3>3, <3>4, <3>5
  <2> QED
    BY <2>1, <2>2, <2>3, ReadsApart DEF Copying
<1>3. CASE CopyRow \/ CopyM \/ CopyT
  <2>1. /\ active_table' = active_table /\ NotInUse' = NotInUse
        /\ NotInUse \in {0, 1} \ {active_table}
        /\ \A b \in (0 .. 2) \ {NotInUse} : buffers'[b] = buffers[b]
    <3>1. active_table' = active_table /\ NotInUse \in {0, 1} \ {active_table}
      BY <1>3, CopyStep
    <3> QED
      BY <1>3, <3>1, CopyStep DEF NotInUse
  <2>2. server'.at \in Copying /\ server.at \in Copying \cup {"copy"}
    BY <1>3, CopyStep DEF Copying
  <2>r. reader \in Readers
    BY DEF Types
  <2>3. /\ reader'.at = "idle" => reader' = reader
        /\ reader'.at # "idle" /\ reader'.age # "overtaken" =>
              reader' = reader /\ reader.age = "active"
        /\ reader'.age \in {"active", "overtaken"}
        /\ reader'.at = "idle" => reader'.age = "active"
    <3>1. CASE reader.age = "old"
      <4>1. reader.at # "idle" /\ server.at = "copy"
        BY <2>2, <3>1 DEF ReadsInv
      <4>2. reader' = Overtaken(reader)
        BY <1>3, <3>1, <4>1, CopyStep
      <4>3. reader'.at = reader.at /\ reader'.age = "overtaken"
        BY <2>r, <4>1, <4>2, OvertakenReader
      <4> QED
        BY <4>1, <4>3
    <3>2. CASE reader.age # "old"
      <4>1. reader' = reader
        BY <1>3, <3>2, CopyStep
      <4>2. reader.age \in {"active", "overtaken"}
        BY <2>r, <3>2 DEF Readers
      <4> QED
        BY <3>2, <4>1, <4>2 DEF ReadsInv
    <3> QED
      BY <3>1, <3>2
  <2>4. reader'.at # "idle" /\ reader'.age # "overtaken" =>
            reader.table = active_table /\ reader.table \in (0 .. 2) \ {NotInUse}
    BY <2>1, <2>3 DEF ReadsInv, Types
  <2>5. /\ server'.at = "copy t" => buffers'[NotInUse].m = server'.packet.table_id
        /\ server'.at # "copy t" => buffers'[NotInUse].m = buffers'[NotInUse].t
    <3>1. server.at # "copy t" => buffers[NotInUse].m = buffers[NotInUse].t
      <4>1. NotInUse \in 0 .. 2
        BY <2>1
      <4> QED
        BY <4>1 DEF ReadsInv
    <3>2. server.at = "copy t" => buffers[NotInUse].m = server.packet.table_id
      BY DEF ReadsInv
    <3> QED
      BY <1>3, <3>1, <3>2, CopyStep
  <2>6. \A b \in (0 .. 2) \ {NotInUse} : buffers'[b].m = buffers'[b].t
    <3>1. \A b \in (0 .. 2) \ {NotInUse} : buffers[b].m = buffers[b].t
      <4>1. \A b \in 0 .. 2 :
               ~(server.at = "copy t" /\ b = NotInUse) => buffers[b].m = buffers[b].t
        BY DEF ReadsInv
      <4> QED
        BY <4>1
    <3> QED
      BY <2>1, <3>1
  <2>7. \A b \in 0 .. 2 :
           ~(server'.at = "copy t" /\ b = NotInUse') => buffers'[b].m = buffers'[b].t
    BY <2>1, <2>5, <2>6
  <2>8. reader'.at # "idle" /\ reader'.age # "overtaken" =>
            reader' = reader /\ buffers'[reader.table] = buffers[reader.table]
    BY <2>1, <2>3, <2>4
  <2> QED
    BY <2>1, <2>2, <2>3, <2>4, <2>5, <2>7, <2>8 DEF ReadsInv
<1>4. CASE Flip
  <2>1. server.at = "flip" /\ server'.at = "reply" /\ buffers' = buffers
    BY <1>4, AtStep DEF Flip, Labels
  <2>2. NotInUse \in 0 .. 2 /\ reader' = Noted(NotInUse)
    BY <1>4 DEF Flip, NotInUse
  <2>3. /\ reader'.at = reader.at /\ reader'.table = reader.table
        /\ reader'.m = reader.m /\ reader'.t = reader.t
        /\ reader.seen \subseteq reader'.seen
        /\ reader.at = "idle" => reader'.age = "active"
        /\ reader.at # "idle" => reader'.age # "active"
        /\ reader'.age = "overtaken" <=> reader.age = "overtaken"
        /\ reader' \in Readers
    BY <2>2, NotedReader, NotedType
  <2>4. CASE reader.at = "idle"
    <3>1. reader'.age = "active" /\ reader'.at = "idle" /\ server'.at # "copy t" /\ server.at # "copy t"
      BY <2>1, <2>3, <2>4
    <3> QED
      BY <2>1, <3>1 DEF ReadsInv
  <2>5. CASE reader.at # "idle"
    <3>1. reader'.age \in {"old", "overtaken"} /\ server'.at \notin Copying \cup Resetting
      BY <2>1, <2>3, <2>5 DEF Copying, Resetting, Readers
    <3>2. server.at # "copy t" /\ server'.at # "copy t"
      BY <2>1
    <3> QED
      BY <2>1, <2>3, <2>5, <3>1, <3>2 DEF ReadsInv
  <2> QED
    BY <2>4, <2>5
<1>5. CASE ResetBegin
  <2>1. server.at = "idle" /\ server'.at = "clear" /\ buffers' = buffers
    BY <1>5, AtStep DEF ResetBegin, Labels
  <2>2. Noted(ResetTable) \in Readers /\ Noted(ResetTable).at = reader.at
    BY NotedType, NotedReader DEF ResetTable
  <2>3. CASE reader.at = "idle"
    <3>1. reader'.at = "idle" /\ reader'.age = "active"
      BY <1>5, <2>2, <2>3, NotedReader, OvertakenReader DEF ResetBegin, ResetTable
    <3> QED
      BY <2>1, <3>1 DEF ReadsInv, Copying, Resetting
  <2>4. CASE reader.at # "idle"
    <3>1. reader'.at # "idle" /\ reader'.age = "overtaken"
      BY <1>5, <2>2, <2>4, OvertakenReader DEF ResetBegin
    <3> QED
      BY <2>1, <3>1 DEF ReadsInv, Copying, Resetting
  <2> QED
    BY <2>3, <2>4
<1>6. CASE ResetClear
  <2>1. /\ server.at = "clear" /\ server'.at = "restart" /\ active_table' = active_table
        /\ reader' = reader /\ buffers' = [b \in 0 .. 2 |-> ZeroTable]
    BY <1>6, AtStep DEF ResetClear, Labels
  <2>2. reader.at # "idle" /\ reader.age # "overtaken" => reader.table = ResetTable
    BY <2>1 DEF ReadsInv, TablesInv, Resetting
  <2>3. buffers'[ResetTable] = buffers[ResetTable]
    BY <2>1 DEF TablesInv, ResetTable
  <2>4. \A b \in 0 .. 2 : buffers'[b].m = buffers'[b].t
    BY <2>1 DEF ZeroTable
  <2> QED
    BY <2>1, <2>2, <2>3, <2>4 DEF ReadsInv, Copying, Resetting
<1>7. CASE ResetEnd
  <2>1. server.at = "restart" /\ server'.at = "idle" /\ buffers' = buffers
    BY <1>7, AtStep DEF ResetEnd, Labels
  <2>2. /\ reader'.at = reader.at /\ reader'.table = reader.table
        /\ reader'.m = reader.m /\ reader'.t = reader.t
        /\ reader.seen \subseteq reader'.seen
        /\ reader.at = "idle" => reader'.age = "active"
        /\ reader.at # "idle" => reader'.age # "active"
        /\ reader'.age = "overtaken" <=> reader.age = "overtaken"
        /\ reader' \in Readers
    BY <1>7, NotedReader, NotedType DEF ResetEnd
  <2>3. CASE reader.at = "idle"
    <3>1. reader'.age = "active" /\ reader'.at = "idle" /\ server'.at # "copy t" /\ server.at # "copy t"
      BY <2>1, <2>2, <2>3
    <3> QED
      BY <2>1, <3>1 DEF ReadsInv
  <2>4. CASE reader.at # "idle"
    <3>1. reader'.age \in {"old", "overtaken"} /\ server'.at \notin Copying \cup Resetting
      BY <2>1, <2>2, <2>4 DEF Copying, Resetting, Readers
    <3>2. server.at # "copy t" /\ server'.at # "copy t"
      BY <2>1
    <3> QED
      BY <2>1, <2>2, <2>4, <3>1, <3>2 DEF ReadsInv
  <2> QED
    BY <2>3, <2>4
<1>8. CASE Load \/ ReadRow \/ ReadM \/ ReadT \/ Return
  <2>1. UNCHANGED <<buffers, active_table, server>>
    BY <1>8 DEF Load, ReadRow, ReadM, ReadT, Return
  <2>2. CASE Load
    <3>1. /\ reader'.at = "row" /\ reader'.table = active_table /\ reader'.age = "active"
          /\ buffers[active_table].m \in reader'.seen
      BY <2>2 DEF Load, Idle
    <3> QED
      BY <2>1, <3>1 DEF ReadsInv, NotInUse
  <2>3. CASE reader' = Idle
    <3>1. reader'.at = "idle" /\ reader'.age = "active"
      BY <2>3 DEF Idle
    <3> QED
      BY <2>1, <3>1 DEF ReadsInv, NotInUse
  <2>4. CASE ReadRow /\ reader' # Idle
    <3>1. /\ reader.at = "row" /\ reader'.at = "m" /\ reader'.table = reader.table
          /\ reader'.seen = reader.seen /\ reader'.age = reader.age
      BY <2>4 DEF ReadRow, Types, Readers
    <3> QED
      BY <2>1, <3>1 DEF ReadsInv, NotInUse
  <2>5. CASE ReadM
    <3>1. /\ reader.at = "m" /\ reader'.at = "t" /\ reader'.table = reader.table
          /\ reader'.m = buffers[reader.table].m
          /\ reader'.seen = reader.seen /\ reader'.age = reader.age
      BY <2>5 DEF ReadM, Types, Readers
    <3> QED
      BY <2>1, <3>1 DEF ReadsInv, NotInUse
  <2>6. CASE ReadT
    <3>1. /\ reader.at = "t" /\ reader'.at = "done" /\ reader'.table = reader.table
          /\ reader'.m = reader.m /\ reader'.t = buffers[reader.table].t
          /\ reader'.seen = reader.seen /\ reader'.age = reader.age
      BY <2>6 DEF ReadT, Types, Readers
    <3>2. reader.age # "overtaken" => ~(server.at = "copy t" /\ reader.table = NotInUse)
      BY <3>1, ReaderIsApart DEF Copying
    <3>3. reader.age # "overtaken" => buffers[reader.table].m = buffers[reader.table].t
      BY <3>2 DEF ReadsInv, Types, Readers
    <3> QED
      BY <2>1, <3>1, <3>3 DEF ReadsInv, NotInUse
  <2> QED
    BY <1>8, <2>2, <2>3, <2>4, <2>5, <2>6 DEF Return
<1> QED
  BY <1>1, <1>2, <1>3, <1>4, <1>5, <1>6, <1>7, <1>8 DEF RbsNext

(* "To avoid race conditions" (rbs_sync_table.cpp:10): with any tables and *)
(* any interleaving both coefficients of a conversion are from one table,  *)
(* active during the call, if no second new table is copied and no reset   *)
(* begins in the middle of it; nothing in the code makes them wait.        *)
THEOREM OneTable == RbsSpec => []ReadsOneTable
<1>1. RbsInit => ReadsInv
  BY DEF RbsInit, Idle, ReadsInv, ZeroTable, Copying, Resetting
<1>2. Types /\ TablesInv /\ ReadsInv /\ [RbsNext]_rbsVars => ReadsInv'
  BY ReadsNext
<1>3. ReadsInv => ReadsOneTable
  BY DEF ReadsInv, ReadsOneTable
<1> QED
  BY <1>1, <1>2, <1>3, ServerTypes, TablesInvariant, PTL DEF RbsSpec

-----------------------------------------------------------------------------
(* The timestamps of a reply: the last three of all that were answered.    *)
Recent(a) == SubSeq(a, IF Len(a) > 3 THEN Len(a) - 2 ELSE 1, Len(a))

LEMMA RecentElements ==
    ASSUME NEW S, NEW a \in Seq(S)
    PROVE  /\ Recent(a) \in Seq(S)
           /\ Len(Recent(a)) = IF Len(a) > 3 THEN 3 ELSE Len(a)
           /\ \A i \in 1 .. Len(Recent(a)) : Recent(a)[i] = a[Len(a) - Len(Recent(a)) + i]
<1> DEFINE m == IF Len(a) > 3 THEN Len(a) - 2 ELSE 1
<1>1. m \in Int /\ Len(a) \in Nat /\ 1 <= m /\ m <= Len(a) + 1
  BY LenProperties
<1>2. \A i \in m .. Len(a) : a[i] \in S
  BY <1>1, ElementOfSeq
<1>3. Recent(a) = SubSeq(a, m, Len(a))
  BY DEF Recent
<1> HIDE DEF m
<1>4. /\ Recent(a) \in Seq(S)
      /\ Len(Recent(a)) = IF m <= Len(a) THEN Len(a) - m + 1 ELSE 0
      /\ \A i \in 1 .. Len(a) - m + 1 : Recent(a)[i] = a[m + i - 1]
  BY <1>1, <1>2, <1>3, SubSeqProperties
<1>5. CASE Len(a) > 3
  <2>1. m = Len(a) - 2
    BY <1>5 DEF m
  <2>2. Len(Recent(a)) = 3
    BY <1>1, <1>4, <1>5, <2>1
  <2>3. \A i \in 1 .. 3 : Recent(a)[i] = a[Len(a) - 3 + i]
    BY <1>1, <1>4, <1>5, <2>1
  <2> QED
    BY <1>4, <1>5, <2>2, <2>3
<1>6. CASE Len(a) <= 3
  <2>1. m = 1
    BY <1>1, <1>6 DEF m
  <2>2. Len(Recent(a)) = Len(a)
    BY <1>1, <1>4, <2>1
  <2>3. \A i \in 1 .. Len(a) : Recent(a)[i] = a[Len(a) - Len(a) + i]
    BY <1>1, <1>4, <2>1
  <2> QED
    <3>1. ~(Len(a) > 3)
      BY <1>1, <1>6
    <3> QED
      BY <1>4, <2>2, <2>3, <3>1
<1> QED
  BY <1>1, <1>5, <1>6

LEMMA KeptElements ==
    ASSUME NEW S, NEW h \in Seq(S), Len(h) <= 3
    PROVE  /\ Kept(h) \in Seq(S)
           /\ Len(Kept(h)) = IF Len(h) > 2 THEN 2 ELSE Len(h)
           /\ \A i \in 1 .. Len(Kept(h)) : Kept(h)[i] = h[Len(h) - Len(Kept(h)) + i]
<1>1. Len(h) \in Nat
  BY LenProperties
<1>2. CASE Len(h) > 2
  <2>1. Kept(h) = Tail(h)
    BY <1>2 DEF Kept
  <2>2. Len(h) = 3 /\ h # <<>>
    <3> DEFINE n == Len(h)
    <3>1. n = 3
      <4>1. n \in Nat /\ n > 2 /\ n <= 3
        BY <1>1, <1>2
      <4> HIDE DEF n
      <4> QED
        BY <4>1
    <3>2. Len(<<>>) = 0
      OBVIOUS
    <3> QED
      BY <3>1, <3>2
  <2>3. /\ Tail(h) \in Seq(S) /\ Len(Tail(h)) = 2
        /\ \A i \in 1 .. Len(Tail(h)) : Tail(h)[i] = h[i + 1]
    BY <2>2, HeadTailProperties
  <2>4. \A i \in 1 .. 2 : Tail(h)[i] = h[3 - 2 + i]
    <3> TAKE i \in 1 .. 2
    <3> DEFINE tail == Tail(h)
    <3>1. tail[i] = h[i + 1]
      <4>1. Len(tail) = 2 /\ \A j \in 1 .. Len(tail) : tail[j] = h[j + 1]
        BY <2>3
      <4> HIDE DEF tail
      <4> QED
        BY <4>1
    <3>2. 3 - 2 + i = i + 1
      OBVIOUS
    <3> QED
      BY <3>1, <3>2
  <2> QED
    BY <1>2, <2>1, <2>2, <2>3, <2>4
<1>3. CASE Len(h) <= 2
  <2>1. Kept(h) = h
    BY <1>1, <1>3 DEF Kept
  <2>2. \A i \in 1 .. Len(h) : h[i] = h[Len(h) - Len(h) + i]
    BY <1>1
  <2> QED
    BY <1>1, <1>3, <2>1, <2>2
<1> QED
  BY <1>1, <1>2, <1>3

LEMMA RecentIsExtended ==
    ASSUME NEW S, NEW a \in Seq(S), NEW x \in S
    PROVE  Append(Kept(Recent(a)), x) = Recent(Append(a, x)) /\ Append(a, x) \in Seq(S)
<1> DEFINE n == Len(a)
           b == Append(a, x)
           h == Recent(a)
           k == Kept(h)
           c == Append(k, x)
           r == Recent(b)
<1>1. n \in Nat /\ b \in Seq(S) /\ Len(b) = n + 1
      /\ \A i \in 1 .. n + 1 : b[i] = IF i <= n THEN a[i] ELSE x
  OBVIOUS
<1>2. h \in Seq(S) /\ (Len(h) = IF n > 3 THEN 3 ELSE n)
      /\ \A i \in 1 .. Len(h) : h[i] = a[n - Len(h) + i]
  BY RecentElements
<1>3. k \in Seq(S) /\ (Len(k) = IF Len(h) > 2 THEN 2 ELSE Len(h))
      /\ \A i \in 1 .. Len(k) : k[i] = h[Len(h) - Len(k) + i]
  <2> HIDE DEF h
  <2>1. Len(h) <= 3
    BY <1>1, <1>2
  <2> QED
    BY <1>2, <2>1, KeptElements
<1>4. c \in Seq(S) /\ Len(c) = Len(k) + 1 /\ Len(k) \in Nat
      /\ \A i \in 1 .. Len(k) + 1 : c[i] = IF i <= Len(k) THEN k[i] ELSE x
  <2>1. k \in Seq(S) /\ Len(k) \in Nat
    BY <1>3, LenProperties
  <2> HIDE DEF k
  <2>2. /\ c \in Seq(S) /\ Len(c) = Len(k) + 1
        /\ \A i \in 1 .. Len(k) : c[i] = k[i]
        /\ c[Len(k) + 1] = x
    BY <2>1, AppendProperties
  <2> QED
    BY <2>1, <2>2
<1>5. r \in Seq(S) /\ (Len(r) = IF Len(b) > 3 THEN 3 ELSE Len(b))
      /\ \A i \in 1 .. Len(r) : r[i] = b[Len(b) - Len(r) + i]
  <2> HIDE DEF b
  <2> QED
    BY <1>1, RecentElements
<1> HIDE DEF n, b, h, k, c, r
<1>6. Len(c) = Len(r) /\ Len(c) \in Nat
  BY <1>1, <1>2, <1>3, <1>4, <1>5
<1>7. ASSUME NEW i \in 1 .. Len(c) PROVE c[i] = r[i]
  <2>1. r[i] = b[n + 1 - Len(c) + i]
    BY <1>1, <1>5, <1>6
  <2>2. CASE i = Len(c)
    BY <1>1, <1>4, <1>6, <2>1, <2>2
  <2>3. CASE i < Len(c)
    <3>1. i \in 1 .. Len(k) /\ c[i] = k[i]
      BY <1>4, <2>3
    <3>2. k[i] = a[n - Len(k) + i]
      <4>1. /\ Len(h) \in Nat /\ Len(k) \in Nat /\ Len(k) <= Len(h)
            /\ k[i] = h[Len(h) - Len(k) + i]
        <5>1. k[i] = h[Len(h) - Len(k) + i]
          BY <1>3, <3>1
        <5>2. Len(h) \in Nat /\ Len(k) \in Nat /\ Len(k) <= Len(h)
          BY <1>1, <1>2, <1>3
        <5> QED
          BY <5>1, <5>2
      <4>2. Len(h) - Len(k) + i \in 1 .. Len(h)
        BY <3>1, <4>1
      <4>3. h[Len(h) - Len(k) + i] = a[n - Len(h) + (Len(h) - Len(k) + i)]
        BY <1>2, <4>2
      <4>4. n - Len(h) + (Len(h) - Len(k) + i) = n - Len(k) + i
        BY <1>1, <4>1
      <4> QED
        BY <4>1, <4>3, <4>4
    <3>3. n - Len(k) + i = n + 1 - Len(c) + i /\ n - Len(k) + i \in 1 .. n
      <4>1. Len(k) <= n
        BY <1>1, <1>2, <1>3
      <4> QED
        BY <1>1, <1>4, <3>1, <4>1
    <3> QED
      BY <1>1, <2>1, <3>1, <3>2, <3>3
  <2> QED
    BY <1>4, <2>2, <2>3
<1>8. c = r
  BY <1>4, <1>5, <1>6, <1>7, SeqEqual
<1> QED
  BY <1>1, <1>8 DEF n, b, h, k, c, r

AnsweredInv == history = Recent(answered) /\ answered \in Seq(Nat)

LEMMA AnsweredNext ==
    ASSUME HasPacket, AnsweredInv, [RbsNext]_rbsVars
    PROVE  AnsweredInv'
<1>1. CASE Reply
  <2>1. server.packet.sequence_id \in Nat
    BY <1>1 DEF Reply, HasPacket, Processing, Answering, Packets
  <2> QED
    BY <1>1, <2>1, RecentIsExtended DEF Reply, AnsweredInv
<1>2. CASE ResetEnd
  BY <1>2 DEF ResetEnd, AnsweredInv, Recent
<1>3. CASE ~(Reply \/ ResetEnd)
  <2>1. UNCHANGED <<history, answered>>
    BY <1>3 DEF RbsNext, Receive, PopPulse, Compare, CopyRow, CopyM, CopyT, Flip, Send, Delete,
                ResetBegin, ResetClear, Suspend, Start, Stop, Drain, Close, Load, ReadRow,
                ReadM, ReadT, Return, tableVars, packetVars, replyVars, rbsVars
  <2> QED
    BY <2>1 DEF AnsweredInv
<1> QED
  BY <1>1, <1>2, <1>3

(* "Every reply message contains several past timestamps to accound for    *)
(* missed packets" (rbs_sync_table.h:24): the last three, with any number  *)
(* of pulses, replies that are not sent and resets.                        *)
THEOREM AnswersAreRecent == RbsSpec => []RepliesAreRecent
<1>1. RbsInit => AnsweredInv
  BY DEF RbsInit, AnsweredInv, Recent
<1>2. HasPacket /\ AnsweredInv /\ [RbsNext]_rbsVars => AnsweredInv'
  BY AnsweredNext
<1>3. AnsweredInv => RepliesAreRecent
  BY DEF AnsweredInv, RepliesAreRecent, Recent
<1> QED
  BY <1>1, <1>2, <1>3, ServerTypes, PTL DEF RbsSpec

=============================================================================
