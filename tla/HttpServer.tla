------------------------------ MODULE HttpServer ------------------------------
(***************************************************************************)
(* lib_http's HttpServer.  The callbacks of the network thread queue       *)
(* commands; the handler thread runs one command per round, and then reads *)
(* from and writes to every connection without blocking.  Another thread   *)
(* starts and stops the server.                                            *)
(*                                                                         *)
(* The command queue is the fifo that CommandQueue.tla shows it to be for  *)
(* one calling thread: all callbacks run on the network thread.            *)
(***************************************************************************)
EXTENDS HttpResponse, Sequences, SequencesExt, FiniteSets

CONSTANTS Sockets,      \* the sockets of the two tcp servers
          TlsSockets,   \* those of the tls server
          Prompt,       \* those whose clients take what they are sent
          QueueSize,    \* contexts of the command queue, 10
          MaxConnects,  \* bound: connections made
          Chunked,      \* bound: sockets whose requests come in fragments
          MaxStarts     \* bound: calls of start

ASSUME HttpAssumption ==
    /\ TlsSockets \subseteq Sockets /\ Prompt \subseteq Sockets
    /\ Chunked \subseteq Sockets
    /\ QueueSize \in Nat \ {0}
    /\ MaxConnects \in Nat /\ MaxStarts \in Nat

VARIABLES up,        \* the tcp servers that listen
          run,       \* m_tcp_handler_thread_should_run
          owner,     \* where the thread is that calls start and stop
          handler,   \* where the handler thread is: at, its timeout, its connection
          queue,     \* m_tcp_handler_thread_command_queue
          conns,     \* m_connected_sockets
          peer,      \* per socket: state, unread fragments, awaiting a response
          received,  \* per socket: what the client has of the latest response
          packets,   \* tcp packets allocated and neither sent nor deleted
          astray,    \* history: sockets with a command not queued, or left by stop
          connects, starts

vars == <<up, run, owner, handler, queue, conns, peer, received, packets,
          astray, connects, starts>>
client  == <<peer, received, connects>>
control == <<up, run, owner, starts>>

None == <<>>   \* no response, no dangling packet, no command

Command(op, s) == [op |-> op, socket |-> s]

(* The request of a connection without response is what it has read.       *)
Connection(s) == [socket |-> s, dangling |-> None, active |-> FALSE, response |-> None]

Listening == [state |-> "listening", inbox |-> <<>>, awaiting |-> FALSE]

NoThread == [at |-> "none", forever |-> FALSE, i |-> 1]

Init == /\ up = {} /\ run = FALSE /\ owner = "idle" /\ handler = NoThread
        /\ queue = <<>> /\ conns = <<>>
        /\ peer = [s \in Sockets |-> Listening]
        /\ received = [s \in Sockets |-> <<>>]
        /\ packets = 0 /\ astray = {} /\ connects = 0 /\ starts = 0

Server(s) == IF s \in TlsSockets THEN "tls" ELSE "plain"

-----------------------------------------------------------------------------
(* The network thread and the clients                                      *)

(* The callbacks ignore the result of execute_async.  The context of a     *)
(* command is used until the command has run: what is posted meanwhile is  *)
(* posted before it runs.  Left out: a connect to the socket that the      *)
(* disconnect under way has made listen still finds that context used.     *)
Post(op, s) ==
    \/ /\ Len(queue) < QueueSize
       /\ queue' = Append(queue, Command(op, s))
       /\ UNCHANGED astray
    \/ /\ Len(queue) >= QueueSize
       /\ astray' = astray \cup {s}
       /\ UNCHANGED queue

Connect(s) ==
    /\ connects < MaxConnects /\ Server(s) \in up /\ peer[s].state = "listening"
    /\ peer' = [peer EXCEPT ![s].state = "open"]
    /\ connects' = connects + 1
    /\ Post("connect", s)
    /\ UNCHANGED <<control, handler, conns, received, packets>>

(* A client sends its next request when it has the response to the last.   *)
(* The last fragment completes the request, or cannot be parsed.  (Bound:  *)
(* the client of a socket that is astray sends nothing more.)              *)
SendData(s, fragment) ==
    /\ peer[s].state = "open" /\ ~peer[s].awaiting /\ s \notin astray
    /\ fragment = "part" => s \in Chunked /\ peer[s].inbox = <<>>
    /\ peer' = [peer EXCEPT ![s].inbox = Append(@, fragment),
                            ![s].awaiting = fragment = "last"]
    /\ Post("data", s)
    /\ UNCHANGED <<control, handler, conns, received, packets, connects>>

Disconnect(s) ==
    /\ peer[s].state = "open"
    /\ peer' = [peer EXCEPT ![s].state = "closed", ![s].awaiting = FALSE]
    /\ Post("disconnect", s)
    /\ UNCHANGED <<control, handler, conns, received, packets, connects>>

-----------------------------------------------------------------------------
(* The handler thread                                                      *)

(* A bug the checks must see: dangling packets do not keep the thread awake. *)
MutAnyActive(cs) == \E k \in DOMAIN cs : cs[k].active /\ cs[k].dangling = None

AnyActive(cs) == \E k \in DOMAIN cs : cs[k].active

(* The loop of the thread: it waits for a command, with a timeout if there *)
(* is an active connection, until it should run no more.                   *)
Loop(cs) == IF run THEN [at |-> "process", forever |-> ~AnyActive(cs), i |-> 1]
            ELSE [NoThread EXCEPT !.at = "ended"]

(* A round over the connections, from the k-th one.                        *)
Round(k, cs) == IF k <= Len(cs) THEN [at |-> "read", forever |-> FALSE, i |-> k]
                ELSE Loop(cs)

(* process runs one command, if there is one before its timeout.           *)
PopTimeout ==
    /\ handler.at = "process" /\ queue = <<>> /\ ~handler.forever
    /\ handler' = Round(1, conns)
    /\ UNCHANGED <<control, queue, conns, client, packets, astray>>

Pop(op, s, cs) ==
    /\ handler.at = "process" /\ queue # <<>>
    /\ Head(queue) = Command(op, s)
    /\ queue' = Tail(queue)
    /\ conns' = cs
    /\ handler' = Round(1, cs)

IsOf(s) == {k \in DOMAIN conns : conns[k].socket = s}

RunConnect(s) ==
    /\ Pop("connect", s, Append(conns, Connection(s)))
    /\ UNCHANGED <<control, client, packets, astray>>

(* A bug the checks must see: the connection is not marked.                *)
MutMarked(s) == conns

(* find_if finds the first connection of a socket.                         *)
Marked(s) ==
    IF IsOf(s) = {} THEN conns ELSE [conns EXCEPT ![Min(IsOf(s))].active = TRUE]

RunData(s) ==
    /\ Pop("data", s, Marked(s))
    /\ UNCHANGED <<control, client, packets, astray>>

(* A bug the checks must see: the last connection is erased.               *)
MutErased(s) == IF IsOf(s) = {} THEN conns ELSE Front(conns)

Erased(s) == IF IsOf(s) = {} THEN conns ELSE RemoveAt(conns, Min(IsOf(s)))

(* The socket listens again; a dangling packet is forgotten.               *)
RunDisconnect(s) ==
    /\ Pop("disconnect", s, Erased(s))
    /\ peer' = [peer EXCEPT ![s] = Listening]
    /\ received' = [received EXCEPT ![s] = <<>>]
    /\ UNCHANGED <<control, connects, packets, astray>>

-----------------------------------------------------------------------------
(* One round over the connections                                          *)

Current == conns[handler.i]

Onwards(cs) == Round(handler.i + 1, cs)

(* What is left to do for a connection when it has read.                   *)
Writing(cs) ==
    LET c == cs[handler.i] IN
    IF c.response = None THEN Onwards(cs)
    ELSE [handler EXCEPT !.at = IF c.dangling = None THEN "write" ELSE "dangling"]

(* The fragments up to the last of the request are read.                   *)
Unread(inbox) == IF Contains(inbox, "last")
                 THEN SubSeq(inbox, SelectInSeq(inbox, LAMBDA f : f = "last") + 1, Len(inbox)) ELSE <<>>

(* A connection reads while it has no response to write.                   *)
Read ==
    /\ handler.at = "read"
    /\ LET s == Current.socket
           inbox == peer[s].inbox
       IN  \/ Current.response # None /\ UNCHANGED <<conns, client>>
           \/ /\ Current.response = None
              /\ peer' = [peer EXCEPT ![s].inbox = Unread(inbox)]
              /\ \/ /\ ~Contains(inbox, "last")
                    /\ UNCHANGED <<conns, received>>
                 \/ /\ Contains(inbox, "last")
                    /\ \E r \in Responses :
                       conns' = [conns EXCEPT ![handler.i].response = r]
                    /\ received' = [received EXCEPT ![s] = <<>>]
              /\ UNCHANGED connects
    /\ handler' = Writing(conns')
    /\ UNCHANGED <<control, queue, packets, astray>>

(* The client has got the units; with the last one its request is over.    *)
Take(s, units, total) ==
    /\ received' = [received EXCEPT ![s] = @ \o units]
    /\ peer' = [peer EXCEPT ![s].awaiting = @ /\ Len(received'[s]) < total]
    /\ UNCHANGED connects

(* The outcomes of wiced_tcp_send_packet_no_wait: only on a connection that *)
(* is closed it fails for good.                                            *)
Outcomes(s) == IF peer[s].state = "open" THEN {"ok", "would block"} ELSE {"error"}

(* send_dangling_packet: the packet is kept whatever the error is.         *)
Resend(outcome) ==
    /\ handler.at = "dangling"
    /\ outcome \in Outcomes(Current.socket)
    /\ \/ /\ outcome = "ok"
          /\ Take(Current.socket, Current.dangling, Total(Current.response))
          /\ conns' = [conns EXCEPT ![handler.i].dangling = None]
          /\ packets' = packets - 1
          /\ handler' = [handler EXCEPT !.at = "write"]
       \/ outcome # "ok" /\ handler' = Onwards(conns) /\ UNCHANGED <<conns, client, packets>>
    /\ UNCHANGED <<control, queue, astray>>

(* write_http_response_to_socket: without a packet nothing is done, ...    *)
WriteNothing ==
    /\ handler.at = "write"
    /\ handler' = Onwards(conns)
    /\ UNCHANGED <<control, queue, conns, client, packets, astray>>

(* A bug the checks must see: the packet is kept when sending fails.       *)
MutAfterError == packets + 1

(* Created and deleted.                                                    *)
AfterError == packets

Closed(c) == [c EXCEPT !.response = None, !.active = FALSE]

(* A bug the checks must see: a packet that would block is not kept.       *)
MutForgotten(c, units) == c

Blocked(c, units) == [c EXCEPT !.dangling = units]

(* ... a packet of n units is filled and sent, ...                         *)
Write(n, outcome) ==
    /\ handler.at = "write" /\ n \in Chunks(Current.response) \ {0}
    /\ outcome \in Outcomes(Current.socket)
    /\ LET r == Current.response
           units == [k \in 1 .. n |-> r.pos + k]
           c == [Current EXCEPT !.response = Committed(r, n)]
       IN  \/ /\ outcome = "ok"
              /\ Take(Current.socket, units, Total(r))
              /\ conns' = [conns EXCEPT ![handler.i] =
                               IF IsComplete(r, n) THEN Closed(c) ELSE c]
              /\ UNCHANGED packets
           \/ /\ outcome = "would block"
              /\ conns' = [conns EXCEPT ![handler.i] = Blocked(c, units)]
              /\ packets' = packets + 1
              /\ UNCHANGED client
           \/ /\ outcome = "error"
              /\ conns' = [conns EXCEPT ![handler.i] = Closed(c)]
              /\ packets' = AfterError
              /\ UNCHANGED client
    /\ handler' = Onwards(conns')
    /\ UNCHANGED <<control, queue, astray>>

-----------------------------------------------------------------------------
(* start and stop                                                          *)

(* The servers cannot listen twice on their ports.                         *)
Start(outcome) ==
    /\ owner = "idle" /\ "plain" \notin up /\ starts < MaxStarts
    /\ starts' = starts + 1
    /\ \/ /\ outcome = "ok" /\ "tls" \notin up
          /\ up' = {"plain", "tls"} /\ run' = TRUE
          /\ handler' = [at |-> "process", forever |-> TRUE, i |-> 1]
       \/ /\ outcome = "no server"
          /\ UNCHANGED <<up, run, handler>>
       \/ /\ outcome = "no thread" /\ "tls" \notin up
          /\ up' = {"tls"} /\ run' = TRUE
          /\ UNCHANGED handler
    /\ UNCHANGED <<owner, queue, conns, client, packets, astray>>

(* A thread that blocks in process is woken; one about to is not.  It ends *)
(* after a round over its connections.                                     *)
Woken == IF conns = <<>> THEN [NoThread EXCEPT !.at = "ended"]
         ELSE [at |-> "read", forever |-> FALSE, i |-> 1]

Stop ==
    /\ owner = "idle" /\ "plain" \in up
    /\ run' = FALSE
    /\ owner' = "wait"
    /\ \/ handler.at = "process" /\ queue = <<>> /\ handler' = Woken
       \/ UNCHANGED handler
    /\ UNCHANGED <<up, starts, queue, conns, client, packets, astray>>

(* stop goes on when the thread has ended, or after 7 seconds, in which a  *)
(* round is over, and deletes it.  The command queue is left as it is.     *)
StopEnds ==
    /\ owner = "wait" /\ handler.at \in {"process", "ended"}
    /\ owner' = "idle" /\ up' = {} /\ handler' = NoThread /\ conns' = <<>>
    /\ peer' = [s \in Sockets |-> Listening]
    /\ received' = [s \in Sockets |-> <<>>]
    /\ astray' = {queue[k].socket : k \in DOMAIN queue}
    /\ UNCHANGED <<run, starts, queue, connects, packets>>

-----------------------------------------------------------------------------
Handler == \/ PopTimeout
           \/ \E s \in Sockets : RunConnect(s) \/ RunData(s) \/ RunDisconnect(s)
           \/ Read \/ WriteNothing
           \/ \E outcome \in {"ok", "would block", "error"} :
                 Resend(outcome) \/ \E n \in 1 .. PacketSize : Write(n, outcome)

Network == \E s \in Sockets :
              \/ Connect(s) \/ Disconnect(s)
              \/ \E fragment \in {"part", "last"} : SendData(s, fragment)

Owner == Stop \/ StopEnds
         \/ \E outcome \in {"ok", "no server", "no thread"} : Start(outcome)

Next == Handler \/ Network \/ Owner

Spec == Init /\ [][Next]_vars

(* The handler thread is scheduled.  A prompt client takes a packet at     *)
(* last, the stack has one to give, and a file gets on with its buffer.    *)
Sent(s) == /\ handler.i <= Len(conns) /\ Current.socket = s
           /\ Resend("ok") \/ \E n \in 1 .. PacketSize : Write(n, "ok")

FairSpec == Spec /\ WF_vars(Handler) /\ \A s \in Prompt : SF_vars(Sent(s))

-----------------------------------------------------------------------------
(* Properties                                                              *)

Settled == Sockets \ astray

(* The response is with the client and still held.                         *)
Finished(c) == c.response # None /\ c.dangling = None /\ c.response.pos = Total(c.response)

(* A client gets the data of its response in order, without a gap and      *)
(* nothing twice, however often a send would block ("a dangling packet is  *)
(* all ready but was not able to be sent yet", http_server.h:29).          *)
ResponseIsExact ==
    \A k \in DOMAIN conns :
        LET c == conns[k] IN
        c.socket \in Settled /\ c.response # None =>
            received[c.socket] \o c.dangling = [n \in 1 .. c.response.pos |-> n]

(* A socket has at most one connection, and none when it listens again.    *)
SocketsAreTheirs ==
    \A s \in Settled : 
        Cardinality(IsOf(s)) = IF peer[s].state = "listening"
                                  \/ Command("connect", s) \in Range(queue) THEN 0 ELSE 1

(* The thread waits without a timeout only if there is nothing to read and *)
(* nothing to write.                                                       *)
AsleepMeansIdle ==
    handler.at = "process" /\ handler.forever /\ queue = <<>> =>
        \A k \in DOMAIN conns :
            LET c == conns[k] IN
            c.socket \in Settled /\ peer[c.socket].state = "open" =>
                IF c.response = None THEN peer[c.socket].inbox = <<>> ELSE Finished(c)

Dangling(cs) == Cardinality({k \in DOMAIN cs : cs[k].dangling # None})

(* A connection that is erased takes a packet with it that nobody deletes  *)
(* (http_server.cpp:313-316 and :456).                                     *)
Leaks ==
    /\ packets' = packets
    /\ \/ /\ owner = "wait" /\ owner' = "idle"
          /\ \E k \in DOMAIN conns : conns[k].dangling # None
       \/ \E s \in Sockets :
             /\ RunDisconnect(s)
             /\ IsOf(s) # {} /\ conns[Min(IsOf(s))].dangling # None

(* Whatever would block, fails or is sent again, a packet is sent, deleted *)
(* or held by exactly one connection; those that are lost, are lost with a *)
(* connection that held one.                                               *)
PacketsAreHeld ==
    [][packets' - Dangling(conns') # packets - Dangling(conns) => Leaks]_vars

(* stop "destroys all resources" (http_server.h:47).                       *)
StopDestroysAll == owner = "idle" /\ up = {} => packets = 0

(* "not block anything (e.g. because of one slow client)"                  *)
(* (lib_http/README.txt:9): the request of a prompt client is answered     *)
(* whatever the others do, if no response before it is still held.         *)
Held(s) == \E k \in IsOf(s) : Finished(conns[k])

Answered ==
    \A s \in Prompt :
        peer[s].awaiting ~> \/ ~peer[s].awaiting \/ peer[s].state # "open"
                            \/ Held(s) \/ s \in astray \/ ~run \/ handler.at = "none"

(* A response whose data is all sent is complete (http_response.t.cpp:45   *)
(* requires it of a header without payload).                               *)
SentIsComplete ==
    \A k \in DOMAIN conns : Finished(conns[k]) => Total(conns[k].response) = 0

=============================================================================
