----------------------------- MODULE MCUtilities -----------------------------
(* The small components, which share nothing: a behaviour is one of one    *)
(* of them, the others rest.                                               *)
EXTENDS FrameMessage, PacketSync, EventTrace, HttpRequest, HttpRoutes, RgbLed,
        SequentialBuffer, RbsServer

VARIABLE component

vars == <<frameVars, syncVars, traceVars, requestVars, routesVars, ledVars,
          bufferVars, rbsVars>>

MCInit == /\ component \in {"frame", "sync", "trace", "request", "routes", "led",
                            "buffer", "rbs"}
          /\ FrameInit /\ SyncInit /\ TraceInit /\ RoutesInit /\ LedInit
          /\ BufferInit /\ RbsInit /\ RequestInit
          /\ component # "request" => sent = CHOOSE r \in Requests : TRUE

Rests(name, variables) == component # name => UNCHANGED variables

MCNext ==
    /\ UNCHANGED component
    /\ \/ component = "frame" /\ FrameNext
       \/ component = "sync" /\ SyncNext
       \/ component = "trace" /\ TraceNext
       \/ component = "request" /\ RequestNext
       \/ component = "routes" /\ RoutesNext
       \/ component = "led" /\ LedNext
       \/ component = "buffer" /\ BufferNext
       \/ component = "rbs" /\ RbsNext
    /\ Rests("frame", frameVars) /\ Rests("sync", syncVars)
    /\ Rests("trace", traceVars) /\ Rests("request", requestVars)
    /\ Rests("routes", routesVars) /\ Rests("led", ledVars)
    /\ Rests("buffer", bufferVars) /\ Rests("rbs", rbsVars)

(* A request that was read and a full table of routes have no more steps.  *)
Terminating == /\ \/ component = "request" /\ result # "incomplete"
                  \/ component = "routes" /\ Cardinality(added) = MaxRoutes
               /\ UNCHANGED <<component, vars>>

(* The timer thread of the LED and the consumer of the buffer go on; one   *)
(* condition is enough for both, as only one of them has steps.            *)
GoesOn == \/ component = "led" /\ OnLedUpdate /\ UNCHANGED bufferVars
          \/ component = "buffer" /\ Reading /\ UNCHANGED ledVars

IntervalReturns == component = "led" /\ timer = "gone" /\ SetUpdateInterval

MCSpec == /\ MCInit /\ [][MCNext \/ Terminating]_<<component, vars>>
          /\ WF_<<ledVars, bufferVars>>(GoesOn) /\ WF_ledVars(IntervalReturns)

=============================================================================
