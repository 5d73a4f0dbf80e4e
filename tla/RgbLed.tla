-------------------------------- MODULE RgbLed --------------------------------
(***************************************************************************)
(* lib_util's RgbLed and RgbLedDriver: threads set a pattern and a colour  *)
(* for a priority, and a timer on a worker thread shows the entry of the   *)
(* highest one.  set holds the mutex throughout and is one step;           *)
(* set_from_hex reads the active pattern before it, without the mutex; the *)
(* timer copies the active entry under the mutex and drives the pins       *)
(* after it.                                                               *)
(*                                                                         *)
(* A colour is the set of its channels, a pin is lit or dark.  The         *)
(* patterns that fade and blink are one, which may be dark at any update.  *)
(***************************************************************************)
EXTENDS Naturals, FiniteSets, FiniteSetsExt

CONSTANTS PriorityCount,   \* LED_PRIORITY_COUNT
          Callers,         \* threads that call set_from_hex
          Colours,         \* what callers show
          MaxIntervals     \* bound: calls of set_update_interval

Channels == {"red", "green", "blue"}
Priorities == 0 .. PriorityCount - 1
Patterns == {"disabled", "solid", "periodic"}

ASSUME LedAssumption == /\ PriorityCount \in Nat \ {0}
                        /\ Colours \subseteq SUBSET Channels

VARIABLES patterns,   \* m_patterns
          active,     \* m_active_pattern
          hex,        \* by caller: the pattern set_from_hex read, or NotInHex
          timer,      \* led_timer: "none" before initialize, "registered" or "gone"
          update,     \* the entry on_led_update goes to show, or NoUpdate
          lit,        \* the pins that are not dark; "white" is the fourth
          intervals   \* number of calls of set_update_interval

callerVars == <<patterns, active, hex>>
driverVars == <<update, lit>>
ledVars == <<patterns, active, hex, timer, update, lit, intervals>>

Black == [pattern |-> "disabled", colour |-> {}]
NotInHex == "none"
NoUpdate == [pattern |-> "none", colour |-> {}]

(* The driver's m_white_active: it has a pin of its own for white.         *)
Pins(c) == IF c = Channels THEN {"white"} ELSE c

LedInit == /\ patterns = [p \in Priorities |-> Black]
           /\ active = Black
           /\ hex = [c \in Callers |-> NotInHex]
           /\ timer = "none" /\ update = NoUpdate
           /\ lit = {} /\ intervals = 0

(* What was set before is forgotten, the active entry stays.               *)
Initialize ==
    /\ timer = "none"
    /\ patterns' = [p \in Priorities |-> Black]
    /\ timer' = "registered" /\ lit' = {}
    /\ UNCHANGED <<active, hex, update, intervals>>

(* The timer is taken away and comes back with the new interval.  (Left    *)
(* out: a call before initialize, which runs the timer without a driver.)  *)
SetUpdateInterval ==
    \/ /\ timer = "registered" /\ intervals < MaxIntervals
       /\ timer' = "gone" /\ intervals' = intervals + 1
       /\ UNCHANGED <<callerVars, driverVars>>
    \/ /\ timer = "gone" /\ timer' = "registered"
       /\ UNCHANGED <<intervals, callerVars, driverVars>>

-----------------------------------------------------------------------------
(* The callers                                                             *)

Enabled(table) == {p \in Priorities : table[p].pattern # "disabled"}

(* A bug the checks must see: the lowest priority is shown.                *)
MutActive(table) == IF Enabled(table) = {} THEN active ELSE table[Min(Enabled(table))]

(* With all of them disabled, what was active stays so.                    *)
Active(table) == IF Enabled(table) = {} THEN active ELSE table[Max(Enabled(table))]

Set(prio, pattern, rgb) ==
    LET table == [patterns EXCEPT ![prio] = [pattern |-> pattern, colour |-> rgb]]
    IN patterns' = table /\ active' = Active(table)

SetPattern(prio, pattern, rgb) ==
    /\ Set(prio, pattern, rgb)
    /\ UNCHANGED <<hex, timer, driverVars, intervals>>

SetFromHex(caller) ==
    \/ /\ hex[caller] = NotInHex
       /\ hex' = [hex EXCEPT ![caller] = active.pattern]
       /\ UNCHANGED <<patterns, active, timer, driverVars, intervals>>
    \/ /\ hex[caller] # NotInHex
       /\ \E prio \in Priorities, rgb \in Colours : Set(prio, hex[caller], rgb)
       /\ hex' = [hex EXCEPT ![caller] = NotInHex]
       /\ UNCHANGED <<timer, driverVars, intervals>>

-----------------------------------------------------------------------------
(* The timer                                                               *)

GetActive ==
    /\ timer = "registered" /\ update = NoUpdate
    /\ update' = active
    /\ UNCHANGED <<callerVars, timer, lit, intervals>>

IsLit(pattern) == CASE pattern = "disabled" -> {FALSE}
                    [] pattern = "solid" -> {TRUE}
                    [] pattern = "periodic" -> BOOLEAN

(* Lights the pins of the colour and darkens all others.                   *)
SetColor(c) == Pins(c)

(* Changes the pin for white, or the three others, as set_color decided.   *)
SetBrightness(pins, c, bright) ==
    (IF c = Channels THEN pins \ {"white"} ELSE pins \ Channels)
    \cup (IF bright THEN Pins(c) ELSE {})

(* set_color and set_brightness, one after the other on this thread.       *)
Drive ==
    /\ update # NoUpdate
    /\ \E bright \in IsLit(update.pattern) :
          lit' = SetBrightness(SetColor(update.colour), update.colour, bright)
    /\ update' = NoUpdate
    /\ UNCHANGED <<callerVars, timer, intervals>>

OnLedUpdate == GetActive \/ Drive

LedNext ==
    \/ Initialize \/ SetUpdateInterval \/ OnLedUpdate
    \/ \E prio \in Priorities, pattern \in Patterns, rgb \in Colours :
          SetPattern(prio, pattern, rgb)
    \/ \E caller \in Callers : SetFromHex(caller)

(* The worker thread runs the timer, and set_update_interval returns.      *)
LedFairness == /\ WF_ledVars(OnLedUpdate)
               /\ WF_ledVars(timer = "gone" /\ SetUpdateInterval)

-----------------------------------------------------------------------------
(* Properties                                                              *)

Shows(entry) == \/ lit = Pins(entry.colour)
                \/ lit = {} /\ entry.pattern = "periodic"

HasHighest == timer # "none" /\ Enabled(patterns) # {}

Highest == patterns[Max(Enabled(patterns))]

(* The LED follows the priorities (rgb_led.h:37-39): once the highest one  *)
(* with a pattern has a colour, the pins get to show it with that pattern, *)
(* and those of the colour before are dark, whoever sets what in between   *)
(* and whichever update was under way, unless another colour comes above.  *)
LedFollows == \A c \in Colours :
    HasHighest /\ Highest.colour = c
        ~> (HasHighest /\ Highest.colour = c => Shows(Highest))

LedSpec == LedInit /\ [][LedNext]_ledVars /\ LedFairness
=============================================================================
