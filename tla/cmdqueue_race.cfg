\* Two threads call at the same time.
SPECIFICATION Spec
CONSTANTS
  Callers = {c1, c2}
  SIZE = 2
  Ids = {1}
  Delays = {1}
  ClockSize = 8
  LastCall = 1
  Horizon = 2
  MaxCalls = 2
INVARIANTS CalledOnce
