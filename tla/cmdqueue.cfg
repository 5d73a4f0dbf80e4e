\* One thread calls, the worker processes.
SPECIFICATION FairSpec
CONSTANTS
  Callers = {c1}
  SIZE = 2
  Ids = {1}
  Delays = {1}
  ClockSize = 8
  LastCall = 1
  Horizon = 2
  MaxCalls = 3
INVARIANTS ContextsHeldOnce CalledOnce
PROPERTIES CancelHolds ImplementsCommandFifo NotEarly WaitMeansDone WaitReturns AcceptedIsCalled
