SPECIFICATION MCSpec
CONSTANTS
  Data = {1, 2}
  BufferSize = 128
  MaxSize = 15
  Reference = t1
  Others = {t2}
  Times = {0, 1, 2, 3, 4}
  Untouched = untouched
  Garbage = garbage
  Careful = TRUE
  MaxPushed = 3
  Threads = {1, 256}
  MaxNested = 2
  Reservations = {0, 4}
  WordSize = 256
  QueryUnits = {"a", "=", "&", "%26"}
  Pieces = {1, 2, 3, 20}
  MaxQuery = 4
  MaxHeaders = 2
  MaxText = 2
  Methods = {1, 2}
  Characters = {1, 2}
  MaxPath = 2
  MaxRoutes = 2
  PriorityCount = 2
  Callers = {c1}
  Colours = {{"red"}, {"red", "green", "blue"}}
  MaxIntervals = 1
  Capacity = 4
  Bytes = {a, b}
  Unwritten = Unwritten
  Watermark = 2
  Drains = TRUE
  MaxWrite = 5
  Tables = {0, 1, 2}
  Unlisted = {0}
  QueueSize = 1
  MaxPulses = 4
INVARIANTS ReadsBack ScopesBalance DownloadIsExact RequestIsExact QueryIsExact
  AssertionsHold NoSleepOnWatermark
  ReadsOneTable RepliesAreRecent PacketsAccounted TableIsAdopted
PROPERTIES NearestIsDelivered EventsStayInPlace RoutesAreIndependent LedFollows
  ImplementsByteFifo WrittenIsRead ActiveIsUntouched
