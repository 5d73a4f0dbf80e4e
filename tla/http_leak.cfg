\* One connection whose client is slow when the server is stopped.
SPECIFICATION Spec
CONSTANTS
  Bodies = {1}
  PacketSize = 2
  Sockets = {s1}
  TlsSockets = {}
  Prompt = {s1}
  QueueSize = 2
  MaxConnects = 1
  Chunked = {}
  MaxStarts = 1
INVARIANTS StopDestroysAll
CHECK_DEADLOCK FALSE
