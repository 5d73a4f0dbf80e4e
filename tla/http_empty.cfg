\* One client, one request.
SPECIFICATION Spec
CONSTANTS
  Bodies = {1}
  PacketSize = 2
  Sockets = {s1, s2}
  TlsSockets = {s2}
  Prompt = {s1}
  QueueSize = 2
  MaxConnects = 1
  Chunked = {s1}
  MaxStarts = 1
INVARIANTS SentIsComplete
CHECK_DEADLOCK FALSE
