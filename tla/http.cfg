\* The server may sleep for ever when the clients have done all they may do.
SPECIFICATION FairSpec
CONSTANTS
  Bodies = {1}
  PacketSize = 2
  Sockets = {s1, s2}
  TlsSockets = {s2}
  Prompt = {s1}
  QueueSize = 2
  MaxConnects = 2
  Chunked = {s1}
  MaxStarts = 1
INVARIANTS ResponseIsExact SocketsAreTheirs AsleepMeansIdle
PROPERTIES PacketsAreHeld Answered
CHECK_DEADLOCK FALSE
