\* One file flushed again and again: the 255th update stores revision 0.
SPECIFICATION Spec
CONSTANTS
  SlotCount = 1
  EndBlock = 7
  PageBlocks = 2
  Handles = {h1}
  NoHandle = NoHandle
  Data = {a}
  Blank = Blank
  Garbled = Garbled
  Config = Config
  NoFile = NoFile
  RevMod = 256
  Faults = {}
  Careful = TRUE
  MaxWrite = 1
  FlushLimit = 256
  MaxFaults = 0
INVARIANTS FlushedIsDurable
