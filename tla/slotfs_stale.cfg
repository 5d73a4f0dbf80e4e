\* One metadata write of a file fails: the next ones are stored and not found.
SPECIFICATION Spec
CONSTANTS
  SlotCount = 1
  EndBlock = 7
  PageBlocks = 2
  Handles = {h1}
  NoHandle = NoHandle
  Data = {a}
  Blank = Blank
  Garbled = Garbled
  Config = Config
  NoFile = NoFile
  RevMod = 256
  Faults = {"meta"}
  Careful = TRUE
  MaxWrite = 1
  FlushLimit = 4
  MaxFaults = 1
PROPERTIES StoredIsCurrent
