\* Slots of three blocks, pages of two: the last page of slot 0 is written whole.
SPECIFICATION Spec
CONSTANTS
  SlotCount = 2
  EndBlock = 11
  PageBlocks = 2
  Handles = {h1}
  NoHandle = NoHandle
  Data = {a}
  Blank = Blank
  Garbled = Garbled
  Config = Config
  NoFile = NoFile
  RevMod = 256
  Faults = {}
  Careful = TRUE
  MaxWrite = 2
  FlushLimit = 3
  MaxFaults = 0
PROPERTIES SlotsAreIsolated
