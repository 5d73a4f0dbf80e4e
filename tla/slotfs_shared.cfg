\* Two slots and two files: readers beside a writer, without power losses.
SPECIFICATION Spec
CONSTANTS
  SlotCount = 2
  EndBlock = 9
  PageBlocks = 2
  Handles = {h1, h2}
  NoHandle = NoHandle
  Data = {a}
  Blank = Blank
  Garbled = Garbled
  Config = Config
  NoFile = NoFile
  RevMod = 256
  Faults = {"data", "meta", "read"}
  Careful = TRUE
  MaxWrite = 2
  FlushLimit = 2
  MaxFaults = 1
INVARIANTS FoundIsWritten LocksCountOpenFiles ReadersKeepTheirContent
SYMMETRY Interchangeable
