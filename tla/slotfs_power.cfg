\* One slot, one writer: every device write may be cut short by a power loss,
\* and the second page of the slot reaches behind its end.
SPECIFICATION FairSpec
CONSTANTS
  SlotCount = 1
  EndBlock = 6
  PageBlocks = 2
  Handles = {h1}
  NoHandle = NoHandle
  Data = {a, b}
  Blank = Blank
  Garbled = Garbled
  Config = Config
  NoFile = NoFile
  RevMod = 256
  Faults = {"data", "power"}
  Careful = TRUE
  MaxWrite = 3
  FlushLimit = 2
  MaxFaults = 2
INVARIANTS FlushedIsDurable ReadsAreExact
PROPERTIES WritesStayInPages MostRecentSurvives ImplementsSlotStore CallsReturn
