SPECIFICATION FairSpec
CONSTANTS
  Child = child
  Heirs = {heir}
  Strays = {stray}
  Streams = {"stdout", "stderr"}
  Cap = 1
  PipeSize = 1
  MaxOutput = 3
INVARIANTS OkIsComplete NothingLeftBehind
PROPERTIES RunEnds
