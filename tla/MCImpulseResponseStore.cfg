SPECIFICATION FairSpec
CONSTANTS
  Callers = {c1, c2}
  FileCounts <- MCFileCounts
  MaxIRCount = 3
  Unreadable = {1}
  NoAudio = NoAudio
INVARIANTS
  TypeOK
  ReadersSeeCompensated
PROPERTIES
  ReadersUndisturbed
  CallersServed
