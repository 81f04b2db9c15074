SPECIFICATION FairSpec
CONSTANTS
  Archs <- MCArchs
  Code <- MCCode
  Requests = {1, 6, 8}
  NoStream = NoStream
INVARIANT CodeComplete
PROPERTY ReadingEnds
