\* Does every structured window get rewritten?
SPECIFICATION Spec
CONSTANTS
  r1 = r1 r2 = r2 r3 = r3 r4 = r4
  Reqs = {r1}
  Structured = {r1}
  Cap = 1
  Depth = 3
  Rotation = 2
  NumSpec = 1
  ChunkShare = 0
  MaxNumSeqs = 1
  MaxPos = 4
  None = None
INVARIANT EveryWindowRewritten
