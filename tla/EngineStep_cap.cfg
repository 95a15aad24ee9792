\* More requests over time than the draft map has room for, fewer at a time.
SPECIFICATION Spec
CONSTANTS
  r1 = r1 r2 = r2 r3 = r3 r4 = r4
  Reqs = {r1, r2, r3, r4}
  Structured = {r1, r2, r3, r4}
  Cap = 3
  Depth = 3
  Rotation = 2
  NumSpec = 1
  ChunkShare = 0
  MaxNumSeqs = 2
  MaxPos = 4
  None = None
SYMMETRY SymStructured
PROPERTY DeferredWindowsCovered
