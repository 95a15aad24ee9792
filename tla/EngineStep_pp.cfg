\* The production shape: async scheduler, rotation, one batch more in the queue
\* than the rotation is long; a structured and a plain request.
SPECIFICATION Spec
CONSTANTS
  r1 = r1 r2 = r2 r3 = r3 r4 = r4
  Reqs = {r1, r2}
  Structured = {r1}
  Cap = 2
  Depth = 3
  Rotation = 2
  NumSpec = 1
  ChunkShare = 0
  MaxNumSeqs = 2
  MaxPos = 4
  None = None
INVARIANTS InFlightExact NoStaleDrafts DrainInertUnderRotation
PROPERTY DeferredWindowsCovered
