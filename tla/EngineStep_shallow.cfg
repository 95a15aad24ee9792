\* The sync scheduler: no rotation, so a request is scheduled again while older
\* slots of it are in the queue and the drain loop has to work; its counter
\* counts prefill chunks too.
SPECIFICATION FairSpec
CONSTANTS
  r1 = r1 r2 = r2 r3 = r3 r4 = r4
  Reqs = {r1, r2}
  Structured = {r1, r2}
  Cap = 2
  Depth = 3
  Rotation = 1
  NumSpec = 1
  ChunkShare = 1
  MaxNumSeqs = 2
  MaxPos = 3
  None = None
INVARIANTS TypeOK FlightTiles MaskFresh QueueInBounds OutputsConserved
PROPERTIES DrainCatchesUp RefinesLockstep ScheduledIsSettled
