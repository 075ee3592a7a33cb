\* A punctual keeper whose every request is served.
CONSTANTS
  Names = {ann, bob, cat}
  ChunkSize = 2
  BatchSize = 2
  Threshold = 3
  Bump = 5
  NetworkTtl = 1
  Interval = 2
  MaxLedger = 7
  MaxRemovals = 1
  MaxFailures = 0
SYMMETRY Symmetry
SPECIFICATION Spec
INVARIANT RecordsStayAlive
