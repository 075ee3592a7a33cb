\* A keeper on its timer, with failing requests, beside a changing registry.
CONSTANTS
  Names = {ann, bob, cat}
  ChunkSize = 2
  BatchSize = 1
  Threshold = 3
  Bump = 5
  NetworkTtl = 1
  Interval = 2
  MaxLedger = 7
  MaxRemovals = 1
  MaxFailures = 1
SYMMETRY Symmetry
SPECIFICATION Spec
INVARIANTS TypeOK CleanPassProtects
