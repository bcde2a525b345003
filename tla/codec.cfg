SPECIFICATION Spec
CONSTANTS
  Config <- Small
  Seqs = {0, 65535}
  Extras <- KnownExtras
  MayMiss = TRUE
  PerFrame = 1
  RecvSizes = {10, 15, 28, 4096}
  None = None
INVARIANTS RoundTrip ReadBack TruncatedRejected
