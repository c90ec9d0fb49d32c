CONSTANTS
  d1 = d1
  d2 = d2
  d3 = d3
  a = a
  b = b
  c = c
  NoDoc = NoDoc
  Doc = {d1, d2}
  Text <- TextsOfSameStart
  ChunksOf <- SameStart
  Extraction = {x1}
  Chain <- Keyless
  MaxRetries = 2
  FailureThreshold = 2
  Cooldown = 1
  InvalidDoc = {}
  UseCache = TRUE
  StrictChoice <- Never
SPECIFICATION Spec
INVARIANT OwnFactsOnly
