CONSTANTS
  d1 = d1
  d2 = d2
  d3 = d3
  a = a
  b = b
  c = c
  NoDoc = NoDoc
  Doc = {d1}
  Text <- TextsOfOneDoc
  ChunksOf <- OneDoc
  Extraction = {x1, x2}
  Chain <- Groq
  MaxRetries = 2
  FailureThreshold = 2
  Cooldown = 1
  InvalidDoc = {}
  UseCache = TRUE
  StrictChoice <- Never
SPECIFICATION Spec
INVARIANTS BreakerConsistent NoReplay PayloadsInOrder
PROPERTY FailsOnlyWhenExhausted
