CONSTANTS
  d1 = d1
  d2 = d2
  d3 = d3
  a = a
  b = b
  c = c
  NoDoc = NoDoc
  Doc = {d1, d2, d3}
  Text <- TextsOfThree
  ChunksOf <- Three
  Extraction = {x1}
  Chain <- Cli
  MaxRetries = 2
  FailureThreshold = 2
  Cooldown = 1
  InvalidDoc = {d2}
  UseCache = TRUE
  StrictChoice <- Either
SPECIFICATION FairSpec
INVARIANTS TypeOK OwnFactsOnly
PROPERTY ExtractionEnds
