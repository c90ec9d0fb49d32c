\* Every pipeline with a limit below and one above its number of crawlers.
CONSTANTS
  Kind = {"products", "jobs", "startups", "news"}
  Limit = {2, 16}
  PageOf <- PagesMet
  Flaky = {1, 2}
SPECIFICATION FairSpec
INVARIANTS TypeOK InSourceOrder SubstitutesOnlyForMissing WithinLimit
PROPERTY GatherEnds
CHECK_DEADLOCK FALSE
