\* Pages of two, batches of two, two attempts, two requests to GitHub at a time.
CONSTANTS
  p1 = p1
  p2 = p2
  p3 = p3
  p4 = p4
  p5 = p5
  p6 = p6
  r1 = r1
  r2 = r2
  r3 = r3
  Paper = {p1, p2, p3, p4, p5, p6}
  Repo = {r1, r2, r3}
  Title <- TitleOf
  Stars <- StarsOf
  Dataset <- Datasets
  Listing <- ListingNow
  Arrivals <- Submitted
  Since <- Dates
  Limits = {1, 3}
  PageSize = 2
  BatchSize = 2
  MaxAttempts = 2
  Slots = 2
SPECIFICATION FairSpec
INVARIANTS TypeOK NoGap FoundIsJoined RecordsFollowDataset
PROPERTY HarvestEnds
CHECK_DEADLOCK FALSE
