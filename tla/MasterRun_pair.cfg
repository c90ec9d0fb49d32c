\* Two master runs of the job pipeline that may share the database.
CONSTANTS
  m1 = m1  m2 = m2
  paper = paper  coded = coded  acme = acme  acmeLtd = acmeLtd
  tool = tool  mangled = mangled
  fresh = fresh  old = old  sample = sample
  job = job  repost = repost  stale = stale  broken = broken  lead = lead
  Master = {m1, m2}
  Order <- JobsOnly
  Run <- Runs
  VerticalOf <- Verticals
  Store <- Stores
  Postgres = Postgres
  Candidate <- Candidates
  Key <- Candidates
  Row <- Candidates
  Name <- Candidates
  TypeOf <- Types
  KeyOf <- Keys
  RowOf <- Urls
  NameOf <- Names
  Posted <- Dates
  Unbuildable = {mangled}
  Invalid = {broken}
  Sources <- AskedTwice
  Offers <- FoundOne
  Samples <- Spare
  NewsSamples <- OneSample
  Limit = 1
  Hours = 1
  MaxTime = 1
  MaxFaults = 1
  NoRecord = NoRecord
  NoKey = NoKey
SPECIFICATION MasterSpec
SYMMETRY AnyOrder
INVARIANTS MasterTypeOK CountsAddUp NothingLostQuietly StoredFresh
CHECK_DEADLOCK FALSE
