\* One master run through all five pipelines.
CONSTANTS
  m1 = m1  m2 = m2
  paper = paper  coded = coded  acme = acme  acmeLtd = acmeLtd
  tool = tool  mangled = mangled
  fresh = fresh  old = old  sample = sample
  job = job  repost = repost  stale = stale  broken = broken  lead = lead
  Master = {m1}
  Order <- AllFive
  Run <- Runs
  VerticalOf <- Verticals
  Store <- Stores
  Postgres = Postgres
  Candidate <- Candidates
  Key <- Candidates
  Row <- Candidates
  Name <- Candidates
  TypeOf <- Types
  KeyOf <- Keys
  RowOf <- Urls
  NameOf <- Names
  Posted <- Dates
  Unbuildable = {mangled}
  Invalid = {broken}
  Sources <- AskedOnce
  Offers <- Found
  Samples <- Spare
  NewsSamples <- OneSample
  Limit = 3
  Hours = 1
  MaxTime = 1
  MaxFaults = 1
  NoRecord = NoRecord
  NoKey = NoKey
SPECIFICATION FairMaster
INVARIANTS StoredIsLogged ExportMatchesCounts
PROPERTIES FirstWins MasterEnds
CHECK_DEADLOCK FALSE
