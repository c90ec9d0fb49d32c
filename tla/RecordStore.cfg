\* Three clients on a pool of two connections: two pipelines that go on after a
\* failed record and one batch_upsert_jobs, beside upsert_record.
CONSTANTS
  posting = posting  reposted = reposted  renamed = renamed  other = other
  k1 = k1  k2 = k2  u1 = u1  u2 = u2
  c1 = c1  c2 = c2  c3 = c3
  Client = {c1, c2, c3}
  Record = {posting, reposted, renamed, other}
  Key = {k1, k2}
  Row = {u1, u2}
  KeyOf <- Keys
  RowOf <- Rows
  Batch <- Crossed
  Batching = {c3}
  Untyped = {other}
  Keeps = {posting, reposted, renamed}
  PoolSize = 2
  MaxFaults = 1
  NoRecord = NoRecord
  NoKey = NoKey
SPECIFICATION FairSpec
INVARIANTS TypeOK RowsAgree CountedOnce
PROPERTIES FirstSeenStays BatchEnds ServiceSpec
