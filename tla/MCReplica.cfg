SPECIFICATION MCSpec
CONSTANTS
  s1 = s1
  s2 = s2
  cmd = cmd
  c1 = c1
  c2 = c2
  c3 = c3
  c4 = c4
  Server = {s1, s2}
  Command = {cmd}
  AutoMigrate = {s1, s2}
  Migrations = 2
  MaxWait = 3
  RetrySleep = 2
  AttemptMax = 2
  Nobody = Nobody
  Key = {key}
  Caller = {r1, r2}
  key = key
  r1 = r1
  r2 = r2
  BURST = 2
  PER_SECOND = 2
  Unit = 3
  IDLE_EVICTION = 3
  MaxTime = 4
  Absent = Absent
  Client = {c1, c2, c3, c4}
  RouteOf <- MCRouteOf
  ArtifactRoutes = {"file"}
  FileRoute = "file"
  MAX_IN_FLIGHT_REQUESTS = 2
  artifact_serve_concurrency = 1
  MAX_SERVED_FILE_BYTES = 2
  max_inflated_bytes = 6
  BLOCK = 2
  MaxEntries = 2
  Sizes = {0, 1, 3}
INVARIANTS AdmittedWithinBudget RetryAfterSuffices ExtractionHonoursBudget ServingIsMigrated GivesUpInTime
PROPERTIES RouteNeverWedged EveryReplicaServes
CHECK_DEADLOCK FALSE
