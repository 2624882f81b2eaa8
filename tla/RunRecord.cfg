\* A flush after two of three chunks, after a while, and at the end; ends of a
\* process anywhere.  A run that has ended for good stops: no deadlock check.
SPECIFICATION FairSpec
CONSTANTS
  Chunks = {1, 2, 3}
  ChunkBatchSize = 2
  IntervalSeconds = 1
  Concurrency = 1
  ResultStatuses = {"done", "failed"}
  Releases <- MCReleases
  SchemaDocuments = {"users", "users_reordered", "orders"}
  Canonical <- MCCanonical
  GenerateCalls <- MCGenerateCalls
  ResumeCalls <- MCResumeCalls
  OptionKeys = {"path", "password", "password_env"}
  SecretKeys = {"password", "password_env"}
  EnvKeys = {"password_env"}
  MaxStops = 2
  MaxWrites = 12
CHECK_DEADLOCK FALSE
INVARIANTS NothingOverclaimed LossIsBounded OneOrigin OptionsSurvive
PROPERTY RunEnds
