SPECIFICATION RecoverySpec
CONSTANTS
  t1 = t1
  t2 = t2
  Threads <- OneThread
  Regions = {1, 2}
  Keys = {"raft_state"}
  RAFT_LOG_STATE_KEY = "raft_state"
  SLOTS_COUNT = 2
  RecoveryModes = {0}
  COMPRESSION_THRESHOLD = 2
  TARGET_FILE_SIZE = 7
  BYTES_PER_SYNC = 1
  REGION_SIZE = 2
  CACHE_SIZE_LIMIT = 2
  TOTAL_SIZE_LIMIT = 9
  COMPACT_THRESHOLD = 3
  Ops <- RestartOps
  SyncChoices = {FALSE}
  HeaderTear = FALSE
  MaxIndex = 3
  MaxEntries = 2
  MaxItems = 1
  MaxWrites = 3
  MaxFileNum = 3
  MaxRestarts = 1
INVARIANTS
  ReopenIsExact
