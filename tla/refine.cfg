SPECIFICATION StoreSpec
CONSTANTS
  t1 = t1
  t2 = t2
  Threads <- OneThread
  Regions = {1, 3}
  Keys = {"raft_state"}
  RAFT_LOG_STATE_KEY = "raft_state"
  SLOTS_COUNT = 2
  RecoveryModes = {0}
  COMPRESSION_THRESHOLD = 2
  TARGET_FILE_SIZE = 7
  BYTES_PER_SYNC = 1
  REGION_SIZE = 2
  CACHE_SIZE_LIMIT = 2
  TOTAL_SIZE_LIMIT = 9
  COMPACT_THRESHOLD = 3
  Ops <- StoreOps
  SyncChoices = {FALSE}
  HeaderTear = FALSE
  MaxIndex = 2
  MaxEntries = 1
  MaxItems = 2
  MaxWrites = 2
  MaxFileNum = 3
  MaxRestarts = 0
PROPERTY RefinesStore
