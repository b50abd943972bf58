SPECIFICATION ServicesSpec
CONSTANTS
  RecFrames = 2
  RecSounds = 1
  RecCapacity = 1
  RecBFrames = 1
  RecStarts = 2
  AacFrame = 2
  AacPiece = 3
  AacSamples = 9
  MaxWriteErrors = 2
  StrPackets = 2
  StrPosts = 3
  ExtRetries = 1
  AsrQueueSize = 2
  AsrToggles = 3
  VsrFrames = 3
  VsrInputCap = 1
  VsrOutputCap = 1
  VsrSlowFrames = 2
  VsrCalls = 3
  VrmClients = {c1, c2, c3}
  VrmBudgets = {1, 2}
  VrmModulus = 8
  VrmCalls = 3
  BrkSlowFrames = 2
  BrkCalls = 4
  MplCalls = 4
  BusPublishers = {p1, p2}
  BusSubscribers = {s1, s2}
  BusEvents = 2
  FacCalls = 6
  EncChunks = 2
  EncJobs = 3
  RsmFrames = 3
  KeyFiles = {f1, f2, f3}
  KeyEntries = 2
  KeyCalls = 6
  AesBlock = 3
  AesSize = 10
INVARIANTS
  ServicesTypeOK
  ServiceThreadsOwned
  RecordingWhole
  UiIsTold
  FilesWhole
  RightKeys
PROPERTIES
  FramesAccounted
  CallsEnd
CHECK_DEADLOCK FALSE
