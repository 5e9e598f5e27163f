SPECIFICATION CollectJobSpec
CONSTANTS
  c1 = c1
  c2 = c2
  c3 = c3
  Comments <- MCComments
  Platforms <- MCPlatforms
  Batches <- MCBatches
  Shows <- MCShows
  CreatorMode = {"dy"}
  Accounts = TRUE
  CollectTarget = 2
  MaxRetries = 1
  Intent <- MCComments
  Strong = {c1}
  Addressed = {c1, c3}
  Identified = {c1, c2}
  Earlier = {c2}
  Backends = {"dify", "direct"}
  MinConfidence = "high"
  Confidences = {"medium", "high"}
  ChunkSize = 2
INVARIANTS ReadCommentsKept AccountsCreditedRightly MisjudgedOnlyByDifyChunks ReportAddsUp OneLeadPerComment ExportedAreQueued
PROPERTIES CollectionEnds CollectionRunsOut
