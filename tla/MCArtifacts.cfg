SPECIFICATION ArtifactSpec
CONSTANTS
  Uploads = {u1, u2}
  Outputs = {o1, o2}
  Attempts = {t1, t2}
  Downloads = {d1}
  Marked = {o1}
  MaxOpen = 1
SYMMETRY Symmetry
CHECK_DEADLOCK FALSE
INVARIANTS
  ActiveBytesVerified
  DeletedStaysDeleted
PROPERTIES
  
  StreamsServeReadableFiles
