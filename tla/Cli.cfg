CONSTANTS
  html = html  css = css  a = a  b = b  user = user
  title = title  lastUpdate = lastUpdate
  None = None
  Nobody = Nobody
  Files <- MCFiles
  Data <- MCData
  MetaKeys <- MCMetaKeys
  MetaValues <- MCMetaValues
  Callers <- MCCallers
  MaxChunks = 2
  Publisher = user
  IndexHtml = html
  LastUpdate = lastUpdate
  Directories <- MCDirectories
  Config <- MCConfig
  Size <- MCSize
  ChunkSize = 2
  BatchSize = 1
  Window = 2
  Commands <- MCCommands
  MaxRuns = 2
SPECIFICATION CliSpec
CHECK_DEADLOCK FALSE
INVARIANTS CliTypeOK BatchesExact UndisturbedSucceeds UndisturbedKeepsItsWord
PROPERTIES RunsEnd
