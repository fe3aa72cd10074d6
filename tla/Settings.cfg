CONSTANTS
  u1 = u1  u2 = u2  mainnet = mainnet  buildnet = buildnet
  there = there  here = here  cacheDir = cacheDir  absolute = absolute
  Absent = Absent  NoUrl = NoUrl  Missing = Missing  Garbled = Garbled
  Down = Down  Error = Error  Panic = Panic
  NodeUrls <- MCUrls
  NetworkOf <- MCNetworkOf
  AbsolutePaths <- MCAbsolutePaths
  RelativePaths <- MCRelativePaths
  InConfigDir <- MCInConfigDir
  MainnetUrl = u1
  DefaultPort = 3
  DefaultLimit = 2
  DefaultDir = here
  PluginCacheDir = cacheDir
  Int32Half = 4
  Int64Half = 32
  Bodies <- MCBodies
  Edits <- MCEdits
  MaxEdits = 1
SPECIFICATION SettingsSpec
INVARIANTS SettingsTypeOK UpdatesLast ReportIsNeutral
