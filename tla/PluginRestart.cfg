CONSTANTS
  h1 = h1  u1 = u1  u2 = u2  p1 = p1
  a1 = a1  a2 = a2  a3 = a3  a4 = a4
  None = None
  Handlers <- MCHandlers
  Urls <- MCUrls
  Ports <- MCPorts
  Objects <- MCObjects
  Callers <- MCCallers
  Configs <- MCConfigs
  FirstConfigs <- MCFirstConfigs
  FirstStations <- MCFirstStations
  Settings <- MCSettings
  AllowOffline = FALSE
  MaxChanges = 1
  MaxUpdates = 0
  MaxFaults = 0
SPECIFICATION FairSpec
PROPERTY ServerFollowsStation
