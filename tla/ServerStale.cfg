CONSTANTS
  r1 = r1  r2 = r2  index = index  aboutHtml = aboutHtml  about = about
  a = a  b = b  c = c  h1 = h1  h2 = h2
  site = site  notAddress = notAddress  domain = domain  other = other
  None = None
  Header = Header
  LastUpdate = LastUpdate
  Requests <- MCRequests
  Files <- MCFiles
  Names <- MCIndexOnly
  Index = index
  WithHtml <- MCNoHtml
  FetchBatch = 1
  Data <- MCData
  Headers <- MCHeaders
  MaxChunks = 2
  Versions <- MCVersions
  FileOrder <- MCIndexLast
  BatchSize = 1
  Domain = domain
  Address = site
  NotAnAddress <- MCNotAnAddress
  Others <- MCOthers
  ConfigFiles <- MCConfigFiles
SPECIFICATION Spec
SYMMETRY MCSymmetry
CHECK_DEADLOCK FALSE
INVARIANT PublishedIsServed
