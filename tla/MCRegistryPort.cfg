SPECIFICATION RegistrySpec
CONSTANTS
  l1 = l1
  l2 = l2
  b1 = b1
  iA = iA
  p1 = p1
  p2 = p2
  Libraries = {l1, l2}
  NoLibrary = NoLibrary
  Bundles = {b1}
  Files <- TheFiles
  Interfaces = {iA}
  PortNames = {p1, p2}
  NoPort = NoPort
  Declared <- Tables
  Queries <- Asked
  NoCache = NoCache
  MaxComponents = 4
  MaxTroubles = 1
PROPERTIES QueryTargetsPort
CHECK_DEADLOCK FALSE
