SPECIFICATION Spec
CONSTANTS
  k1 = k1
  k2 = k2
  k3 = k3
  Objects = {o1, o2}
  NoObject = NoObject
  NoPage = NoPage
  NumEntries = 2
  NumPages = 3
  PageDiv = 3
  MaxHandle = 10
  Keys = {k1, k2, k3}
  Values = {v1, v2}
  NoValue = NoValue
  Hash <- Codes
  Primes <- SmallPrimes
  Shortages = 3
  PyComponents = {p1, p2}
  WithInit = {p1}
  WithDestroy = {p1}
  NoState = NoState
  MainState = MainState
  MaxPermits = 4
  MaxDepth = 3
  MaxPorts = 1
INVARIANTS HandleDirTypeOK FreeExact ChainsExact ContextsCounted RunsAlive NestedNeverBlocks
PROPERTIES PushFailsOnlyWhenFull ImplementsMap DestroyedOnce ImplementsKeyMap
