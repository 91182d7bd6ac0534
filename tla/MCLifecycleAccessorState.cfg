SPECIFICATION Spec
CONSTANTS
  app = app
  A = A
  B = B
  C = C
  I = I
  J = J
  Nil = Nil
  Components = {A, B, C}
  Anonymous = app
  Interfaces = {I, J}
  Wirings <- TwoProviderWirings
  ImportIds = {1, 2, 3}
  QueryIds = {1, 2}
  LoadOutcomes = {"ok"}
  InitOutcomes = {"ok"}
  RegisterOutcomes = {"ok", "error"}
  UnregisterOutcomes = {"ok"}
  Api = {"query", "port", "next", "finish", "import", "unimport", "accessor"}
  MaxNesting = 0
INVARIANTS UnregisterPaired
CHECK_DEADLOCK FALSE
