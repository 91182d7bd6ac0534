SPECIFICATION Spec
CONSTANTS
  app = app
  A = A
  B = B
  C = C
  I = I
  J = J
  Nil = Nil
  Components = {A, B, C}
  Anonymous = app
  Interfaces = {I, J}
  Wirings <- DestroySkippedWirings
  ImportIds = {1, 2, 3}
  QueryIds = {1, 2}
  LoadOutcomes = {"ok"}
  InitOutcomes = {"ok"}
  RegisterOutcomes = {"ok"}
  UnregisterOutcomes = {"ok"}
  Api = {"query", "port", "next", "finish", "import", "unimport"}
  MaxNesting = 0
PROPERTIES DestroyCalled
