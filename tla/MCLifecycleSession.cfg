SPECIFICATION FairSpec
CONSTANTS
  app = app
  A = A
  B = B
  C = C
  I = I
  J = J
  Nil = Nil
  Components = {A, B, C}
  Anonymous = app
  Interfaces = {I, J}
  Wirings <- SessionWirings
  ImportIds = {1, 2, 3, 4}
  QueryIds = {1, 2, 3}
  LoadOutcomes = {"ok"}
  InitOutcomes = {"ok", "error"}
  RegisterOutcomes = {"ok", "error"}
  UnregisterOutcomes = {"ok"}
  Api = {"query", "port", "next", "finish", "import", "unimport"}
  MaxNesting = 0
INVARIANTS TypeOK NoFault OpenedReady NoQueryLeft RegistrationsBalanced UnregisterPaired
PROPERTIES MandatoryImported CallsReturn
