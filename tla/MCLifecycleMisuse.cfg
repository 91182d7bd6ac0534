SPECIFICATION Spec
CONSTANTS
  app = app
  A = A
  B = B
  C = C
  I = I
  J = J
  Nil = Nil
  Components = {A, B, C}
  Anonymous = app
  Interfaces = {I, J}
  Wirings <- MisuseWirings
  ImportIds = {1, 2, 3}
  QueryIds = {1, 2}
  LoadOutcomes = {"ok", "no_library", "no_symbol"}
  InitOutcomes = {"ok", "error"}
  RegisterOutcomes = {"ok", "error"}
  UnregisterOutcomes = {"ok"}
  Api = {"query", "port", "next", "finish", "import", "unimport", "drop", "accessor", "sibling", "specific", "early", "in_destroy", "abandon"}
  MaxNesting = 1
INVARIANTS RefsExact ListsExact UnusedUnloaded
CHECK_DEADLOCK FALSE
