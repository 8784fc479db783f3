SPECIFICATION Spec
CONSTANTS
  w1 = w1
  w2 = w2
  Procs = {w1, w2}
  NoProc = NoProc
  MaxVersion = 3
  MaxStores = 4
  Ops = {"bind", "rotate", "disconnect", "recover_activation", "recover_rotation", "set_token"}
  Faults = {"crash", "vault", "record"}
SYMMETRY WorkerSymmetry
INVARIANTS
  BoundSecretKept
  HealthyTokenHasSecret
PROPERTIES
  CustodyKept
