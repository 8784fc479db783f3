SPECIFICATION Spec
CONSTANTS
  w1 = w1
  w2 = w2
  Procs = {w1, w2}
  NoProc = NoProc
  MaxVersion = 2
  MaxStores = 3
  Ops = {"bind", "rotate", "disconnect", "recover_activation"}
  Faults = {"commit"}
SYMMETRY WorkerSymmetry
INVARIANTS
  BoundSecretKept
