SPECIFICATION Spec
CONSTANTS
  p1 = p1
  p2 = p2
  license = license
  r1 = r1
  r2 = r2
  r3 = r3
  k1 = k1
  k2 = k2
  NoRepo = NoRepo
  Products = {p1, p2}
  Stems = {p1, p2}
  Repos = {r1, r2, r3}
  Pkgs = {k1, k2}
  CertsOf <- ChangingProduct
  Faults = {"remove"}
INVARIANTS
  InUseCovered
  WrittenDbReadable
PROPERTY RemovedOnlyWhenUnused
