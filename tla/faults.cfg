SPECIFICATION Spec
CONSTANTS
  p1 = p1
  p2 = p2
  license = license
  r1 = r1
  r2 = r2
  r3 = r3
  k1 = k1
  k2 = k2
  NoRepo = NoRepo
  Products = {p1}
  Stems = {p1, license}
  Repos = {r1, r2}
  Pkgs = {k1, k2}
  CertsOf <- SharedProduct
  Faults = {"setup", "read", "install", "remove", "write", "short_write", "metadata", "crash", "admin", "db_lost"}
INVARIANTS
  TypeOK
  CertsAndDbAgree
PROPERTIES
  NoCertLost
  ProtectedUntouched
SYMMETRY Interchangeable
