SPECIFICATION Spec
CHECK_DEADLOCK FALSE
CONSTANTS
  Repos = {"r1", "r2"}
  Types = {"productid", "filelists"}
  Certificates <- SmallCertificates
  MaxBuff = 8
INVARIANTS
  TypeOK
  OfferedProductFound
  FirstProductDecoded
