SPECIFICATION Spec
CONSTANTS
  cert = cert
  e1 = e1
  e2 = e2
  key = key
  ConsumerFiles = {cert}
  EntitlementFiles = {e1, key}
  PemFiles = {cert, e1, key}
  KeyFiles = {key}
  BracedFiles = {}
  Releases = {}
  NoFile = NoFile
  Blank = Blank
  Unreadable = Unreadable
  MaxTime = 1
INVARIANTS
  TypeOK
  WarningsJustified
  NothingMissed
  FailsOnlyIfDisturbed
