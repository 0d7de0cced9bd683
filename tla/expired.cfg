SPECIFICATION Spec
CONSTANTS
  cert = cert
  e1 = e1
  e2 = e2
  key = key
  ConsumerFiles = {}
  EntitlementFiles = {e1, e2}
  PemFiles = {e1, e2}
  KeyFiles = {}
  BracedFiles = {e2}
  Releases = {"9.4"}
  NoFile = NoFile
  Blank = Blank
  Unreadable = Unreadable
  MaxTime = 1
INVARIANTS
  WarningsJustified
  NothingMissed
  FailsOnlyIfDisturbed
