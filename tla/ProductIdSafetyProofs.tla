------------------------ MODULE ProductIdSafetyProofs ------------------------
(***************************************************************************)
(* What the hook never does to a certificate, whatever else fails and      *)
(* whoever interferes, NoCertLost and ProtectedUntouched; and what holds   *)
(* unless certain faults occur, for every value of the constants.          *)
(***************************************************************************)
EXTENDS ProductIdProofs, FiniteSetTheorems

(***************************************************************************)
(* The inductive invariant.  The properties are about a single step, the   *)
(* removal of a certificate, but they depend on everything the hook has    *)
(* looked at since it read productid.json, while the machine moves on.     *)
(***************************************************************************)

\* A file that is not an object has no members.
OnlyObjectsHaveMembers ==
  /\ db_file.kind # "object" => DOMAIN db_file.data = {}
  /\ temp_file.kind # "object" => DOMAIN temp_file.data = {}

\* Until it is pruned, the map in memory has everything that is in a file that
\* could be read.
RecordsKept ==
  ~unread /\ pc \in {"scan", "repos", "write_cert", "prune"} =>
    \A p \in DOMAIN db_file.data :
      p \in DOMAIN products /\ db_file.data[p] \subseteq products[p].repos

\* A repository in use is active.
InUseActive == pc \in {"prune", "erase"} => InUse \subseteq active_repos

\* The certificates to be removed are neither needed nor default ones.
ToEraseUnneeded ==
  pc = "erase" =>
    \A p \in to_erase : /\ p \in DOMAIN products
                        /\ products[p].path # "product-default"
                        /\ unread \/ RecordedRepos(p) \cap InUse = {}

\* Reading the file fails only if it may.
UnreadIsFault == unread => "read" \in Faults

IInv ==
  /\ TypeOK
  /\ OnlyObjectsHaveMembers
  /\ RecordsKept
  /\ InUseActive
  /\ ToEraseUnneeded
  /\ UnreadIsFault

-----------------------------------------------------------------------------
LEMMA InitIInv == Init => IInv
BY InitType, EmptyFileType
DEF Init, NoHook, IInv, OnlyObjectsHaveMembers, RecordsKept, InUseActive,
    ToEraseUnneeded, UnreadIsFault, MissingFile

\* Before "scan" and after "erase" only the files matter.
LEMMA FilesSuffice ==
  ASSUME TypeOK', OnlyObjectsHaveMembers', UnreadIsFault',
         pc' \notin {"scan", "repos", "write_cert", "prune", "erase"}
  PROVE  IInv'
BY DEF IInv, RecordsKept, InUseActive, ToEraseUnneeded

\* The end of a hook leaves productid.json as it is.
LEMMA HookEndsIInv == TypeOK' /\ IInv /\ HookEnds => IInv'
<1> SUFFICES ASSUME TypeOK', IInv, HookEnds PROVE IInv'
  OBVIOUS
<1>1. OnlyObjectsHaveMembers'
  BY EmptyFileType DEF IInv, OnlyObjectsHaveMembers, HookEnds, machine, MissingFile
<1> QED BY <1>1, FilesSuffice DEF HookEnds, Goto, UnreadIsFault

LEMMA HookIInv == TypeOK' /\ IInv /\ Hook => IInv'
<1> SUFFICES ASSUME TypeOK', IInv, Hook PROVE IInv'
  OBVIOUS
<1> USE DEF IInv, UnreadIsFault, Disturb, history
<1>1. CASE SetupDbDir
  <2>1. OnlyObjectsHaveMembers'
    BY <1>1 DEF SetupDbDir, OnlyObjectsHaveMembers, locals
  <2> QED BY <1>1, <2>1, FilesSuffice DEF SetupDbDir, Goto
<1>2. CASE RestrictDbDir
  <2>1. OnlyObjectsHaveMembers'
    BY <1>2 DEF RestrictDbDir, OnlyObjectsHaveMembers, locals
  <2> QED BY <1>2, <2>1, FilesSuffice DEF RestrictDbDir, Goto
<1>3. CASE SetupCertDir
  <2>1. OnlyObjectsHaveMembers'
    BY <1>3 DEF SetupCertDir, OnlyObjectsHaveMembers, locals
  <2> QED BY <1>3, <2>1, FilesSuffice DEF SetupCertDir, Goto
<1>4. CASE SetupFails
  BY <1>4, HookEndsIInv DEF SetupFails
<1>5. CASE ReadProductDb
  <2>1. RecordsKept'
    BY <1>5, ReadDb DEF ReadProductDb, RecordsKept, OnlyObjectsHaveMembers, TypeOK, machine
  <2> QED BY <1>5, <2>1 DEF ReadProductDb, Goto, OnlyObjectsHaveMembers, InUseActive,
                            ToEraseUnneeded, machine
<1>5a. CASE ReadFails
  <2>1. "read" \in Faults /\ unread' = TRUE
    BY <1>5a DEF ReadFails
  <2> QED BY <1>5a, <2>1 DEF ReadFails, Goto, OnlyObjectsHaveMembers, RecordsKept, InUseActive,
                             ToEraseUnneeded, machine
<1>6. CASE ScanCerts
  <2>1. RecordsKept'
    BY <1>6, ScanAll DEF ScanCerts, RecordsKept, TypeOK, machine
  <2> QED BY <1>6, <2>1 DEF ScanCerts, Goto, OnlyObjectsHaveMembers, InUseActive,
                            ToEraseUnneeded, machine
<1>7. ASSUME NEW r \in Repos, SkipRepo(r) PROVE IInv'
  BY <1>7 DEF SkipRepo, OnlyObjectsHaveMembers, RecordsKept, InUseActive,
              ToEraseUnneeded, machine
<1>8. ASSUME NEW r \in Repos, NEW p \in Products, KnownProduct(r, p) PROVE IInv'
  <2>1. \A q \in DOMAIN products :
          q \in DOMAIN products' /\ products[q].repos \subseteq products'[q].repos
    BY <1>8, AddRepo DEF KnownProduct, TypeOK, has_product_id
  <2>2. RecordsKept'
    BY <1>8, <2>1 DEF KnownProduct, RecordsKept, machine
  <2> QED BY <1>8, <2>2 DEF KnownProduct, OnlyObjectsHaveMembers, InUseActive,
                            ToEraseUnneeded, machine
<1>9. ASSUME NEW r \in Repos, NEW p \in Products, OpenCert(r, p) PROVE IInv'
  BY <1>9 DEF OpenCert, Goto, OnlyObjectsHaveMembers, RecordsKept, InUseActive,
              ToEraseUnneeded
<1>10. ASSUME NEW r \in Repos, NEW p \in Products,
              WriteCert(r, p) \/ WriteCertShort(r, p)
       PROVE  IInv'
  <2> DEFINE record == NewProductRecord("product", p \in ProductCerts)
             added == add_product_id(products, p, record)
  <2>1. record \in ProductRecord
    BY DEF NewProductRecord, ProductRecord, CertPath
  <2>2. /\ added \in ProductMap /\ p \in DOMAIN added
        /\ \A q \in DOMAIN products : q \in DOMAIN added /\ added[q] = products[q]
    <3> HIDE DEF record
    <3> QED BY <2>1, AddProduct DEF TypeOK
  <2>2a. PICK state \in {"partial", "complete"} : WriteCertAs(r, p, state)
    BY <1>10, WrittenAs
  <2>2b. unread' = unread
    BY <1>10, WrittenAs
  <2>3. products' = add_repo_id(added, p, r)
    BY <2>2a DEF WriteCertAs
  <2> HIDE DEF added
  <2>4. \A q \in DOMAIN products :
          q \in DOMAIN products' /\ products[q].repos \subseteq products'[q].repos
    BY <2>2, <2>3, AddRepo
  <2>5. RecordsKept'
    BY <2>4, <2>2a, <2>2b DEF WriteCertAs, RecordsKept
  <2> QED BY <2>5, <2>2a, <2>2b DEF WriteCertAs, Goto, OnlyObjectsHaveMembers, InUseActive,
                                  ToEraseUnneeded
<1>11. ASSUME NEW r \in Repos, NEW p \in Products, InstallFails(r, p) PROVE IInv'
  BY <1>11 DEF InstallFails, Goto, OnlyObjectsHaveMembers, RecordsKept, InUseActive,
               ToEraseUnneeded, machine
<1>12. CASE GetActiveRepos
  <2>1. InUse' = InUse
    BY <1>12 DEF GetActiveRepos, InUse, machine
  <2>2. InUse \subseteq active_repos'
    BY <1>12 DEF GetActiveRepos, all_active_repos
  <2> QED BY <1>12, <2>1, <2>2 DEF GetActiveRepos, Goto, OnlyObjectsHaveMembers, RecordsKept,
                                   InUseActive, ToEraseUnneeded, machine
<1>13. CASE RemoveInactiveRepos
  <2>1. InUse' = InUse
    BY <1>13 DEF RemoveInactiveRepos, InUse, machine
  <2>2. InUseActive'
    BY <1>13, <2>1 DEF RemoveInactiveRepos, Goto, InUseActive
  <2>3. ASSUME NEW p \in to_erase'
        PROVE  /\ p \in DOMAIN products'
               /\ products'[p].path # "product-default"
               /\ unread' \/ RecordedRepos(p)' \cap InUse' = {}
    <3>1. p \in DOMAIN products' /\ products'[p].repos = {} /\ products'[p].path # "product-default"
      BY <1>13, <2>3 DEF RemoveInactiveRepos, inactive_products
    <3>2. p \in DOMAIN products /\ products[p].repos \cap active_repos = {}
      BY <1>13, <3>1, Prune DEF RemoveInactiveRepos, TypeOK
    <3>3. unread \/ RecordedRepos(p) \subseteq products[p].repos
      BY <1>13, <3>2 DEF RemoveInactiveRepos, RecordsKept, RecordedRepos
    <3>4. InUse \subseteq active_repos
      BY <1>13 DEF RemoveInactiveRepos, InUseActive
    <3>5. RecordedRepos(p)' = RecordedRepos(p)
      BY <1>13 DEF RemoveInactiveRepos, RecordedRepos, machine
    <3>6. unread' = unread
      BY <1>13 DEF RemoveInactiveRepos
    <3> QED BY <2>1, <3>1, <3>2, <3>3, <3>4, <3>5, <3>6
  <2> QED BY <1>13, <2>2, <2>3 DEF RemoveInactiveRepos, Goto, OnlyObjectsHaveMembers,
                                   RecordsKept, ToEraseUnneeded, machine
<1>14. ASSUME NEW p \in to_erase, RemoveCert(p) PROVE IInv'
  <2>1. InUse' = InUse
    BY <1>14 DEF RemoveCert, InUse
  <2>2. \A q \in to_erase' : q \in DOMAIN products' /\ products'[q] = products[q]
    <3>1. /\ to_erase' = to_erase \ {p}
          /\ products' = remove_product_id(products, p)
          /\ to_erase \subseteq DOMAIN products
      BY <1>14 DEF RemoveCert, ToEraseUnneeded
    <3> DEFINE n == remove_product_id(products, p)
    <3>2. DOMAIN n = DOMAIN products \ {p} /\ \A q \in DOMAIN n : n[q] = products[q]
      BY RemoveProduct, Zenon DEF TypeOK
    <3> HIDE DEF n
    <3>3. products' = n
      BY <3>1 DEF n
    <3> QED BY <3>1, <3>2, <3>3
  <2>3. ToEraseUnneeded'
    BY <1>14, <2>1, <2>2 DEF RemoveCert, ToEraseUnneeded, RecordedRepos
  <2> QED BY <1>14, <2>1, <2>3 DEF RemoveCert, OnlyObjectsHaveMembers, RecordsKept, InUseActive
<1>15. ASSUME NEW p \in to_erase, RemoveFails(p) PROVE IInv'
  <2>1. InUse' = InUse
    BY <1>15 DEF RemoveFails, InUse, machine
  <2> QED BY <1>15, <2>1 DEF RemoveFails, OnlyObjectsHaveMembers, RecordsKept, InUseActive,
                             ToEraseUnneeded, RecordedRepos, machine
<1>16. CASE AllRemoved
  <2>1. OnlyObjectsHaveMembers'
    BY <1>16 DEF AllRemoved, OnlyObjectsHaveMembers, machine, locals
  <2> QED BY <1>16, <2>1, FilesSuffice DEF AllRemoved, Goto
<1>17. CASE WriteTemp
  <2>1. OnlyObjectsHaveMembers'
    BY <1>17, ToJson DEF WriteTemp, OnlyObjectsHaveMembers, TypeOK, machine
  <2> QED BY <1>17, <2>1, FilesSuffice DEF WriteTemp, Goto
<1>18. CASE WriteTempShort
  <2>1. OnlyObjectsHaveMembers'
    BY <1>18, EmptyFileType DEF WriteTempShort, OnlyObjectsHaveMembers, MalformedFile, machine
  <2> QED BY <1>18, <2>1, FilesSuffice DEF WriteTempShort, Goto
<1>19. CASE RenameTemp
  <2>1. OnlyObjectsHaveMembers'
    BY <1>19, EmptyFileType DEF RenameTemp, OnlyObjectsHaveMembers, MissingFile
  <2> QED BY <1>19, <2>1, FilesSuffice DEF RenameTemp, Goto
<1>20. CASE WriteFails
  <2>1. OnlyObjectsHaveMembers'
    BY <1>20, EmptyFileType DEF WriteFails, OnlyObjectsHaveMembers, MissingFile, machine
  <2> QED BY <1>20, <2>1, FilesSuffice DEF WriteFails, Goto
<1>21. CASE HookReturns
  BY <1>21, HookEndsIInv DEF HookReturns
<1> QED
  BY <1>1, <1>2, <1>3, <1>4, <1>5, <1>5a, <1>6, <1>7, <1>8, <1>9, <1>10, <1>11, <1>12,
     <1>13, <1>14, <1>15, <1>16, <1>17, <1>18, <1>19, <1>20, <1>21 DEF Hook

LEMMA EnvironmentIInv == TypeOK' /\ IInv /\ Environment => IInv'
<1> SUFFICES ASSUME TypeOK', IInv, Environment PROVE IInv'
  OBVIOUS
<1> USE DEF IInv, UnreadIsFault, Disturb, history
<1>1. ASSUME NEW k \in Pkgs, RpmErase(k) PROVE IInv'
  <2>1. InUse' \subseteq InUse
    BY <1>1 DEF RpmErase, InUse, Range, TypeOK
  <2> QED BY <1>1, <2>1 DEF RpmErase, OnlyObjectsHaveMembers, RecordsKept, InUseActive,
                            ToEraseUnneeded, RecordedRepos, locals
<1>2. ASSUME NEW s \in Stems, AdminSetsCert(s) PROVE IInv'
  <2>1. InUse' = InUse
    BY <1>2 DEF AdminSetsCert, InUse
  <2> QED BY <1>2, <2>1 DEF AdminSetsCert, OnlyObjectsHaveMembers, RecordsKept, InUseActive,
                            ToEraseUnneeded, RecordedRepos, locals
<1>3. ASSUME NEW s \in Stems, AdminSetsDefaultCert(s) PROVE IInv'
  <2>1. InUse' = InUse
    BY <1>3 DEF AdminSetsDefaultCert, InUse
  <2> QED BY <1>3, <2>1 DEF AdminSetsDefaultCert, OnlyObjectsHaveMembers, RecordsKept,
                            InUseActive, ToEraseUnneeded, RecordedRepos, locals
<1>4. CASE LoseDb
  <2>1. InUse' = InUse
    BY <1>4 DEF LoseDb, InUse
  <2>2. DOMAIN db_file'.data = {}
    BY <1>4, EmptyFileType DEF LoseDb, MissingFile, MalformedFile
  <2> QED BY <1>4, <2>1, <2>2 DEF LoseDb, OnlyObjectsHaveMembers, RecordsKept, InUseActive,
                                  ToEraseUnneeded, RecordedRepos, locals
<1>5. CASE Crash
  BY <1>5, HookEndsIInv DEF Crash
<1> QED BY <1>1, <1>2, <1>3, <1>4, <1>5 DEF Environment

LEMMA NextIInv == IInv /\ [Next]_vars => IInv'
<1> SUFFICES ASSUME IInv, [Next]_vars PROVE IInv'
  OBVIOUS
<1>1. TypeOK'
  BY TransactionType, HookType, EnvironmentType, StutterType DEF IInv, Next
<1>2. CASE Transaction
  <2>1. OnlyObjectsHaveMembers'
    BY <1>2 DEF Transaction, IInv, OnlyObjectsHaveMembers
  <2> QED BY <1>1, <1>2, <2>1, FilesSuffice DEF Transaction, Goto, IInv, UnreadIsFault, history
<1>3. CASE Hook
  BY <1>1, <1>3, HookIInv
<1>4. CASE Environment
  BY <1>1, <1>4, EnvironmentIInv
<1>5. CASE UNCHANGED vars
  <2>1. InUse' = InUse
    BY <1>5 DEF vars, machine, InUse
  <2> QED BY <1>1, <1>5, <2>1 DEF IInv, OnlyObjectsHaveMembers, RecordsKept, InUseActive,
                                  ToEraseUnneeded, UnreadIsFault, RecordedRepos, vars,
                                  machine, locals, history
<1> QED BY <1>2, <1>3, <1>4, <1>5 DEF Next

LEMMA Invariance == Spec => []IInv
BY InitIInv, NextIInv, PTL DEF Spec

-----------------------------------------------------------------------------
(***************************************************************************)
(* Whatever else fails and whoever interferes, a hook that could read      *)
(* productid.json deletes no certificate whose product the file assigns to *)
(* a repository in use.                                                    *)
(***************************************************************************)
THEOREM CertsInUseAreKept == Spec => NoCertLost
<1>1. IInv /\ [Next]_vars =>
        [\A p \in Products : HookErases(p) =>
           unread \/ RecordedRepos(p) \cap InUse = {}]_vars
  BY DEF IInv, ToEraseUnneeded, HookErases
<1> QED BY <1>1, Invariance, PTL DEF Spec, NoCertLost

(***************************************************************************)
(* The hook leaves /etc/pki/product-default alone, and in /etc/pki/product *)
(* the files whose names are not product IDs.                              *)
(***************************************************************************)
THEOREM ProtectedCertsStay == Spec => ProtectedUntouched
<1> DEFINE Others == \A s \in Stems \ Products : product_certs'[s] = product_certs[s]
<1>1. ASSUME IInv, Hook PROVE default_certs' = default_certs /\ Others
  <2> USE DEF IInv
  <2>1. ASSUME NEW r \in Repos, NEW p \in Products,
               OpenCert(r, p) \/ WriteCert(r, p) \/ WriteCertShort(r, p)
        PROVE  default_certs' = default_certs /\ Others
    BY <1>1, <2>1 DEF OpenCert, WriteCert, WriteCertShort, WriteCertAs, TypeOK
  <2>2. ASSUME NEW p \in to_erase, RemoveCert(p)
        PROVE  default_certs' = default_certs /\ Others
    <3>1. p \in Products /\ products[p].path # "product-default"
      BY <1>1, <2>2 DEF RemoveCert, ToEraseUnneeded, TypeOK
    <3>2. default_certs' = default_certs
      BY <2>2, <3>1 DEF RemoveCert
    <3>3. product_certs' \in {product_certs, [product_certs EXCEPT ![p] = "none"]}
      BY <2>2 DEF RemoveCert
    <3> QED BY <1>1, <3>1, <3>2, <3>3 DEF TypeOK
  <2>3. CASE SetupDbDir \/ RestrictDbDir \/ SetupCertDir \/ SetupFails \/ RenameTemp
    BY <2>3 DEF SetupDbDir, RestrictDbDir, SetupCertDir, SetupFails, HookEnds, RenameTemp,
                machine
  <2>4. CASE ReadProductDb \/ ReadFails \/ ScanCerts \/ GetActiveRepos \/ RemoveInactiveRepos
    BY <2>4 DEF ReadProductDb, ReadFails, ScanCerts, GetActiveRepos, RemoveInactiveRepos, machine
  <2>5. ASSUME NEW r \in Repos, NEW p \in Products, KnownProduct(r, p) \/ InstallFails(r, p)
        PROVE  default_certs' = default_certs /\ Others
    BY <2>5 DEF KnownProduct, InstallFails, machine
  <2>6. ASSUME NEW p \in to_erase, RemoveFails(p)
        PROVE  default_certs' = default_certs /\ Others
    BY <2>6 DEF RemoveFails, machine
  <2>7. CASE AllRemoved \/ WriteTemp \/ WriteTempShort \/ WriteFails \/ HookReturns
    BY <2>7 DEF AllRemoved, WriteTemp, WriteTempShort, WriteFails, HookReturns, HookEnds,
                machine
  <2>8. ASSUME NEW r \in Repos, SkipRepo(r)
        PROVE  default_certs' = default_certs /\ Others
    BY <2>8 DEF SkipRepo, machine
  <2> QED BY <1>1, <2>1, <2>2, <2>3, <2>4, <2>5, <2>6, <2>7, <2>8 DEF Hook
<1>2. IInv /\ [Next]_vars =>
        [\/ default_certs' # default_certs
         \/ \E s \in Stems \ Products : product_certs'[s] # product_certs[s]
         => ~Hook]_vars
  BY <1>1
<1> QED BY <1>2, Invariance, PTL DEF Spec, ProtectedUntouched

-----------------------------------------------------------------------------
(***************************************************************************)
(* What holds unless certain faults occur.  Each of the faults named here  *)
(* breaks the property on its own, as TLC finds.                           *)
(***************************************************************************)

\* The directory is unrestricted only while the hook is about to restrict it.
DirInv == DbDirRestricted /\ (productdb_dir = "unrestricted" => pc = "restrict_db_dir")

LateSteps == Steps \ {"idle", "setup_db_dir", "restrict_db_dir"}

\* The steps after the creation of the directory leave it as it is.
LEMMA LaterHook ==
  Hook => \/ SetupDbDir \/ RestrictDbDir \/ SetupFails
          \/ productdb_dir' = productdb_dir /\ pc \in LateSteps /\ pc' \in LateSteps \cup {"idle"}
<1> DEFINE Later == /\ productdb_dir' = productdb_dir
                    /\ pc \in LateSteps /\ pc' \in LateSteps \cup {"idle"}
<1> USE DEF Goto, LateSteps, Steps, machine, locals
<1>1. SetupCertDir \/ ReadProductDb \/ ReadFails \/ ScanCerts => Later
  BY DEF SetupCertDir, ReadProductDb, ReadFails, ScanCerts
<1>2. ASSUME NEW r \in Repos, SkipRepo(r) PROVE Later
  BY <1>2 DEF SkipRepo
<1>3. ASSUME NEW r \in Repos, NEW p \in Products,
             \/ KnownProduct(r, p) \/ OpenCert(r, p) \/ InstallFails(r, p)
             \/ WriteCert(r, p) \/ WriteCertShort(r, p)
      PROVE  Later
  BY <1>3 DEF KnownProduct, OpenCert, InstallFails, WriteCert, WriteCertShort, WriteCertAs
<1>4. GetActiveRepos \/ RemoveInactiveRepos => Later
  BY DEF GetActiveRepos, RemoveInactiveRepos
<1>5. ASSUME NEW p \in to_erase, RemoveCert(p) \/ RemoveFails(p) PROVE Later
  BY <1>5 DEF RemoveCert, RemoveFails
<1>6. AllRemoved \/ WriteTemp \/ WriteTempShort => Later
  BY DEF AllRemoved, WriteTemp, WriteTempShort
<1>7. RenameTemp \/ WriteFails \/ HookReturns => Later
  BY DEF RenameTemp, WriteFails, HookReturns, HookEnds
<1> HIDE DEF Later
<1>8. Hook => SetupDbDir \/ RestrictDbDir \/ SetupFails \/ Later
  BY <1>1, <1>2, <1>3, <1>4, <1>5, <1>6, <1>7 DEF Hook
<1> QED BY <1>8 DEF Later

(***************************************************************************)
(* Where setup_filesystem does not fail and no hook is interrupted, every  *)
(* hook that gets past it works in a directory it has found, or in one the *)
(* plugin has created and other users cannot read.                         *)
(***************************************************************************)
THEOREM DbDirStaysRestricted ==
  ASSUME Faults \cap {"setup", "crash"} = {}
  PROVE  Spec => []DbDirRestricted
<1>1. Init => DirInv
  BY DEF Init, NoHook, DirInv, DbDirRestricted
<1>2. ASSUME TypeOK, DirInv, [Next]_vars PROVE DirInv'
  <2> USE DEF DirInv, DbDirRestricted, Goto
  <2>1. CASE Transaction
    BY <1>2, <2>1 DEF Transaction
  <2>2. CASE SetupDbDir \/ RestrictDbDir
    BY <1>2, <2>2 DEF SetupDbDir, RestrictDbDir, TypeOK, DirState
  <2>3. ~SetupFails /\ ~Crash
    BY DEF SetupFails, Crash
  <2>4. CASE Hook /\ ~SetupDbDir /\ ~RestrictDbDir
    BY <1>2, <2>3, <2>4, LaterHook DEF LateSteps
  <2>5. CASE Environment
    <3>1. productdb_dir' = productdb_dir /\ pc' = pc
      BY <2>3, <2>5 DEF Environment, RpmErase, AdminSetsCert, AdminSetsDefaultCert, LoseDb
    <3> QED BY <1>2, <3>1
  <2>6. CASE UNCHANGED vars
    BY <1>2, <2>6 DEF vars, machine
  <2> QED BY <1>2, <2>1, <2>2, <2>4, <2>5, <2>6 DEF Next
<1>3. TypeOK /\ DirInv /\ [Next]_vars => DirInv'
  BY <1>2
<1>4. DirInv => DbDirRestricted
  BY DEF DirInv
<1> QED BY <1>1, <1>3, <1>4, TypeCorrect, PTL DEF Spec

-----------------------------------------------------------------------------
\* Only the certificate that is being written may be cut short.
OnlyCurrentPartial ==
  \A s \in Stems : product_certs[s] = "partial" =>
                     pc = "write_cert" /\ \E r \in Repos : current = <<r, s>>

\* The steps that write or remove no certificate do not end the writing of one.
LEMMA OtherHook ==
  ASSUME Hook, Faults \cap {"install", "short_write"} = {}
  PROVE  \/ \E r \in Repos, p \in Products : OpenCert(r, p) \/ WriteCert(r, p)
         \/ \E p \in to_erase : RemoveCert(p)
         \/ product_certs' = product_certs /\ pc # "write_cert"
<1> DEFINE Same == product_certs' = product_certs /\ pc # "write_cert"
<1> USE DEF Goto, machine, locals
<1>1. SetupDbDir \/ RestrictDbDir \/ SetupCertDir => Same
  BY DEF SetupDbDir, RestrictDbDir, SetupCertDir
<1>2. SetupFails \/ HookReturns => Same
  BY DEF SetupFails, HookReturns, HookEnds
<1>3. ReadProductDb \/ ReadFails \/ ScanCerts \/ GetActiveRepos \/ RemoveInactiveRepos => Same
  BY DEF ReadProductDb, ReadFails, ScanCerts, GetActiveRepos, RemoveInactiveRepos
<1>4. ASSUME NEW r \in Repos, SkipRepo(r) PROVE Same
  BY <1>4 DEF SkipRepo
<1>5. ASSUME NEW r \in Repos, NEW p \in Products,
             KnownProduct(r, p) \/ InstallFails(r, p) \/ WriteCertShort(r, p)
      PROVE  Same
  BY <1>5 DEF KnownProduct, InstallFails, WriteCertShort
<1>6. ASSUME NEW p \in to_erase, RemoveFails(p) PROVE Same
  BY <1>6 DEF RemoveFails
<1>7. AllRemoved \/ WriteTemp \/ WriteTempShort \/ RenameTemp \/ WriteFails => Same
  BY DEF AllRemoved, WriteTemp, WriteTempShort, RenameTemp, WriteFails
<1> HIDE DEF Same
<1>8. \/ \E r \in Repos, p \in Products : OpenCert(r, p) \/ WriteCert(r, p)
      \/ \E p \in to_erase : RemoveCert(p)
      \/ Same
  BY <1>1, <1>2, <1>3, <1>4, <1>5, <1>6, <1>7 DEF Hook
<1> QED BY <1>8 DEF Same

LEMMA NextOnlyCurrentPartial ==
  ASSUME Faults \cap {"install", "short_write", "crash"} = {}, TypeOK, OnlyCurrentPartial, [Next]_vars
  PROVE  OnlyCurrentPartial'
<1> USE DEF OnlyCurrentPartial, Goto
<1>1. CASE Transaction
  BY <1>1 DEF Transaction
<1>2. ASSUME NEW r \in Repos, NEW p \in Products, OpenCert(r, p) PROVE OnlyCurrentPartial'
  <2>1. \A s \in Stems : product_certs'[s] = "partial" => s = p
    BY <1>2 DEF OpenCert, TypeOK
  <2> QED BY <1>2, <2>1 DEF OpenCert
<1>3. ASSUME NEW r \in Repos, NEW p \in Products, WriteCert(r, p) PROVE OnlyCurrentPartial'
  <2>1. \A s \in Stems : product_certs[s] = "partial" => s = p
    BY <1>3 DEF WriteCert, WriteCertAs
  <2>2. product_certs' \in {[product_certs EXCEPT ![p] = "complete"],
                            [product_certs EXCEPT ![p] = "none"]}
    BY <1>3 DEF WriteCert, WriteCertAs
  <2> QED BY <2>1, <2>2 DEF TypeOK
<1>4. ASSUME NEW p \in to_erase, RemoveCert(p) PROVE OnlyCurrentPartial'
  <2>1. product_certs' \in {product_certs, [product_certs EXCEPT ![p] = "none"]}
    BY <1>4 DEF RemoveCert
  <2>2. pc # "write_cert"
    BY <1>4 DEF RemoveCert
  <2> QED BY <2>1, <2>2 DEF TypeOK
<1>5. CASE Hook
  <2>1. CASE product_certs' = product_certs /\ pc # "write_cert"
    BY <2>1
  <2> QED BY <1>2, <1>3, <1>4, <1>5, <2>1, OtherHook
<1>6. CASE Environment
  <2>1. ~Crash
    BY DEF Crash
  <2>2. pc' = pc /\ current' = current
    BY <1>6, <2>1 DEF Environment, RpmErase, AdminSetsCert, AdminSetsDefaultCert, LoseDb, locals
  <2>3. ASSUME NEW s \in Stems, AdminSetsCert(s) PROVE OnlyCurrentPartial'
    <3>1. product_certs' \in {[product_certs EXCEPT ![s] = "complete"],
                              [product_certs EXCEPT ![s] = "none"]}
      BY <2>3 DEF AdminSetsCert
    <3> QED BY <2>2, <3>1 DEF TypeOK
  <2>4. product_certs' = product_certs \/ \E s \in Stems : AdminSetsCert(s)
    BY <1>6, <2>1 DEF Environment, RpmErase, AdminSetsDefaultCert, LoseDb
  <2> QED BY <2>2, <2>3, <2>4
<1>7. CASE UNCHANGED vars
  BY <1>7 DEF vars, machine, locals
<1> QED BY <1>1, <1>5, <1>6, <1>7 DEF Next

(***************************************************************************)
(* Where no installation of a certificate fails, noticed or not, or is     *)
(* interrupted, every certificate that is recorded is a whole one, whatever*)
(* is added and removed by hand, and whatever else fails.                  *)
(***************************************************************************)
THEOREM RecordedCertsAreWhole ==
  ASSUME Faults \cap {"install", "short_write", "crash"} = {}
  PROVE  Spec => []RecordedCertComplete
<1>1. Init => OnlyCurrentPartial
  BY DEF Init, OnlyCurrentPartial
<1>2. TypeOK /\ OnlyCurrentPartial /\ [Next]_vars => OnlyCurrentPartial'
  BY NextOnlyCurrentPartial
<1>3. TypeOK /\ OnlyCurrentPartial => RecordedCertComplete
  <2>1. TypeOK => DOMAIN db_file.data \subseteq Stems
    BY ProductIdAssumption, JsonObjectElim DEF TypeOK, DbFile
  <2> QED BY <2>1 DEF OnlyCurrentPartial, RecordedCertComplete
<1> QED BY <1>1, <1>2, <1>3, TypeCorrect, PTL DEF Spec

-----------------------------------------------------------------------------
(***************************************************************************)
(* The hook never goes back.                                               *)
(***************************************************************************)

\* The repository whose certificate is being written is still to be processed.
CurrentToDo ==
  pc = "write_cert" => \A r \in Repos, p \in Products : current = <<r, p>> => r \in todo

LEMMA NextCurrentToDo ==
  ASSUME TypeOK, CurrentToDo, [Next]_vars
  PROVE  CurrentToDo'
<1> USE DEF CurrentToDo, Goto
<1>1. ASSUME pc' # "write_cert" PROVE CurrentToDo'
  BY <1>1
<1>2. ASSUME UNCHANGED <<pc, current, todo>> PROVE CurrentToDo'
  BY <1>2
<1>3. CASE Transaction
  BY <1>3 DEF Transaction
<1>4. ASSUME NEW r \in Repos, NEW p \in Products, OpenCert(r, p) PROVE CurrentToDo'
  BY <1>4 DEF OpenCert
<1>5. ASSUME NEW r \in Repos, NEW p \in Products, WriteCert(r, p) \/ WriteCertShort(r, p)
      PROVE  CurrentToDo'
  BY <1>1, <1>5 DEF WriteCert, WriteCertShort, WriteCertAs
<1>6. CASE SetupDbDir \/ RestrictDbDir \/ SetupCertDir \/ SetupFails
  BY <1>1, <1>6 DEF SetupDbDir, RestrictDbDir, SetupCertDir, SetupFails, HookEnds
<1>7. CASE \/ ReadProductDb \/ ReadFails \/ ScanCerts
           \/ GetActiveRepos \/ RemoveInactiveRepos \/ AllRemoved
  BY <1>1, <1>7 DEF ReadProductDb, ReadFails, ScanCerts, GetActiveRepos, RemoveInactiveRepos, AllRemoved
<1>8. CASE WriteTemp \/ WriteTempShort \/ RenameTemp \/ WriteFails \/ HookReturns
  BY <1>1, <1>8 DEF WriteTemp, WriteTempShort, RenameTemp, WriteFails, HookReturns, HookEnds
<1>9. ASSUME NEW r \in Repos, SkipRepo(r) PROVE CurrentToDo'
  BY <1>1, <1>9 DEF SkipRepo
<1>10. ASSUME NEW r \in Repos, NEW p \in Products, KnownProduct(r, p) \/ InstallFails(r, p)
       PROVE  CurrentToDo'
  BY <1>1, <1>10 DEF KnownProduct, InstallFails
<1>11. ASSUME NEW p \in to_erase, RemoveCert(p) \/ RemoveFails(p) PROVE CurrentToDo'
  BY <1>1, <1>11 DEF RemoveCert, RemoveFails
<1>12. CASE Hook
  BY <1>4, <1>5, <1>6, <1>7, <1>8, <1>9, <1>10, <1>11, <1>12 DEF Hook
<1>13. CASE Environment
  BY <1>1, <1>2, <1>13 DEF Environment, RpmErase, AdminSetsCert, AdminSetsDefaultCert, LoseDb,
                           Crash, HookEnds, locals
<1>14. CASE UNCHANGED vars
  BY <1>2, <1>14 DEF vars, locals
<1> QED BY <1>3, <1>12, <1>13, <1>14 DEF Next

\* The sizes StepsLeft is made of.
LEMMA Sizes ==
  ASSUME TypeOK, IsFiniteSet(Products), IsFiniteSet(Repos)
  PROVE  /\ Cardinality(Products) \in Nat /\ Cardinality(Repos) \in Nat
         /\ IsFiniteSet(todo) /\ Cardinality(todo) \in Nat
         /\ Cardinality(todo) <= Cardinality(Repos)
         /\ IsFiniteSet(to_erase) /\ Cardinality(to_erase) \in Nat
         /\ Cardinality(to_erase) <= Cardinality(Products)
<1>1. todo \in SUBSET Repos /\ to_erase \in SUBSET Products
  BY DEF TypeOK
<1>2. /\ IsFiniteSet(todo) /\ Cardinality(todo) <= Cardinality(Repos)
      /\ IsFiniteSet(to_erase) /\ Cardinality(to_erase) <= Cardinality(Products)
  BY <1>1, FS_Subset
<1> QED BY <1>2, FS_CardinalityType

LEMMA SizesLater ==
  (TypeOK /\ IsFiniteSet(Products) /\ IsFiniteSet(Repos) =>
     /\ Cardinality(todo) \in Nat /\ Cardinality(todo) <= Cardinality(Repos)
     /\ Cardinality(to_erase) \in Nat /\ Cardinality(to_erase) <= Cardinality(Products))'
<1>1. TypeOK /\ IsFiniteSet(Products) /\ IsFiniteSet(Repos) =>
        /\ Cardinality(todo) \in Nat /\ Cardinality(todo) <= Cardinality(Repos)
        /\ Cardinality(to_erase) \in Nat /\ Cardinality(to_erase) <= Cardinality(Products)
  BY Sizes
<1> QED BY <1>1, PTL

\* ... and what it is, step by step.
LEMMA StepsLeftType ==
  TypeOK /\ IsFiniteSet(Products) /\ IsFiniteSet(Repos) => StepsLeft \in Nat
<1> SUFFICES ASSUME TypeOK, IsFiniteSet(Products), IsFiniteSet(Repos) PROVE StepsLeft \in Nat
  OBVIOUS
<1> DEFINE p == Cardinality(Products)
           r == Cardinality(Repos)
           t == Cardinality(todo)
           e == Cardinality(to_erase)
<1>1. p \in Nat /\ r \in Nat /\ t \in Nat /\ e \in Nat
  BY Sizes
<1>2. pc \in Steps
  BY DEF TypeOK
<1>3. StepsLeft \in {0, 1, 2, 3, 4 + e, 5 + p, 5 + p + 2 * t, 6 + p + 2 * t, 7 + p + 2 * r,
                     8 + p + 2 * r, 9 + p + 2 * r, 10 + p + 2 * r, 11 + p + 2 * r}
  <2> HIDE DEF p, r, t, e
  <2>1. StepsLeft = CASE pc = "idle"            -> 0
                      [] pc = "done"            -> 1
                      [] pc = "rename"          -> 2
                      [] pc = "dump"            -> 3
                      [] pc = "erase"           -> 4 + e
                      [] pc = "prune"           -> 5 + p
                      [] pc = "write_cert"      -> 5 + p + 2 * t
                      [] pc = "repos"           -> 6 + p + 2 * t
                      [] pc = "scan"            -> 7 + p + 2 * r
                      [] pc = "read"            -> 8 + p + 2 * r
                      [] pc = "setup_cert_dir"  -> 9 + p + 2 * r
                      [] pc = "restrict_db_dir" -> 10 + p + 2 * r
                      [] pc = "setup_db_dir"    -> 11 + p + 2 * r
    BY DEF StepsLeft, p, r, t, e
  <2> QED BY <1>2, <2>1 DEF Steps
<1> HIDE DEF p, r, t, e
<1> QED BY <1>1, <1>3

LEMMA StepsLeftTypeLater ==
  (TypeOK /\ IsFiniteSet(Products) /\ IsFiniteSet(Repos) => StepsLeft \in Nat)'
BY StepsLeftType, PTL

\* A repository less, or a product less.
LEMMA OneLess ==
  ASSUME NEW S, IsFiniteSet(S), NEW x \in S
  PROVE  Cardinality(S \ {x}) = Cardinality(S) - 1
BY FS_RemoveElement

LEMMA HookShorter ==
  ASSUME TypeOK, TypeOK', CurrentToDo, Hook, IsFiniteSet(Products), IsFiniteSet(Repos)
  PROVE  StepsLeft' < StepsLeft
<1> USE Sizes, SizesLater DEF Goto, StepsLeft
<1>1. CASE SetupDbDir \/ RestrictDbDir \/ SetupCertDir
  BY <1>1 DEF SetupDbDir, RestrictDbDir, SetupCertDir
<1>2. CASE SetupFails
  BY <1>2 DEF SetupFails, HookEnds
<1>3. CASE ReadProductDb \/ ReadFails \/ ScanCerts
  BY <1>3 DEF ReadProductDb, ReadFails, ScanCerts
<1>4. ASSUME NEW r \in todo, todo' = todo \ {r}, pc \in {"repos", "write_cert"}, pc' = "repos"
      PROVE  StepsLeft' < StepsLeft
  <2>1. Cardinality(todo') = Cardinality(todo) - 1
    BY <1>4, OneLess
  <2> QED BY <1>4, <2>1
<1>5. ASSUME NEW r \in Repos, SkipRepo(r) PROVE StepsLeft' < StepsLeft
  BY <1>4, <1>5 DEF SkipRepo
<1>6. ASSUME NEW r \in Repos, NEW p \in Products,
             \/ KnownProduct(r, p) \/ InstallFails(r, p)
             \/ WriteCert(r, p) \/ WriteCertShort(r, p)
      PROVE  StepsLeft' < StepsLeft
  <2>1. /\ pc \in {"repos", "write_cert"} /\ pc' = "repos" /\ todo' = todo \ {r}
        /\ r \in todo \/ (pc = "write_cert" /\ current = <<r, p>>)
    <3> HIDE DEF StepsLeft
    <3> QED BY <1>6 DEF KnownProduct, InstallFails, WriteCert, WriteCertShort,
                             WriteCertAs
  <2> QED BY <1>4, <2>1 DEF CurrentToDo
<1>7. ASSUME NEW r \in Repos, NEW p \in Products, OpenCert(r, p) PROVE StepsLeft' < StepsLeft
  BY <1>7 DEF OpenCert
<1>8. CASE GetActiveRepos
  BY <1>8 DEF GetActiveRepos
<1>9. CASE RemoveInactiveRepos
  BY <1>9 DEF RemoveInactiveRepos
<1>10. ASSUME NEW p \in to_erase, RemoveCert(p) \/ RemoveFails(p) PROVE StepsLeft' < StepsLeft
  <2>1. to_erase' = to_erase \ {p} /\ pc = "erase" /\ pc' = "erase"
    BY <1>10 DEF RemoveCert, RemoveFails
  <2>2. Cardinality(to_erase') = Cardinality(to_erase) - 1
    BY <2>1, OneLess
  <2> QED BY <2>1, <2>2
<1>11. CASE AllRemoved \/ WriteTemp \/ WriteTempShort
  BY <1>11 DEF AllRemoved, WriteTemp, WriteTempShort
<1>12. CASE RenameTemp \/ HookReturns
  BY <1>12 DEF RenameTemp, HookReturns, HookEnds
<1>13. CASE WriteFails
  <2>1. pc \in {"dump", "rename"} /\ pc' = "done"
    BY <1>13 DEF WriteFails
  <2> QED BY <2>1
<1> QED BY <1>1, <1>2, <1>3, <1>5, <1>6, <1>7, <1>8, <1>9, <1>10, <1>11, <1>12, <1>13 DEF Hook

\* What others do meanwhile takes no part of a hook back, if it does not end it.
LEMMA OthersNoLonger ==
  ASSUME TypeOK, Environment, IsFiniteSet(Products), IsFiniteSet(Repos)
  PROVE  StepsLeft' <= StepsLeft
<1>1. StepsLeft \in Nat
  BY StepsLeftType
<1>2. CASE Crash
  <2>1. StepsLeft' = 0
    BY <1>2 DEF Crash, HookEnds, Goto, StepsLeft
  <2> QED BY <1>1, <2>1
<1>3. CASE UNCHANGED <<pc, todo, to_erase>>
  <2>1. StepsLeft' = StepsLeft
    BY <1>3 DEF StepsLeft
  <2> QED BY <1>1, <2>1
<1> QED BY <1>2, <1>3 DEF Environment, RpmErase, AdminSetsCert, AdminSetsDefaultCert, LoseDb,
                          locals

(***************************************************************************)
(* Every step of a hook brings it nearer to its end, so that a hook takes  *)
(* no more than 2 |Repos| + |Products| + 11 steps, whatever fails.  The    *)
(* maps and sets of the code are finite.                                   *)
(***************************************************************************)
THEOREM HookOnlyAdvances ==
  ASSUME IsFiniteSet(Products), IsFiniteSet(Repos)
  PROVE  Spec => HookAdvances
<1>1. Init => CurrentToDo
  BY DEF Init, NoHook, CurrentToDo
<1>2. TypeOK /\ CurrentToDo /\ [Next]_vars => CurrentToDo'
  BY NextCurrentToDo
<1>3. TypeOK /\ TypeOK' /\ CurrentToDo /\ [Next]_vars =>
        [/\ Hook => StepsLeft' < StepsLeft
         /\ pc # "idle" => StepsLeft' <= StepsLeft]_vars
  <2> SUFFICES ASSUME TypeOK, TypeOK', CurrentToDo, Next
               PROVE  /\ Hook => StepsLeft' < StepsLeft
                      /\ pc # "idle" => StepsLeft' <= StepsLeft
    OBVIOUS
  <2>1. Hook => StepsLeft' < StepsLeft
    BY HookShorter
  <2>2. StepsLeft \in Nat /\ StepsLeft' \in Nat
    BY StepsLeftType, StepsLeftTypeLater
  <2>3. CASE Transaction
    BY <2>1, <2>2, <2>3 DEF Transaction
  <2>4. CASE Hook
    BY <2>1, <2>2, <2>4
  <2>5. CASE Environment
    BY <2>1, <2>5, OthersNoLonger
  <2> QED BY <2>3, <2>4, <2>5 DEF Next
<1> QED BY <1>1, <1>2, <1>3, TypeCorrect, PTL DEF Spec, HookAdvances

=============================================================================
