---------------------- MODULE ProductIdAgreementProofs ----------------------
(***************************************************************************)
(* A hook that gets through undisturbed leaves productid.json and the      *)
(* certificate directories in agreement, whatever it has found, for every  *)
(* value of the constants.                                                 *)
(***************************************************************************)
EXTENDS ProductIdProofs

-----------------------------------------------------------------------------
(***************************************************************************)
(* The inductive invariant.  While the hook works on the map in memory,    *)
(* what the map says about the certificates stays true of the directories; *)
(* in the end nothing but the repositories of the map goes into the file.  *)
(***************************************************************************)

\* Nobody else has touched the certificates since the hook began.
Undisturbed == clean \/ "admin" \notin Faults

\* What the path of a record says is true.
PathTrue(p) ==
  /\ products[p].path = "product" => p \in ProductCerts
  /\ products[p].path = "product-default" => p \in default_certs
  /\ products[p].path = "" => ~OnDisk(p)

PathsTrue ==
  pc \in {"scan", "repos", "write_cert", "prune", "erase", "dump"} /\ Undisturbed =>
    \A p \in DOMAIN products : PathTrue(p)

BeingWritten ==
  pc = "write_cert" /\ Undisturbed =>
    \A r \in Repos, p \in Products :
      current = <<r, p>> => p \in ProductCerts /\ p \notin DOMAIN products

\* Every certificate has a record, or will have one as soon as it is written.
AllTaken ==
  pc \in {"repos", "write_cert", "prune", "erase", "dump"} /\ clean =>
    \A p \in ProductCerts \cap Products :
      \/ p \in DOMAIN products
      \/ pc = "write_cert" /\ \E r \in Repos : current = <<r, p>>

\* After the pruning, a record without repositories is a default one or on its way out.
Pruned ==
  /\ pc \in {"erase", "dump"} =>
       \A p \in DOMAIN products : products[p].repos \subseteq active_repos
  /\ pc = "erase" => \A p \in to_erase : p \in DOMAIN products
                                         /\ products[p].path # "product-default"
  /\ pc = "dump" => to_erase = {}
  /\ pc \in {"erase", "dump"} /\ clean =>
       \A p \in DOMAIN products :
         products[p].repos = {} => products[p].path = "product-default" \/ p \in to_erase

\* CertsAndDbAgree, for any document.
Agrees(file) ==
  /\ \A p \in DOMAIN file.data : OnDisk(p) /\ file.data[p] \subseteq active_repos
  /\ \A p \in ProductCerts \cap Products :
       \/ p \in DOMAIN file.data /\ file.data[p] # {}
       \/ p \in default_certs

FilesAgree ==
  /\ pc = "rename" /\ clean => Agrees(temp_file)
  /\ pc = "done" /\ clean => Agrees(db_file)

AInv == TypeOK /\ PathsTrue /\ BeingWritten /\ AllTaken /\ Pruned /\ FilesAgree

USE DEF history

-----------------------------------------------------------------------------
\* The invariant says nothing about the steps that precede the scan.
LEMMA BeforeScanAInv ==
  ASSUME TypeOK',
         pc' \notin {"scan", "repos", "write_cert", "prune", "erase", "dump",
                     "rename", "done"}
  PROVE  AInv'
BY DEF AInv, PathsTrue, BeingWritten, AllTaken, Pruned, FilesAgree

LEMMA InitAInv == Init => AInv
BY InitType
DEF Init, NoHook, AInv, PathsTrue, BeingWritten, AllTaken, Pruned, FilesAgree

\* It holds on when no certificate, no record and nothing to do with them changes.
LEMMA IdleAInv ==
  ASSUME TypeOK', AInv,
         UNCHANGED <<product_certs, default_certs, db_file, pc, products, current,
                     active_repos, to_erase, temp_file>>,
         clean' => clean
  PROVE  AInv'
<1> USE DEF AInv
<1>1. ProductCerts' = ProductCerts /\ \A p : OnDisk(p)' <=> OnDisk(p)
  BY DEF ProductCerts, OnDisk
<1>2. Undisturbed' => Undisturbed
  BY DEF Undisturbed
<1>3. \A p : PathTrue(p)' <=> PathTrue(p)
  BY <1>1 DEF PathTrue
<1>4. PathsTrue' /\ BeingWritten' /\ AllTaken'
  BY <1>1, <1>2, <1>3 DEF PathsTrue, BeingWritten, AllTaken
<1>5. Pruned' /\ FilesAgree'
  BY <1>1 DEF Pruned, FilesAgree, Agrees
<1> QED BY <1>4, <1>5

\* The end of a hook.
LEMMA HookEndsAInv == TypeOK' /\ HookEnds => AInv'
BY BeforeScanAInv DEF HookEnds, Goto

\* read_product_db looks up every certificate.
LEMMA ReadAInv == TypeOK' /\ AInv /\ ReadProductDb => AInv'
<1> SUFFICES ASSUME TypeOK', AInv, ReadProductDb PROVE AInv'
  OBVIOUS
<1>1. ASSUME NEW p \in DOMAIN products' PROVE PathTrue(p)'
  <2>1. products'[p].path = FindCert(p, ProductCerts, default_certs)
    BY <1>1, ReadDb DEF ReadProductDb, AInv, TypeOK
  <2>2. ProductCerts' = ProductCerts /\ default_certs' = default_certs
    BY DEF ReadProductDb, machine, ProductCerts
  <2> QED BY <2>1, <2>2 DEF PathTrue, OnDisk, FindCert
<1> QED BY <1>1 DEF AInv, ReadProductDb, Goto, PathsTrue, BeingWritten, AllTaken, Pruned,
                    FilesAgree

\* A hook that cannot read the file has no record to be wrong.
LEMMA UnreadAInv == TypeOK' /\ AInv /\ ReadFails => AInv'
<1> SUFFICES ASSUME TypeOK', AInv, ReadFails PROVE AInv'
  OBVIOUS
<1>1. DOMAIN products' = {} /\ pc' = "scan"
  BY NoProductsType DEF ReadFails, Goto
<1> QED BY <1>1 DEF AInv, PathsTrue, BeingWritten, AllTaken, Pruned, FilesAgree

\* The scan finds the certificates that have no record.
LEMMA ScanAInv == TypeOK' /\ AInv /\ ScanCerts => AInv'
<1> SUFFICES ASSUME TypeOK', AInv, ScanCerts PROVE AInv'
  OBVIOUS
<1>1. ProductCerts' = ProductCerts /\ default_certs' = default_certs
  BY DEF ScanCerts, machine, ProductCerts
<1>2. /\ \A p \in DOMAIN products : p \in DOMAIN products' /\ products'[p] = products[p]
      /\ \A p \in DOMAIN products' \ DOMAIN products :
           \/ products'[p].path = "product-default" /\ p \in default_certs
           \/ products'[p].path = "product" /\ p \in ProductCerts
      /\ ProductCerts \cap Products \subseteq DOMAIN products'
  <2> DEFINE n == process_all_installed(products, default_certs, ProductCerts)
  <2>1. /\ \A p \in DOMAIN products : p \in DOMAIN n /\ n[p] = products[p]
        /\ \A p \in DOMAIN n \ DOMAIN products :
             \/ n[p].path = "product-default" /\ p \in default_certs
             \/ n[p].path = "product" /\ p \in ProductCerts
        /\ (default_certs \cup ProductCerts) \cap Products \subseteq DOMAIN n
    BY ScanAll DEF AInv, TypeOK
  <2>2. products' = n
    BY DEF ScanCerts
  <2> HIDE DEF n
  <2> QED BY <2>1, <2>2
<1>3. Undisturbed' => Undisturbed
  BY DEF ScanCerts, Undisturbed
<1>4. PathsTrue'
  BY <1>1, <1>2, <1>3 DEF ScanCerts, AInv, PathsTrue, PathTrue, OnDisk
<1>5. AllTaken'
  BY <1>1, <1>2 DEF AllTaken
<1> QED BY <1>4, <1>5 DEF AInv, ScanCerts, Goto, BeingWritten, Pruned, FilesAgree

\* A repository is added to a record.
LEMMA KnownAInv ==
  ASSUME TypeOK', AInv, NEW r \in Repos, NEW p \in Products, KnownProduct(r, p)
  PROVE  AInv'
<1>1. ProductCerts' = ProductCerts /\ default_certs' = default_certs
  BY DEF KnownProduct, machine, ProductCerts
<1>2. /\ DOMAIN products' = DOMAIN products
      /\ \A q \in DOMAIN products : products'[q].path = products[q].path
  BY AddRepo DEF KnownProduct, AInv, TypeOK, has_product_id
<1>3. Undisturbed' => Undisturbed
  BY DEF KnownProduct, Undisturbed
<1>4. PathsTrue'
  BY <1>1, <1>2, <1>3 DEF KnownProduct, AInv, PathsTrue, PathTrue, OnDisk
<1>5. AllTaken'
  BY <1>1, <1>2 DEF KnownProduct, AInv, AllTaken
<1> QED BY <1>4, <1>5 DEF AInv, KnownProduct, BeingWritten, Pruned, FilesAgree

\* A certificate without a record is opened for writing.
LEMMA OpenAInv ==
  ASSUME TypeOK', AInv, NEW r \in Repos, NEW p \in Products, OpenCert(r, p)
  PROVE  AInv'
<1>1. ProductCerts' = ProductCerts \cup {p} /\ default_certs' = default_certs
  BY ProductIdAssumption DEF OpenCert, ProductCerts, AInv, TypeOK, CertFile
<1>2. p \notin DOMAIN products /\ products' = products
  BY DEF OpenCert, has_product_id
<1>3. Undisturbed' => Undisturbed
  BY DEF OpenCert, Undisturbed
<1>4. PathsTrue'
  BY <1>1, <1>2, <1>3 DEF OpenCert, AInv, PathsTrue, PathTrue, OnDisk
<1>5. current' = <<r, p>> /\ pc' = "write_cert"
  BY DEF OpenCert, Goto
<1>6. BeingWritten'
  BY <1>1, <1>2, <1>5 DEF BeingWritten
<1>7. AllTaken'
  BY <1>1, <1>2, <1>5 DEF OpenCert, AInv, AllTaken
<1> QED BY <1>4, <1>5, <1>6, <1>7 DEF AInv, Pruned, FilesAgree

\* It is written, and gets its record.
LEMMA WriteAInv ==
  ASSUME TypeOK', AInv, NEW r \in Repos, NEW p \in Products,
         WriteCert(r, p) \/ WriteCertShort(r, p)
  PROVE  AInv'
<1>a. PICK state \in {"partial", "complete"} : WriteCertAs(r, p, state)
  BY WrittenAs
<1>b. clean' => clean
  BY WrittenAs
<1> DEFINE record == NewProductRecord("product", p \in ProductCerts)
           added == add_product_id(products, p, record)
<1>1. ProductCerts' = ProductCerts /\ default_certs' = default_certs
  BY <1>a, ProductIdAssumption DEF WriteCertAs, ProductCerts, AInv, TypeOK, CertFile
<1>2. record \in ProductRecord /\ record.path = IF p \in ProductCerts THEN "product" ELSE ""
  BY DEF NewProductRecord, ProductRecord, CertPath
<1>3. /\ added \in ProductMap /\ p \in DOMAIN added
      /\ \A q \in DOMAIN products : q \in DOMAIN added /\ added[q] = products[q]
      /\ \A q \in DOMAIN added \ DOMAIN products : q = p /\ added[q] = record
  <2>1. products \in ProductMap
    BY DEF AInv, TypeOK
  <2> HIDE DEF record
  <2> QED BY <1>2, <2>1, AddProduct
<1>4. products' = add_repo_id(added, p, r)
  BY <1>a DEF WriteCertAs
<1> HIDE DEF added, record
<1>5. /\ DOMAIN products' = DOMAIN added
      /\ \A q \in DOMAIN added : products'[q].path = added[q].path
  BY <1>3, <1>4, AddRepo
<1>6. Undisturbed' => Undisturbed
  BY <1>b DEF Undisturbed
<1>7. PathsTrue'
  <2> SUFFICES ASSUME Undisturbed, NEW q \in DOMAIN products' PROVE PathTrue(q)'
    BY <1>6 DEF PathsTrue
  <2>1. p \in ProductCerts /\ p \notin DOMAIN products
    BY <1>a DEF WriteCertAs, AInv, BeingWritten
  <2>2. CASE q = p
    BY <1>1, <1>2, <1>3, <1>5, <2>1, <2>2 DEF PathTrue
  <2>3. CASE q # p
    <3>1. q \in DOMAIN products /\ products'[q].path = products[q].path
      BY <1>3, <1>5, <2>3
    <3>2. PathTrue(q)
      BY <1>a, <3>1 DEF WriteCertAs, AInv, PathsTrue
    <3> QED BY <1>1, <3>1, <3>2 DEF PathTrue, OnDisk
  <2> QED BY <2>2, <2>3
<1>8. AllTaken'
  <2> SUFFICES ASSUME clean', NEW q \in ProductCerts' \cap Products PROVE q \in DOMAIN products'
    BY DEF AllTaken
  <2>1. q \in DOMAIN products \/ q = p
    BY <1>1, <1>a, <1>b DEF WriteCertAs, AInv, AllTaken
  <2> QED BY <1>3, <1>5, <2>1
<1> QED BY <1>7, <1>8, <1>a DEF AInv, WriteCertAs, Goto, BeingWritten, Pruned, FilesAgree

\* It is not; nothing is said of an undisturbed hook any more.
LEMMA InstallFailsAInv ==
  ASSUME TypeOK', AInv, NEW r \in Repos, NEW p \in Products, InstallFails(r, p)
  PROVE  AInv'
<1>1. ProductCerts' = ProductCerts /\ default_certs' = default_certs
  BY DEF InstallFails, machine, ProductCerts
<1>2. Undisturbed' => Undisturbed
  BY DEF InstallFails, Disturb, Undisturbed
<1>3. PathsTrue'
  BY <1>1, <1>2 DEF InstallFails, AInv, PathsTrue, PathTrue, OnDisk
<1>4. ~clean'
  BY DEF InstallFails, Disturb
<1> QED BY <1>3, <1>4 DEF AInv, InstallFails, Goto, BeingWritten, AllTaken, Pruned, FilesAgree

LEMMA ActiveAInv == TypeOK' /\ AInv /\ GetActiveRepos => AInv'
<1> SUFFICES ASSUME TypeOK', AInv, GetActiveRepos PROVE AInv'
  OBVIOUS
<1>1. ProductCerts' = ProductCerts /\ default_certs' = default_certs
  BY DEF GetActiveRepos, machine, ProductCerts
<1>2. PathsTrue' /\ AllTaken'
  BY <1>1 DEF GetActiveRepos, Goto, AInv, PathsTrue, PathTrue, OnDisk, AllTaken, Undisturbed
<1> QED BY <1>2 DEF AInv, GetActiveRepos, Goto, BeingWritten, Pruned, FilesAgree

\* Only active repositories stay in the records.
LEMMA PruneAInv == TypeOK' /\ AInv /\ RemoveInactiveRepos => AInv'
<1> SUFFICES ASSUME TypeOK', AInv, RemoveInactiveRepos PROVE AInv'
  OBVIOUS
<1>1. ProductCerts' = ProductCerts /\ default_certs' = default_certs
  BY DEF RemoveInactiveRepos, machine, ProductCerts
<1>2. /\ DOMAIN products' = DOMAIN products
      /\ \A p \in DOMAIN products : /\ products'[p].repos = products[p].repos \cap active_repos
                                    /\ products'[p].path = products[p].path
  BY Prune DEF RemoveInactiveRepos, AInv, TypeOK
<1>3. PathsTrue' /\ AllTaken'
  BY <1>1, <1>2 DEF RemoveInactiveRepos, Goto, AInv, PathsTrue, PathTrue, OnDisk, AllTaken,
                    Undisturbed
<1>4. Pruned'
  BY <1>2 DEF RemoveInactiveRepos, Goto, Pruned, inactive_products
<1> QED BY <1>3, <1>4 DEF AInv, RemoveInactiveRepos, Goto, BeingWritten, FilesAgree

\* A certificate goes together with its record.
LEMMA RemoveAInv ==
  ASSUME TypeOK', AInv, NEW p \in to_erase, RemoveCert(p)
  PROVE  AInv'
<1>1. /\ p \in DOMAIN products /\ p \in Products
      /\ products[p].path # "product-default" /\ products[p].path \in CertPath
  BY ProductMapElim DEF RemoveCert, AInv, Pruned, TypeOK
<1>2. /\ default_certs' = default_certs
      /\ ProductCerts' = IF products[p].path = "product" THEN ProductCerts \ {p}
                         ELSE ProductCerts
  BY <1>1, ProductIdAssumption DEF RemoveCert, ProductCerts, AInv, TypeOK, CertFile
<1>3. /\ DOMAIN products' = DOMAIN products \ {p}
      /\ \A q \in DOMAIN products' : products'[q] = products[q]
  <2> DEFINE n == remove_product_id(products, p)
  <2>1. DOMAIN n = DOMAIN products \ {p} /\ \A q \in DOMAIN n : n[q] = products[q]
    BY RemoveProduct, Zenon DEF AInv, TypeOK
  <2>2. products' = n
    BY DEF RemoveCert
  <2> HIDE DEF n
  <2> QED BY <2>1, <2>2
<1>4. PathsTrue'
  BY <1>2, <1>3 DEF RemoveCert, AInv, PathsTrue, PathTrue, OnDisk, Undisturbed
<1>5. AllTaken'
  <2> SUFFICES ASSUME clean', NEW q \in ProductCerts' \cap Products PROVE q \in DOMAIN products'
    BY DEF AllTaken
  <2>1. q \in DOMAIN products /\ clean /\ PathTrue(p)
    BY <1>1, <1>2 DEF RemoveCert, AInv, AllTaken, PathsTrue, Undisturbed
  <2>2. q # p
    BY <1>1, <1>2, <2>1 DEF PathTrue, OnDisk, CertPath
  <2> QED BY <1>3, <2>1, <2>2
<1>6. Pruned'
  BY <1>3 DEF RemoveCert, AInv, Pruned
<1> QED BY <1>4, <1>5, <1>6 DEF AInv, RemoveCert, BeingWritten, FilesAgree

LEMMA RemoveFailsAInv ==
  ASSUME TypeOK', AInv, NEW p \in to_erase, RemoveFails(p)
  PROVE  AInv'
<1>1. ProductCerts' = ProductCerts /\ default_certs' = default_certs
  BY DEF RemoveFails, machine, ProductCerts
<1>2. PathsTrue'
  BY <1>1 DEF RemoveFails, Disturb, AInv, PathsTrue, PathTrue, OnDisk, Undisturbed
<1>3. ~clean'
  BY DEF RemoveFails, Disturb
<1> QED BY <1>2, <1>3 DEF AInv, RemoveFails, BeingWritten, AllTaken, Pruned, FilesAgree

LEMMA AllRemovedAInv == TypeOK' /\ AInv /\ AllRemoved => AInv'
<1> SUFFICES ASSUME TypeOK', AInv, AllRemoved PROVE AInv'
  OBVIOUS
<1>1. ProductCerts' = ProductCerts /\ default_certs' = default_certs
  BY DEF AllRemoved, machine, ProductCerts
<1>2. PathsTrue' /\ AllTaken'
  BY <1>1 DEF AllRemoved, Goto, locals, AInv, PathsTrue, PathTrue, OnDisk, AllTaken, Undisturbed
<1>3. Pruned'
  BY DEF AllRemoved, Goto, locals, AInv, Pruned
<1> QED BY <1>2, <1>3 DEF AInv, AllRemoved, Goto, BeingWritten, FilesAgree

\* The document that is written agrees with the directories.
LEMMA DumpAInv == TypeOK' /\ AInv /\ WriteTemp => AInv'
<1> SUFFICES ASSUME TypeOK', AInv, WriteTemp PROVE AInv'
  OBVIOUS
<1>1. /\ ProductCerts' = ProductCerts /\ default_certs' = default_certs
      /\ active_repos' = active_repos
  BY DEF WriteTemp, machine, ProductCerts
<1>2. /\ DOMAIN temp_file'.data = {p \in DOMAIN products : is_installed(products[p])}
      /\ \A p \in DOMAIN temp_file'.data : temp_file'.data[p] = products[p].repos
  BY ToJson DEF WriteTemp, AInv, TypeOK
<1>3. ASSUME clean' PROVE Agrees(temp_file)'
  <2>1. clean /\ \A p \in DOMAIN products : PathTrue(p) /\ products[p].path \in CertPath
    BY <1>3, ProductMapElim DEF WriteTemp, AInv, PathsTrue, Undisturbed, TypeOK
  <2>2. ASSUME NEW p \in DOMAIN temp_file'.data
        PROVE  OnDisk(p)' /\ temp_file'.data[p] \subseteq active_repos'
    <3>1. p \in DOMAIN products /\ products[p].path # ""
      BY <1>2, <2>2 DEF is_installed
    <3>2. OnDisk(p)
      BY <2>1, <3>1 DEF PathTrue, OnDisk, CertPath
    <3>3. products[p].repos \subseteq active_repos
      BY <3>1 DEF WriteTemp, AInv, Pruned
    <3> QED BY <1>1, <1>2, <2>2, <3>2, <3>3 DEF OnDisk
  <2>3. ASSUME NEW p \in ProductCerts' \cap Products
        PROVE  (p \in DOMAIN temp_file'.data /\ temp_file'.data[p] # {}) \/ p \in default_certs'
    <3>1. p \in DOMAIN products /\ PathTrue(p)
      BY <1>1, <2>1, <2>3 DEF WriteTemp, AInv, AllTaken
    <3>2. p \in DOMAIN temp_file'.data
      BY <1>1, <1>2, <2>3, <3>1 DEF is_installed, PathTrue, OnDisk
    <3>3. products[p].repos = {} => products[p].path = "product-default"
      BY <2>1, <3>1 DEF WriteTemp, AInv, Pruned
    <3> QED BY <1>1, <1>2, <3>1, <3>2, <3>3 DEF PathTrue
  <2> QED BY <2>2, <2>3 DEF Agrees
<1> QED BY <1>3 DEF AInv, WriteTemp, Goto, PathsTrue, BeingWritten, AllTaken, Pruned, FilesAgree

LEMMA RenameAInv == TypeOK' /\ AInv /\ RenameTemp => AInv'
<1> SUFFICES ASSUME TypeOK', AInv, RenameTemp PROVE AInv'
  OBVIOUS
<1>1. /\ ProductCerts' = ProductCerts /\ default_certs' = default_certs
      /\ active_repos' = active_repos /\ db_file' = temp_file /\ clean' = clean
  BY DEF RenameTemp, locals, ProductCerts
<1>2. clean => Agrees(temp_file)
  BY DEF AInv, RenameTemp, FilesAgree
<1>3. clean' => Agrees(db_file)'
  BY <1>1, <1>2 DEF Agrees, OnDisk
<1> QED BY <1>3 DEF AInv, RenameTemp, Goto, PathsTrue, BeingWritten, AllTaken, Pruned, FilesAgree

\* A document that is lost or not written is none of an undisturbed hook.
LEMMA NotWrittenAInv ==
  ASSUME TypeOK', ~clean', pc' \in {"rename", "done"}
  PROVE  AInv'
BY DEF AInv, PathsTrue, BeingWritten, AllTaken, Pruned, FilesAgree

LEMMA HookAInv == TypeOK' /\ AInv /\ Hook => AInv'
<1> SUFFICES ASSUME TypeOK', AInv, Hook PROVE AInv'
  OBVIOUS
<1>1. CASE SetupDbDir \/ RestrictDbDir
  BY <1>1, BeforeScanAInv DEF SetupDbDir, RestrictDbDir, Goto
<1>2. CASE SetupCertDir
  BY <1>2, BeforeScanAInv DEF SetupCertDir, Goto
<1>3. CASE SetupFails \/ HookReturns
  BY <1>3, HookEndsAInv DEF SetupFails, HookReturns
<1>4. CASE ReadProductDb \/ ReadFails
  BY <1>4, ReadAInv, UnreadAInv
<1>5. CASE ScanCerts
  BY <1>5, ScanAInv
<1>6. ASSUME NEW r \in Repos, SkipRepo(r) PROVE AInv'
  BY <1>6, IdleAInv DEF SkipRepo, machine
<1>7. ASSUME NEW r \in Repos, NEW p \in Products, KnownProduct(r, p) PROVE AInv'
  BY <1>7, KnownAInv
<1>8. ASSUME NEW r \in Repos, NEW p \in Products, OpenCert(r, p) PROVE AInv'
  BY <1>8, OpenAInv
<1>9. ASSUME NEW r \in Repos, NEW p \in Products, WriteCert(r, p) \/ WriteCertShort(r, p)
      PROVE  AInv'
  BY <1>9, WriteAInv
<1>10. ASSUME NEW r \in Repos, NEW p \in Products, InstallFails(r, p) PROVE AInv'
  BY <1>10, InstallFailsAInv
<1>11. CASE GetActiveRepos
  BY <1>11, ActiveAInv
<1>12. CASE RemoveInactiveRepos
  BY <1>12, PruneAInv
<1>13. ASSUME NEW p \in to_erase, RemoveCert(p) PROVE AInv'
  BY <1>13, RemoveAInv
<1>14. ASSUME NEW p \in to_erase, RemoveFails(p) PROVE AInv'
  BY <1>14, RemoveFailsAInv
<1>15. CASE AllRemoved
  BY <1>15, AllRemovedAInv
<1>16. CASE WriteTemp
  BY <1>16, DumpAInv
<1>17. CASE WriteTempShort \/ WriteFails
  BY <1>17, NotWrittenAInv DEF WriteTempShort, WriteFails, Goto, Disturb
<1>18. CASE RenameTemp
  BY <1>18, RenameAInv
<1> QED
  BY <1>1, <1>2, <1>3, <1>4, <1>5, <1>6, <1>7, <1>8, <1>9, <1>10, <1>11, <1>12,
     <1>13, <1>14, <1>15, <1>16, <1>17, <1>18 DEF Hook

\* Who adds or removes certificates while a hook runs disturbs it.
LEMMA AdminAInv ==
  ASSUME TypeOK', AInv, "admin" \in Faults, Disturb,
         UNCHANGED <<pc, products, active_repos, to_erase>>
  PROVE  AInv'
<1>1. CASE pc = "idle"
  BY <1>1, BeforeScanAInv
<1>2. CASE pc # "idle"
  <2>1. ~clean' /\ ~Undisturbed'
    BY <1>2 DEF Disturb, Undisturbed
  <2> QED BY <2>1 DEF AInv, PathsTrue, BeingWritten, AllTaken, Pruned, FilesAgree
<1> QED BY <1>1, <1>2

LEMMA EnvironmentAInv == TypeOK' /\ AInv /\ Environment => AInv'
<1> SUFFICES ASSUME TypeOK', AInv, Environment PROVE AInv'
  OBVIOUS
<1>1. ASSUME NEW k \in Pkgs, RpmErase(k) PROVE AInv'
  BY <1>1, IdleAInv DEF RpmErase, locals
<1>2. ASSUME NEW s \in Stems, AdminSetsCert(s) \/ AdminSetsDefaultCert(s) PROVE AInv'
  BY <1>2, AdminAInv DEF AdminSetsCert, AdminSetsDefaultCert, locals
<1>3. CASE LoseDb
  <2>1. CASE pc = "done"
    BY <1>3, <2>1, NotWrittenAInv DEF LoseDb, Disturb
  <2>2. CASE pc # "done"
    <3>1. ProductCerts' = ProductCerts /\ default_certs' = default_certs
      BY <1>3 DEF LoseDb, ProductCerts
    <3>2. clean' => clean
      BY <1>3 DEF LoseDb, Disturb
    <3>3. PathsTrue' /\ BeingWritten'
      BY <1>3, <3>1, <3>2 DEF LoseDb, locals, AInv, PathsTrue, PathTrue, OnDisk, BeingWritten,
                              Undisturbed
    <3>4. AllTaken' /\ Pruned' /\ FilesAgree'
      BY <1>3, <2>2, <3>1, <3>2 DEF LoseDb, locals, AInv, AllTaken, Pruned, FilesAgree, Agrees,
                                    OnDisk
    <3> QED BY <3>3, <3>4 DEF AInv
  <2> QED BY <2>1, <2>2
<1>4. CASE Crash
  BY <1>4, HookEndsAInv DEF Crash
<1> QED BY <1>1, <1>2, <1>3, <1>4 DEF Environment

LEMMA NextAInv == AInv /\ [Next]_vars => AInv'
<1> SUFFICES ASSUME AInv, [Next]_vars PROVE AInv'
  OBVIOUS
<1>1. TypeOK'
  BY TransactionType, HookType, EnvironmentType, StutterType DEF AInv, Next
<1>2. CASE Transaction
  BY <1>1, <1>2, BeforeScanAInv DEF Transaction, Goto
<1>3. CASE Hook
  BY <1>1, <1>3, HookAInv
<1>4. CASE Environment
  BY <1>1, <1>4, EnvironmentAInv
<1>5. CASE UNCHANGED vars
  BY <1>1, <1>5, IdleAInv DEF vars, machine, locals
<1> QED BY <1>2, <1>3, <1>4, <1>5 DEF Next

LEMMA AgreementInvariance == Spec => []AInv
BY InitAInv, NextAInv, PTL DEF Spec

(***************************************************************************)
(* After an undisturbed hook, productid.json names only products that have *)
(* a certificate, and only active repositories, and every certificate in   *)
(* /etc/pki/product is justified.                                          *)
(***************************************************************************)
THEOREM CertsAndDbInAgreement == Spec => []CertsAndDbAgree
<1>1. AInv => CertsAndDbAgree
  <2> SUFFICES ASSUME AInv, pc = "done", clean
               PROVE  /\ \A p \in DOMAIN db_file.data :
                           OnDisk(p) /\ RecordedRepos(p) \subseteq active_repos
                      /\ \A p \in ProductCerts \cap Products :
                           RecordedRepos(p) # {} \/ p \in default_certs
    BY DEF CertsAndDbAgree
  <2> QED BY DEF AInv, FilesAgree, Agrees, RecordedRepos
<1> QED BY <1>1, AgreementInvariance, PTL

=============================================================================
