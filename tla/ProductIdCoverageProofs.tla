----------------------- MODULE ProductIdCoverageProofs -----------------------
(***************************************************************************)
(* Where nothing but the removal of a certificate may fail, every          *)
(* repository in use is covered when no hook is running, for every value   *)
(* of the other constants.                                                 *)
(***************************************************************************)
EXTENDS ProductIdProofs

-----------------------------------------------------------------------------
(***************************************************************************)
(* The inductive invariant.  A hook carries the coverage of productid.json *)
(* over to the map in memory, from there to the temporary file, and back,  *)
(* while the repositories of its transaction wait to be covered.           *)
(***************************************************************************)

BeforeRead == {"idle", "setup_db_dir", "restrict_db_dir", "setup_cert_dir", "read"}
InMemory   == {"scan", "repos", "write_cert", "prune", "erase", "dump"}

\* The repositories of the transaction that have not been processed yet.
Pending == IF pc \in BeforeRead \cup {"scan"} THEN transaction_repos
           ELSE IF pc \in {"repos", "write_cert"} THEN todo ELSE {}

\* A document whose products all have a certificate on disk ...
AllOnDisk(file) == \A p \in DOMAIN file.data : OnDisk(p)

\* ... and a record whose certificate is where its path says.
Installed(p) == \/ products[p].path = "product" /\ p \in ProductCerts
                \/ products[p].path = "product-default" /\ p \in default_certs

\* The repositories a document, or the map in memory, knows with a product.
InFile(file, r) == \E p \in CertsOf[r] : p \in DOMAIN file.data /\ r \in file.data[p]
InMap(r) == \E p \in CertsOf[r] : p \in DOMAIN products /\ r \in products[p].repos

\* The repositories that must be known.
Due == {r \in InUse \ Pending : CertsOf[r] # {}}

FileCovers ==
  /\ db_file.kind \in {"missing", "object"}
  /\ db_file.kind = "missing" => DOMAIN db_file.data = {}
  /\ pc \in BeforeRead \cup {"done"} =>
       AllOnDisk(db_file) /\ \A r \in Due : InFile(db_file, r)

MapCovers ==
  /\ pc \in InMemory => /\ \A p \in DOMAIN products : Installed(p)
                        /\ \A r \in Due : InMap(r)
  /\ pc = "prune" => InUse \subseteq active_repos
  /\ pc = "erase" => \A p \in to_erase : p \in DOMAIN products /\ products[p].repos = {}

BeingInstalled ==
  pc = "write_cert" =>
    \A r \in Repos, p \in Products :
      current = <<r, p>> => p \in CertsOf[r] /\ p \in ProductCerts

TempCovers ==
  pc = "rename" => /\ temp_file.kind = "object"
                   /\ AllOnDisk(temp_file)
                   /\ \A r \in Due : InFile(temp_file, r)

\* No transaction is pending when no hook is running.
NothingPending == pc = "idle" => transaction_repos = {}

CInv == TypeOK /\ FileCovers /\ MapCovers /\ BeingInstalled /\ TempCovers /\ NothingPending

USE DEF OnDisk, ProductCerts

-----------------------------------------------------------------------------
LEMMA InitCInv == Init => CInv
<1> SUFFICES ASSUME Init PROVE CInv
  OBVIOUS
<1>1. InUse = {}
  BY DEF Init, InUse, Range
<1>2. Due = {}
  BY <1>1 DEF Due
<1> QED BY <1>2, InitType, EmptyFileType
        DEF Init, NoHook, CInv, FileCovers, MapCovers, BeingInstalled, TempCovers,
            NothingPending, MissingFile, BeforeRead, InMemory, AllOnDisk

LEMMA TransactionCInv == TypeOK' /\ CInv /\ Transaction => CInv'
<1> SUFFICES ASSUME TypeOK', CInv, Transaction PROVE CInv'
  OBVIOUS
<1> USE DEF CInv
<1>1. PICK inbound \in SUBSET Pkgs : \E from \in [inbound -> Repos], outbound \in SUBSET Pkgs :
        /\ rpmdb' = [k \in Pkgs |-> IF k \in inbound THEN from[k]
                                    ELSE IF k \in outbound THEN NoRepo
                                    ELSE rpmdb[k]]
        /\ transaction_repos' = Range(from)
  BY DEF Transaction
<1>2. InUse' \subseteq InUse \cup transaction_repos'
  BY <1>1 DEF InUse, Range, TypeOK
<1>3. pc = "idle" /\ pc' = "setup_db_dir" /\ transaction_repos = {}
  BY DEF Transaction, Goto, NothingPending
<1>4. Due' \subseteq Due
  BY <1>2, <1>3 DEF Due, Pending, BeforeRead
<1>5. FileCovers'
  BY <1>3, <1>4 DEF Transaction, FileCovers, AllOnDisk, InFile, BeforeRead
<1> QED BY <1>3, <1>5 DEF MapCovers, BeingInstalled, TempCovers, NothingPending, InMemory

\* The steps from the creation of the directories to the reading of the file.
LEMMA SetupCInv ==
  TypeOK' /\ CInv /\ (SetupDbDir \/ RestrictDbDir \/ SetupCertDir) => CInv'
<1> SUFFICES ASSUME TypeOK', CInv, SetupDbDir \/ RestrictDbDir \/ SetupCertDir PROVE CInv'
  OBVIOUS
<1> USE DEF CInv
<1>1. /\ pc \in BeforeRead /\ pc' \in BeforeRead \ {"idle"}
      /\ UNCHANGED <<rpmdb, product_certs, default_certs, db_file, transaction_repos>>
  BY DEF SetupDbDir, RestrictDbDir, SetupCertDir, Goto, BeforeRead, locals
<1>2. Due' = Due
  BY <1>1 DEF Due, Pending, InUse, BeforeRead
<1>3. FileCovers'
  BY <1>1, <1>2 DEF FileCovers, AllOnDisk, InFile
<1> QED BY <1>1, <1>3 DEF MapCovers, BeingInstalled, TempCovers, NothingPending,
                          BeforeRead, InMemory

LEMMA ReadCInv == TypeOK' /\ CInv /\ ReadProductDb => CInv'
<1> SUFFICES ASSUME TypeOK', CInv, ReadProductDb PROVE CInv'
  OBVIOUS
<1> USE DEF CInv
<1>1. /\ pc = "read" /\ pc' = "scan"
      /\ UNCHANGED <<rpmdb, product_certs, default_certs, db_file, transaction_repos>>
  BY DEF ReadProductDb, Goto, machine
<1>2. Due' = Due
  BY <1>1 DEF Due, Pending, InUse, BeforeRead
<1> DEFINE m == read_product_db(db_file, ProductCerts, default_certs)
<1>3. /\ \A p \in DOMAIN db_file.data : p \in DOMAIN m /\ m[p].repos = db_file.data[p]
      /\ \A p \in DOMAIN m : /\ p \in DOMAIN db_file.data
                             /\ m[p].path = FindCert(p, ProductCerts, default_certs)
  BY ReadDb DEF FileCovers, TypeOK
<1> HIDE DEF m
<1>4. products' = m
  BY DEF ReadProductDb, m
<1>5. AllOnDisk(db_file) /\ \A r \in Due : InFile(db_file, r)
  BY <1>1 DEF FileCovers, BeforeRead
<1>6. \A p \in DOMAIN products' : Installed(p)'
  BY <1>1, <1>3, <1>4, <1>5 DEF Installed, AllOnDisk, FindCert
<1>7. \A r \in Due' : InMap(r)'
  BY <1>2, <1>3, <1>4, <1>5 DEF InMap, InFile
<1>8. FileCovers'
  BY <1>1 DEF FileCovers, BeforeRead
<1> QED BY <1>1, <1>6, <1>7, <1>8 DEF MapCovers, BeingInstalled, TempCovers,
                                      NothingPending, InMemory

LEMMA ScanCInv == TypeOK' /\ CInv /\ ScanCerts => CInv'
<1> SUFFICES ASSUME TypeOK', CInv, ScanCerts PROVE CInv'
  OBVIOUS
<1> USE DEF CInv
<1>1. /\ pc = "scan" /\ pc' = "repos" /\ todo' = transaction_repos
      /\ UNCHANGED <<rpmdb, product_certs, default_certs, db_file, transaction_repos>>
  BY DEF ScanCerts, Goto, machine
<1>2. Due' = Due
  BY <1>1 DEF Due, Pending, InUse, BeforeRead
<1>3. /\ \A p \in DOMAIN products : p \in DOMAIN products' /\ products'[p] = products[p]
      /\ \A p \in DOMAIN products' \ DOMAIN products :
           \/ products'[p].path = "product-default" /\ p \in default_certs
           \/ products'[p].path = "product" /\ p \in ProductCerts
  <2> DEFINE n == process_all_installed(products, default_certs, ProductCerts)
  <2>1. /\ \A p \in DOMAIN products : p \in DOMAIN n /\ n[p] = products[p]
        /\ \A p \in DOMAIN n \ DOMAIN products :
             \/ n[p].path = "product-default" /\ p \in default_certs
             \/ n[p].path = "product" /\ p \in ProductCerts
    BY ScanAll DEF TypeOK
  <2> HIDE DEF n
  <2>2. products' = n
    BY DEF ScanCerts, n
  <2> QED BY <2>1, <2>2
<1>4. \A p \in DOMAIN products' : Installed(p)'
  BY <1>1, <1>3 DEF MapCovers, InMemory, Installed
<1>5. \A r \in Due' : InMap(r)'
  BY <1>1, <1>2, <1>3 DEF MapCovers, InMemory, InMap
<1> QED BY <1>1, <1>4, <1>5 DEF FileCovers, MapCovers, BeingInstalled, TempCovers,
                                NothingPending, BeforeRead

LEMMA SkipRepoCInv ==
  ASSUME TypeOK', CInv, Faults \subseteq {"remove"}, NEW r \in Repos, SkipRepo(r)
  PROVE  CInv'
<1> USE DEF CInv
<1>1. /\ pc = "repos" /\ pc' = "repos" /\ todo' = todo \ {r} /\ CertsOf[r] = {}
      /\ UNCHANGED <<rpmdb, product_certs, default_certs, db_file, products>>
  BY DEF SkipRepo, machine
<1>2. Due' = Due
  BY <1>1 DEF Due, Pending, InUse, BeforeRead
<1> QED BY <1>1, <1>2 DEF FileCovers, MapCovers, BeingInstalled, TempCovers,
                          NothingPending, BeforeRead, InMap, Installed

\* A repository has been assigned to a product of its own.
LEMMA AssignedCInv ==
  ASSUME CInv, NEW r \in Repos, NEW p \in CertsOf[r],
         pc \in {"repos", "write_cert"}, pc' = "repos", todo' = todo \ {r},
         UNCHANGED <<rpmdb, default_certs, db_file>>,
         \A q \in DOMAIN products : /\ q \in DOMAIN products'
                                   /\ products[q].repos \subseteq products'[q].repos,
         p \in DOMAIN products' /\ r \in products'[p].repos,
         \A q \in DOMAIN products' : Installed(q)',
         TypeOK'
  PROVE  CInv'
<1>1. Due' \subseteq Due \cup {r}
  BY DEF Due, Pending, InUse, BeforeRead
<1>2. \A s \in Due : InMap(s)
  BY DEF CInv, MapCovers, InMemory
<1>3. \A s \in Due' : InMap(s)'
  BY <1>1, <1>2 DEF InMap
<1> QED BY <1>3 DEF CInv, FileCovers, MapCovers, BeingInstalled, TempCovers,
                    NothingPending, BeforeRead

LEMMA KnownProductCInv ==
  ASSUME TypeOK', CInv, NEW r \in Repos, NEW p \in Products, KnownProduct(r, p)
  PROVE  CInv'
<1>1. /\ pc = "repos" /\ pc' = "repos" /\ todo' = todo \ {r}
      /\ p \in CertsOf[r] /\ p \in DOMAIN products
      /\ UNCHANGED <<rpmdb, product_certs, default_certs, db_file>>
  BY DEF KnownProduct, machine, has_product_id
<1> DEFINE n == add_repo_id(products, p, r)
<1>2. /\ DOMAIN n = DOMAIN products /\ r \in n[p].repos
      /\ \A q \in DOMAIN products : /\ products[q].repos \subseteq n[q].repos
                                    /\ n[q].path = products[q].path
  BY <1>1, AddRepo DEF CInv, TypeOK
<1> HIDE DEF n
<1>3. products' = n
  BY DEF KnownProduct, n
<1>4. \A q \in DOMAIN products' : Installed(q)'
  BY <1>1, <1>2, <1>3 DEF CInv, MapCovers, InMemory, Installed
<1> QED BY <1>1, <1>2, <1>3, <1>4, AssignedCInv

LEMMA OpenCertCInv ==
  ASSUME TypeOK', CInv, NEW r \in Repos, NEW p \in Products, OpenCert(r, p)
  PROVE  CInv'
<1> USE DEF CInv
<1>1. /\ pc = "repos" /\ pc' = "write_cert" /\ current' = <<r, p>> /\ p \in CertsOf[r]
      /\ UNCHANGED <<rpmdb, default_certs, db_file, products, todo>>
  BY DEF OpenCert, Goto
<1>2. ProductCerts' = ProductCerts \cup {p}
  BY ProductIdAssumption DEF OpenCert, TypeOK
<1>3. Due' = Due
  BY <1>1 DEF Due, Pending, InUse, BeforeRead
<1>4. MapCovers'
  <2> HIDE DEF ProductCerts
  <2> QED BY <1>1, <1>2, <1>3 DEF MapCovers, InMemory, Installed, InMap
<1>5. BeingInstalled'
  <2> HIDE DEF ProductCerts
  <2> QED BY <1>1, <1>2 DEF BeingInstalled
<1> QED BY <1>1, <1>4, <1>5 DEF FileCovers, TempCovers, NothingPending, BeforeRead

LEMMA WriteCertCInv ==
  ASSUME TypeOK', CInv, NEW r \in Repos, NEW p \in Products, WriteCert(r, p)
  PROVE  CInv'
<1> USE DEF WriteCertAs
<1>1. /\ pc = "write_cert" /\ pc' = "repos" /\ todo' = todo \ {r}
      /\ UNCHANGED <<rpmdb, default_certs, db_file>>
      /\ current = <<r, p>>
  BY DEF WriteCert, Goto
<1>2. p \in CertsOf[r] /\ p \in ProductCerts
  BY <1>1 DEF CInv, BeingInstalled
<1>3. ProductCerts' = ProductCerts
  BY <1>2 DEF WriteCert, CInv, TypeOK
<1> DEFINE record == NewProductRecord("product", p \in ProductCerts)
           added == add_product_id(products, p, record)
           n == add_repo_id(added, p, r)
<1>4. record \in ProductRecord /\ record.path = "product"
  BY <1>2 DEF NewProductRecord, ProductRecord, CertPath
<1>5. products' = n
  BY DEF WriteCert
<1> HIDE DEF record, ProductCerts
<1>6. /\ added \in ProductMap /\ p \in DOMAIN added
      /\ \A q \in DOMAIN products : q \in DOMAIN added /\ added[q] = products[q]
      /\ \A q \in DOMAIN added \ DOMAIN products : q = p /\ added[q] = record
  BY <1>4, AddProduct DEF CInv, TypeOK
<1> HIDE DEF added
<1>7. /\ DOMAIN n = DOMAIN added /\ r \in n[p].repos
      /\ \A q \in DOMAIN added : /\ added[q].repos \subseteq n[q].repos
                                 /\ n[q].path = added[q].path
  BY <1>6, AddRepo
<1> HIDE DEF n
<1>8. \A q \in DOMAIN products : Installed(q)
  BY <1>1 DEF CInv, MapCovers, InMemory
<1>9. \A q \in DOMAIN products' : Installed(q)'
  BY <1>1, <1>2, <1>3, <1>4, <1>5, <1>6, <1>7, <1>8 DEF Installed
<1>10. \A q \in DOMAIN products : /\ q \in DOMAIN products'
                                  /\ products[q].repos \subseteq products'[q].repos
  BY <1>5, <1>6, <1>7
<1> QED BY <1>1, <1>2, <1>5, <1>6, <1>7, <1>9, <1>10, AssignedCInv

LEMMA ActiveCInv == TypeOK' /\ CInv /\ GetActiveRepos => CInv'
<1> SUFFICES ASSUME TypeOK', CInv, GetActiveRepos PROVE CInv'
  OBVIOUS
<1> USE DEF CInv
<1>1. /\ pc = "repos" /\ pc' = "prune" /\ todo = {}
      /\ UNCHANGED <<rpmdb, product_certs, default_certs, db_file, products>>
  BY DEF GetActiveRepos, Goto, machine
<1>2. InUse \subseteq active_repos'
  BY DEF GetActiveRepos, all_active_repos
<1>3. Due' = Due /\ InUse' = InUse
  BY <1>1 DEF Due, Pending, InUse, BeforeRead
<1> QED BY <1>1, <1>2, <1>3 DEF FileCovers, MapCovers, BeingInstalled, TempCovers,
                                NothingPending, BeforeRead, InMemory, InMap, Installed

LEMMA PruneCInv == TypeOK' /\ CInv /\ RemoveInactiveRepos => CInv'
<1> SUFFICES ASSUME TypeOK', CInv, RemoveInactiveRepos PROVE CInv'
  OBVIOUS
<1> USE DEF CInv
<1>1. /\ pc = "prune" /\ pc' = "erase"
      /\ UNCHANGED <<rpmdb, product_certs, default_certs, db_file>>
  BY DEF RemoveInactiveRepos, Goto, machine
<1>2. Due' = Due /\ Due \subseteq active_repos
  BY <1>1 DEF Due, Pending, InUse, BeforeRead, MapCovers
<1> DEFINE n == remove_inactive_repositories(products, active_repos)
<1>3. /\ DOMAIN n = DOMAIN products
      /\ \A p \in DOMAIN products : /\ n[p].repos = products[p].repos \cap active_repos
                                    /\ n[p].path = products[p].path
  BY Prune DEF TypeOK
<1> HIDE DEF n
<1>4. products' = n /\ to_erase' = inactive_products(n)
  BY DEF RemoveInactiveRepos, n
<1>5. \A p \in DOMAIN products' : Installed(p)'
  BY <1>1, <1>3, <1>4 DEF MapCovers, InMemory, Installed
<1>6. \A r \in Due' : InMap(r)'
  BY <1>1, <1>2, <1>3, <1>4 DEF MapCovers, InMemory, InMap
<1>7. MapCovers'
  BY <1>1, <1>4, <1>5, <1>6 DEF MapCovers, inactive_products
<1> QED BY <1>1, <1>7 DEF FileCovers, BeingInstalled, TempCovers, NothingPending, BeforeRead

LEMMA RemoveCertCInv ==
  ASSUME TypeOK', CInv, NEW p \in to_erase, RemoveCert(p)
  PROVE  CInv'
<1> USE DEF CInv
<1>1. /\ pc = "erase" /\ pc' = "erase" /\ to_erase' = to_erase \ {p}
      /\ UNCHANGED <<rpmdb, db_file>>
      /\ p \in Products /\ products[p].repos = {}
  BY DEF RemoveCert, MapCovers, TypeOK
<1> DEFINE n == remove_product_id(products, p)
<1>2. DOMAIN n = DOMAIN products \ {p} /\ \A q \in DOMAIN n : n[q] = products[q]
  BY RemoveProduct DEF TypeOK
<1> HIDE DEF n
<1>3. products' = n
  BY DEF RemoveCert, n
<1>4. \A q \in Products \ {p} : /\ q \in ProductCerts => q \in ProductCerts'
                                /\ q \in default_certs => q \in default_certs'
  <2>1. product_certs' \in {product_certs, [product_certs EXCEPT ![p] = "none"]}
    BY DEF RemoveCert
  <2>2. default_certs' \in {default_certs, default_certs \ {p}}
    BY DEF RemoveCert
  <2> QED BY <2>1, <2>2 DEF TypeOK
<1>5. Due' = Due
  BY <1>1 DEF Due, Pending, InUse, BeforeRead
<1> HIDE DEF ProductCerts
<1>6. DOMAIN products \subseteq Products
  BY ProductMapElim DEF TypeOK
<1>7. \A q \in DOMAIN products' : Installed(q)'
  BY <1>1, <1>2, <1>3, <1>4, <1>6 DEF MapCovers, InMemory, Installed
<1>8. \A r \in Due' : InMap(r)'
  BY <1>1, <1>2, <1>3, <1>5 DEF MapCovers, InMemory, InMap
<1>9. MapCovers'
  BY <1>1, <1>2, <1>3, <1>7, <1>8 DEF MapCovers
<1> QED BY <1>1, <1>9 DEF FileCovers, BeingInstalled, TempCovers, NothingPending, BeforeRead

\* The steps of the removal that touch neither certificates nor records.
LEMMA EraseCInv ==
  ASSUME TypeOK', CInv, (\E p \in to_erase : RemoveFails(p)) \/ AllRemoved
  PROVE  CInv'
<1> USE DEF CInv
<1>1. /\ pc = "erase" /\ pc' \in {"erase", "dump"} /\ to_erase' \subseteq to_erase
      /\ UNCHANGED <<rpmdb, product_certs, default_certs, db_file, products>>
  BY DEF RemoveFails, AllRemoved, Goto, machine, locals
<1>2. Due' = Due
  BY <1>1 DEF Due, Pending, InUse, BeforeRead
<1> QED BY <1>1, <1>2 DEF FileCovers, MapCovers, BeingInstalled, TempCovers, NothingPending,
                          BeforeRead, InMemory, InMap, Installed

LEMMA WriteTempCInv == TypeOK' /\ CInv /\ WriteTemp => CInv'
<1> SUFFICES ASSUME TypeOK', CInv, WriteTemp PROVE CInv'
  OBVIOUS
<1> USE DEF CInv
<1>1. /\ pc = "dump" /\ pc' = "rename" /\ temp_file' = to_json(products)
      /\ UNCHANGED <<rpmdb, product_certs, default_certs, db_file>>
  BY DEF WriteTemp, Goto, machine
<1>2. \A p \in DOMAIN products : Installed(p) /\ is_installed(products[p])
  BY <1>1 DEF MapCovers, InMemory, Installed, is_installed
<1> DEFINE file == to_json(products)
<1>3. /\ file.kind = "object" /\ DOMAIN file.data = DOMAIN products
      /\ \A p \in DOMAIN products : file.data[p] = products[p].repos
  BY <1>2, ToJson DEF TypeOK
<1> HIDE DEF file
<1>4. temp_file' = file
  BY <1>1 DEF file
<1>5. Due' = Due
  BY <1>1 DEF Due, Pending, InUse, BeforeRead
<1>6. AllOnDisk(temp_file)'
  BY <1>1, <1>2, <1>3, <1>4 DEF AllOnDisk, Installed
<1>7. \A r \in Due' : InFile(temp_file, r)'
  BY <1>1, <1>3, <1>4, <1>5 DEF InFile, MapCovers, InMemory, InMap
<1> QED BY <1>1, <1>3, <1>4, <1>6, <1>7
        DEF FileCovers, MapCovers, BeingInstalled, TempCovers, NothingPending, BeforeRead, InMemory

LEMMA RenameCInv == TypeOK' /\ CInv /\ RenameTemp => CInv'
<1> SUFFICES ASSUME TypeOK', CInv, RenameTemp PROVE CInv'
  OBVIOUS
<1> USE DEF CInv
<1>1. /\ pc = "rename" /\ pc' = "done" /\ db_file' = temp_file
      /\ UNCHANGED <<rpmdb, product_certs, default_certs>>
  BY DEF RenameTemp, Goto
<1>2. Due' = Due
  BY <1>1 DEF Due, Pending, InUse, BeforeRead
<1>3. FileCovers'
  BY <1>1, <1>2 DEF FileCovers, TempCovers, AllOnDisk, InFile
<1> QED BY <1>1, <1>3 DEF MapCovers, BeingInstalled, TempCovers, NothingPending, InMemory

LEMMA ReturnCInv == TypeOK' /\ CInv /\ HookReturns => CInv'
<1> SUFFICES ASSUME TypeOK', CInv, HookReturns PROVE CInv'
  OBVIOUS
<1> USE DEF CInv
<1>1. /\ pc = "done" /\ pc' = "idle" /\ transaction_repos' = {}
      /\ UNCHANGED <<rpmdb, product_certs, default_certs, db_file>>
  BY DEF HookReturns, HookEnds, Goto, machine
<1>2. Due' = Due
  BY <1>1 DEF Due, Pending, InUse, BeforeRead
<1>3. FileCovers'
  BY <1>1, <1>2 DEF FileCovers, AllOnDisk, InFile
<1> QED BY <1>1, <1>3 DEF MapCovers, BeingInstalled, TempCovers, NothingPending, InMemory

LEMMA HookCInv ==
  ASSUME TypeOK', CInv, Hook, Faults \subseteq {"remove"}
  PROVE  CInv'
<1>1. CASE SetupDbDir \/ RestrictDbDir \/ SetupCertDir
  BY <1>1, SetupCInv
<1>2. ~SetupFails /\ ~ReadFails /\ ~WriteTempShort /\ ~WriteFails
  BY DEF SetupFails, ReadFails, WriteTempShort, WriteFails
<1>3. CASE ReadProductDb \/ ScanCerts
  BY <1>3, ReadCInv, ScanCInv
<1>4. ASSUME NEW r \in Repos, SkipRepo(r) PROVE CInv'
  BY <1>4, SkipRepoCInv
<1>5. ASSUME NEW r \in Repos, NEW p \in Products,
             \/ KnownProduct(r, p) \/ OpenCert(r, p) \/ InstallFails(r, p)
             \/ WriteCert(r, p) \/ WriteCertShort(r, p)
      PROVE  CInv'
  <2>1. ~InstallFails(r, p) /\ ~WriteCertShort(r, p)
    BY DEF InstallFails, WriteCertShort
  <2> QED BY <1>5, <2>1, KnownProductCInv, OpenCertCInv, WriteCertCInv
<1>6. CASE GetActiveRepos \/ RemoveInactiveRepos
  BY <1>6, ActiveCInv, PruneCInv
<1>7. ASSUME NEW p \in to_erase, RemoveCert(p) PROVE CInv'
  BY <1>7, RemoveCertCInv
<1>8. CASE (\E p \in to_erase : RemoveFails(p)) \/ AllRemoved
  BY <1>8, EraseCInv
<1>9. CASE WriteTemp \/ RenameTemp \/ HookReturns
  BY <1>9, WriteTempCInv, RenameCInv, ReturnCInv
<1> QED BY <1>1, <1>2, <1>3, <1>4, <1>5, <1>6, <1>7, <1>8, <1>9 DEF Hook

LEMMA EnvironmentCInv ==
  ASSUME TypeOK', CInv, Environment, Faults \subseteq {"remove"}
  PROVE  CInv'
<1> USE DEF CInv
<1>1. PICK k \in Pkgs : RpmErase(k)
  BY DEF Environment, AdminSetsCert, AdminSetsDefaultCert, LoseDb, Crash
<1>2. UNCHANGED <<product_certs, default_certs, db_file, pc, transaction_repos, todo, products,
                  active_repos, to_erase, current, temp_file>>
  BY <1>1 DEF RpmErase, locals
<1>3. InUse' \subseteq InUse
  BY <1>1 DEF RpmErase, InUse, Range, TypeOK
<1>4. Due' \subseteq Due
  BY <1>2, <1>3 DEF Due, Pending
<1>5. FileCovers'
  BY <1>2, <1>4 DEF FileCovers, AllOnDisk, InFile
<1>6. MapCovers'
  BY <1>2, <1>3, <1>4 DEF MapCovers, InMap, Installed
<1>7. TempCovers'
  BY <1>2, <1>4 DEF TempCovers, AllOnDisk, InFile
<1> QED BY <1>2, <1>5, <1>6, <1>7 DEF BeingInstalled, NothingPending

LEMMA StutterCInv == TypeOK' /\ CInv /\ UNCHANGED vars => CInv'
<1> SUFFICES ASSUME TypeOK', CInv, UNCHANGED vars PROVE CInv'
  OBVIOUS
<1>1. Due' = Due /\ InUse' = InUse
  BY DEF Due, Pending, InUse, vars, machine, locals
<1>2. UNCHANGED <<product_certs, default_certs, db_file, pc, transaction_repos, products,
                  active_repos, to_erase, current, temp_file>>
  BY DEF vars, machine, locals
<1> QED BY <1>1, <1>2 DEF CInv, FileCovers, AllOnDisk, InFile, MapCovers, InMap, Installed,
                          BeingInstalled, TempCovers, NothingPending

LEMMA CInvInvariance ==
  ASSUME Faults \subseteq {"remove"}
  PROVE  Spec => []CInv
<1>1. CInv /\ [Next]_vars => CInv'
  <2> SUFFICES ASSUME CInv, [Next]_vars PROVE CInv'
    OBVIOUS
  <2>1. TypeOK'
    BY TransactionType, HookType, EnvironmentType, StutterType DEF CInv, Next
  <2> QED BY <2>1, TransactionCInv, HookCInv, EnvironmentCInv, StutterCInv DEF Next
<1> QED BY <1>1, InitCInv, PTL DEF Spec

-----------------------------------------------------------------------------
(***************************************************************************)
(* Every repository with an installed RPM and productid metadata has its   *)
(* product recorded and its certificate installed, however many packages,  *)
(* repositories and products there are.                                    *)
(***************************************************************************)
THEOREM InUseIsCovered ==
  ASSUME Faults \subseteq {"remove"}
  PROVE  Spec => []InUseCovered
<1>1. CInv => InUseCovered
  <2> SUFFICES ASSUME CInv, pc = "idle", NEW r \in InUse, CertsOf[r] # {}
               PROVE  Covered(r)
    BY DEF InUseCovered
  <2>1. r \in Due
    BY DEF Due, Pending, CInv, NothingPending, BeforeRead
  <2>2. InFile(db_file, r) /\ AllOnDisk(db_file)
    BY <2>1 DEF CInv, FileCovers, BeforeRead
  <2> QED BY <2>2 DEF Covered, RecordedRepos, InFile, AllOnDisk
<1> QED BY <1>1, CInvInvariance, PTL

(***************************************************************************)
(* What productid/README.md says: the hook removes a certificate only when *)
(* the system has no RPM from the product.  It does where nothing but the  *)
(* removal of certificates may fail.                                       *)
(***************************************************************************)
THEOREM UsedCertsStay ==
  ASSUME Faults \subseteq {"remove"}
  PROVE  Spec => RemovedOnlyWhenUnused
<1>1. ASSUME CInv, NEW p \in Products, HookErases(p), NEW r \in InUse, CertsOf[r] = {p}
      PROVE  FALSE
  <2>1. pc = "erase" /\ p \in to_erase
    BY <1>1 DEF HookErases
  <2>2. products[p].repos = {}
    BY <1>1, <2>1 DEF CInv, MapCovers
  <2>3. r \in Due
    BY <1>1, <2>1 DEF Due, Pending, BeforeRead
  <2>4. InMap(r)
    BY <1>1, <2>1, <2>3 DEF CInv, MapCovers, InMemory
  <2> QED BY <1>1, <2>2, <2>4 DEF InMap
<1>2. CInv /\ [Next]_vars =>
        [\A p \in Products : HookErases(p) => \A r \in InUse : CertsOf[r] # {p}]_vars
  BY <1>1
<1> QED BY <1>2, CInvInvariance, PTL DEF Spec, RemovedOnlyWhenUnused

-----------------------------------------------------------------------------
(***************************************************************************)
(* The document that is written can be read again, unless certificates     *)
(* vanish behind the hook's back: what the map in memory records is        *)
(* installed, so that to_json never finds all of its products uninstalled. *)
(***************************************************************************)
FileInstalled ==
  /\ db_file.kind # "object" => DOMAIN db_file.data = {}
  /\ pc \in BeforeRead \cup {"done"} => AllOnDisk(db_file)

MapInstalled == pc \in InMemory => \A p \in DOMAIN products : Installed(p)

CurrentInstalled ==
  pc = "write_cert" =>
    \A r \in Repos, p \in Products : current = <<r, p>> => p \in ProductCerts

TempInstalled == pc = "rename" => temp_file.kind = "object" /\ AllOnDisk(temp_file)

DInv == TypeOK /\ FileInstalled /\ MapInstalled /\ CurrentInstalled /\ TempInstalled

\* The faults that leave a document with products whose certificates are gone.
Vanishing == {"write", "short_write", "crash", "admin"}

\* Before productid.json is read, and after it is written, only the file matters.
LEMMA OnlyFileMatters ==
  ASSUME TypeOK', DInv, pc \in BeforeRead \cup {"done"}, pc' \in BeforeRead,
         UNCHANGED <<product_certs, default_certs, db_file>>
  PROVE  DInv'
BY DEF DInv, FileInstalled, MapInstalled, CurrentInstalled, TempInstalled, AllOnDisk,
       BeforeRead, InMemory

LEMMA SetupDInv ==
  ASSUME TypeOK', DInv,
         \/ Transaction \/ SetupDbDir \/ RestrictDbDir \/ SetupCertDir \/ SetupFails
         \/ HookReturns
  PROVE  DInv'
<1>1. /\ pc \in BeforeRead \cup {"done"} /\ pc' \in BeforeRead
      /\ UNCHANGED <<product_certs, default_certs, db_file>>
  BY DEF Transaction, SetupDbDir, RestrictDbDir, SetupCertDir, SetupFails, HookReturns, HookEnds,
         Goto, BeforeRead, machine
<1> QED BY <1>1, OnlyFileMatters

LEMMA ReadDInv == TypeOK' /\ DInv /\ ReadProductDb => DInv'
<1> SUFFICES ASSUME TypeOK', DInv, ReadProductDb PROVE DInv'
  OBVIOUS
<1>1. /\ pc = "read" /\ pc' = "scan"
      /\ UNCHANGED <<product_certs, default_certs, db_file>>
  BY DEF ReadProductDb, Goto, machine
<1> DEFINE m == read_product_db(db_file, ProductCerts, default_certs)
<1>2. \A p \in DOMAIN m : /\ p \in DOMAIN db_file.data
                          /\ m[p].path = FindCert(p, ProductCerts, default_certs)
  BY ReadDb DEF DInv, FileInstalled, TypeOK
<1> HIDE DEF m
<1>3. products' = m
  BY DEF ReadProductDb, m
<1>4. \A p \in DOMAIN products' : Installed(p)'
  BY <1>1, <1>2, <1>3 DEF DInv, FileInstalled, BeforeRead, Installed, AllOnDisk, FindCert
<1> QED BY <1>1, <1>4 DEF DInv, FileInstalled, MapInstalled, CurrentInstalled, TempInstalled,
                          BeforeRead

\* A hook that cannot read the file has forgotten everything.
LEMMA UnreadDInv == TypeOK' /\ DInv /\ ReadFails => DInv'
<1> SUFFICES ASSUME TypeOK', DInv, ReadFails PROVE DInv'
  OBVIOUS
<1>1. /\ pc = "read" /\ pc' = "scan"
      /\ UNCHANGED <<product_certs, default_certs, db_file>>
  BY DEF ReadFails, Goto, machine
<1>2. DOMAIN products' = {}
  BY NoProductsType DEF ReadFails
<1> QED BY <1>1, <1>2 DEF DInv, FileInstalled, MapInstalled, CurrentInstalled, TempInstalled,
                          BeforeRead

\* A step of the loops that leaves the files alone, and records only what is installed.
LEMMA LoopDInv ==
  ASSUME TypeOK', DInv, pc \in InMemory, pc' \in InMemory \ {"write_cert"},
         UNCHANGED <<product_certs, default_certs, db_file>>,
         \A p \in DOMAIN products' :
           \/ p \in DOMAIN products /\ products'[p].path = products[p].path
           \/ products'[p].path = "product-default" /\ p \in default_certs
           \/ products'[p].path = "product" /\ p \in ProductCerts
  PROVE  DInv'
<1>1. \A p \in DOMAIN products' : Installed(p)'
  BY DEF DInv, MapInstalled, Installed
<1> QED BY <1>1 DEF DInv, FileInstalled, MapInstalled, CurrentInstalled, TempInstalled,
                    BeforeRead, InMemory

LEMMA ScanDInv == TypeOK' /\ DInv /\ ScanCerts => DInv'
<1> SUFFICES ASSUME TypeOK', DInv, ScanCerts PROVE DInv'
  OBVIOUS
<1>1. /\ pc \in InMemory /\ pc' \in InMemory \ {"write_cert"}
      /\ UNCHANGED <<product_certs, default_certs, db_file>>
  BY DEF ScanCerts, Goto, machine, InMemory
<1> DEFINE n == process_all_installed(products, default_certs, ProductCerts)
<1>2. /\ \A p \in DOMAIN products : n[p] = products[p]
      /\ \A p \in DOMAIN n \ DOMAIN products :
           \/ n[p].path = "product-default" /\ p \in default_certs
           \/ n[p].path = "product" /\ p \in ProductCerts
  BY ScanAll DEF DInv, TypeOK
<1> HIDE DEF n
<1>3. products' = n
  BY DEF ScanCerts, n
<1> QED BY <1>1, <1>2, <1>3, LoopDInv

LEMMA KnownProductDInv ==
  ASSUME TypeOK', DInv, NEW r \in Repos, NEW p \in Products, KnownProduct(r, p)
  PROVE  DInv'
<1>1. /\ pc \in InMemory /\ pc' \in InMemory \ {"write_cert"} /\ p \in DOMAIN products
      /\ UNCHANGED <<product_certs, default_certs, db_file>>
  BY DEF KnownProduct, machine, has_product_id, InMemory
<1> DEFINE n == add_repo_id(products, p, r)
<1>2. DOMAIN n = DOMAIN products /\ \A q \in DOMAIN products : n[q].path = products[q].path
  BY <1>1, AddRepo DEF DInv, TypeOK
<1> HIDE DEF n
<1>3. products' = n
  BY DEF KnownProduct, n
<1> QED BY <1>1, <1>2, <1>3, LoopDInv

LEMMA OpenCertDInv ==
  ASSUME TypeOK', DInv, NEW r \in Repos, NEW p \in Products, OpenCert(r, p)
  PROVE  DInv'
<1>1. /\ pc = "repos" /\ pc' = "write_cert" /\ current' = <<r, p>>
      /\ UNCHANGED <<default_certs, db_file, products>>
  BY DEF OpenCert, Goto
<1>2. ProductCerts' = ProductCerts \cup {p}
  BY ProductIdAssumption DEF OpenCert, DInv, TypeOK
<1> HIDE DEF ProductCerts
<1> QED BY <1>1, <1>2 DEF DInv, FileInstalled, MapInstalled, CurrentInstalled, TempInstalled,
                          BeforeRead, InMemory, Installed

LEMMA WriteCertDInv ==
  ASSUME TypeOK', DInv, NEW r \in Repos, NEW p \in Products, WriteCert(r, p)
  PROVE  DInv'
<1> USE DEF WriteCertAs
<1>1. /\ pc = "write_cert" /\ pc' = "repos" /\ current = <<r, p>>
      /\ UNCHANGED <<default_certs, db_file>>
  BY DEF WriteCert, Goto
<1>2. p \in ProductCerts
  BY <1>1 DEF DInv, CurrentInstalled
<1>3. ProductCerts' = ProductCerts
  BY <1>2 DEF WriteCert, DInv, TypeOK
<1> DEFINE record == NewProductRecord("product", p \in ProductCerts)
           added == add_product_id(products, p, record)
           n == add_repo_id(added, p, r)
<1>4. record \in ProductRecord /\ record.path = "product"
  BY <1>2 DEF NewProductRecord, ProductRecord, CertPath
<1>5. products' = n
  BY DEF WriteCert
<1> HIDE DEF record, ProductCerts
<1>6. /\ added \in ProductMap /\ p \in DOMAIN added
      /\ \A q \in DOMAIN products : q \in DOMAIN added /\ added[q] = products[q]
      /\ \A q \in DOMAIN added \ DOMAIN products : q = p /\ added[q] = record
  BY <1>4, AddProduct DEF DInv, TypeOK
<1> HIDE DEF added
<1>7. DOMAIN n = DOMAIN added /\ \A q \in DOMAIN added : n[q].path = added[q].path
  BY <1>6, AddRepo
<1> HIDE DEF n
<1>8. \A q \in DOMAIN products : Installed(q)
  BY <1>1 DEF DInv, MapInstalled, InMemory
<1>9. \A q \in DOMAIN products' : Installed(q)'
  BY <1>1, <1>2, <1>3, <1>4, <1>5, <1>6, <1>7, <1>8 DEF Installed
<1> QED BY <1>1, <1>9 DEF DInv, FileInstalled, MapInstalled, CurrentInstalled, TempInstalled,
                          BeforeRead

LEMMA PruneDInv == TypeOK' /\ DInv /\ RemoveInactiveRepos => DInv'
<1> SUFFICES ASSUME TypeOK', DInv, RemoveInactiveRepos PROVE DInv'
  OBVIOUS
<1>1. /\ pc \in InMemory /\ pc' \in InMemory \ {"write_cert"}
      /\ UNCHANGED <<product_certs, default_certs, db_file>>
  BY DEF RemoveInactiveRepos, Goto, machine, InMemory
<1> DEFINE n == remove_inactive_repositories(products, active_repos)
<1>2. DOMAIN n = DOMAIN products /\ \A p \in DOMAIN products : n[p].path = products[p].path
  BY Prune DEF DInv, TypeOK
<1> HIDE DEF n
<1>3. products' = n
  BY DEF RemoveInactiveRepos, n
<1> QED BY <1>1, <1>2, <1>3, LoopDInv

LEMMA RemoveCertDInv ==
  ASSUME TypeOK', DInv, NEW p \in to_erase, RemoveCert(p)
  PROVE  DInv'
<1>1. pc = "erase" /\ pc' = "erase" /\ db_file' = db_file
  BY DEF RemoveCert
<1> DEFINE n == remove_product_id(products, p)
<1>2. DOMAIN n = DOMAIN products \ {p} /\ \A q \in DOMAIN n : n[q] = products[q]
  BY RemoveProduct DEF DInv, TypeOK
<1> HIDE DEF n
<1>3. products' = n
  BY DEF RemoveCert, n
<1>4. \A q \in Products \ {p} : /\ q \in ProductCerts => q \in ProductCerts'
                                /\ q \in default_certs => q \in default_certs'
  <2>1. product_certs' \in {product_certs, [product_certs EXCEPT ![p] = "none"]}
    BY DEF RemoveCert
  <2>2. default_certs' \in {default_certs, default_certs \ {p}}
    BY DEF RemoveCert
  <2> QED BY <2>1, <2>2 DEF DInv, TypeOK
<1> HIDE DEF ProductCerts
<1>5. DOMAIN products \subseteq Products
  BY ProductMapElim DEF DInv, TypeOK
<1>6. \A q \in DOMAIN products' : Installed(q)'
  BY <1>1, <1>2, <1>3, <1>4, <1>5 DEF DInv, MapInstalled, InMemory, Installed
<1> QED BY <1>1, <1>6 DEF DInv, FileInstalled, MapInstalled, CurrentInstalled, TempInstalled,
                          BeforeRead

LEMMA WriteTempDInv == TypeOK' /\ DInv /\ WriteTemp => DInv'
<1> SUFFICES ASSUME TypeOK', DInv, WriteTemp PROVE DInv'
  OBVIOUS
<1>1. /\ pc = "dump" /\ pc' = "rename"
      /\ UNCHANGED <<product_certs, default_certs, db_file>>
  BY DEF WriteTemp, Goto, machine
<1>2. \A p \in DOMAIN products : Installed(p) /\ is_installed(products[p])
  BY <1>1 DEF DInv, MapInstalled, InMemory, Installed, is_installed
<1> DEFINE file == to_json(products)
<1>3. file.kind = "object" /\ DOMAIN file.data = DOMAIN products
  BY <1>2, ToJson DEF DInv, TypeOK
<1> HIDE DEF file
<1>4. temp_file' = file
  BY DEF WriteTemp, file
<1>5. AllOnDisk(temp_file)'
  BY <1>1, <1>2, <1>3, <1>4 DEF AllOnDisk, Installed
<1> QED BY <1>1, <1>3, <1>4, <1>5 DEF DInv, FileInstalled, MapInstalled, CurrentInstalled,
                                      TempInstalled, BeforeRead, InMemory

LEMMA HookDInv ==
  ASSUME TypeOK', DInv, Hook, Faults \cap Vanishing = {}
  PROVE  DInv'
<1>1. CASE SetupDbDir \/ RestrictDbDir \/ SetupCertDir \/ SetupFails \/ HookReturns
  BY <1>1, SetupDInv
<1>2. ~WriteTempShort /\ ~WriteFails
  BY DEF WriteTempShort, WriteFails, Vanishing
<1>3. CASE ReadProductDb \/ ReadFails \/ ScanCerts \/ RemoveInactiveRepos
  BY <1>3, ReadDInv, UnreadDInv, ScanDInv, PruneDInv
<1>4. ASSUME NEW r \in Repos, NEW p \in Products,
             \/ KnownProduct(r, p) \/ OpenCert(r, p)
             \/ WriteCert(r, p) \/ WriteCertShort(r, p)
      PROVE  DInv'
  <2>1. ~WriteCertShort(r, p)
    BY DEF WriteCertShort, Vanishing
  <2> QED BY <1>4, <2>1, KnownProductDInv, OpenCertDInv, WriteCertDInv
<1>5. ASSUME /\ pc \in InMemory /\ pc' \in InMemory \ {"write_cert"}
             /\ UNCHANGED <<product_certs, default_certs, db_file, products>>
      PROVE  DInv'
  BY <1>5, LoopDInv
<1>6. ASSUME NEW r \in Repos, SkipRepo(r) PROVE DInv'
  BY <1>5, <1>6 DEF SkipRepo, machine, InMemory
<1>7. ASSUME NEW r \in Repos, NEW p \in Products, InstallFails(r, p) PROVE DInv'
  BY <1>5, <1>7 DEF InstallFails, Goto, machine, InMemory
<1>8. CASE GetActiveRepos \/ AllRemoved
  BY <1>5, <1>8 DEF GetActiveRepos, AllRemoved, Goto, machine, locals, InMemory
<1>9. ASSUME NEW p \in to_erase, RemoveFails(p) PROVE DInv'
  BY <1>5, <1>9 DEF RemoveFails, machine, InMemory
<1>10. ASSUME NEW p \in to_erase, RemoveCert(p) PROVE DInv'
  BY <1>10, RemoveCertDInv
<1>11. CASE WriteTemp
  BY <1>11, WriteTempDInv
<1>12. CASE RenameTemp
  <2>1. /\ pc = "rename" /\ pc' = "done" /\ db_file' = temp_file
        /\ UNCHANGED <<product_certs, default_certs>>
    BY <1>12 DEF RenameTemp, Goto
  <2> QED BY <2>1 DEF DInv, FileInstalled, MapInstalled, CurrentInstalled, TempInstalled,
                      AllOnDisk, BeforeRead, InMemory
<1> QED BY <1>1, <1>2, <1>3, <1>4, <1>6, <1>7, <1>8, <1>9, <1>10, <1>11, <1>12 DEF Hook

\* Without crashes and administrators, others only lose productid.json or remove RPMs.
LEMMA EnvironmentDInv ==
  ASSUME TypeOK', DInv, Environment, Faults \cap Vanishing = {}
  PROVE  DInv'
<1>1. /\ UNCHANGED <<product_certs, default_certs, pc, products, current, temp_file>>
      /\ db_file' = db_file \/ db_file' \in {MissingFile, MalformedFile}
  BY DEF Environment, RpmErase, AdminSetsCert, AdminSetsDefaultCert, LoseDb, Crash, Vanishing,
         locals
<1>2. DOMAIN MissingFile.data = {} /\ DOMAIN MalformedFile.data = {}
  BY EmptyFileType DEF MissingFile, MalformedFile
<1>3. FileInstalled'
  BY <1>1, <1>2 DEF DInv, FileInstalled, AllOnDisk
<1> QED BY <1>1, <1>3 DEF DInv, MapInstalled, Installed, CurrentInstalled, TempInstalled,
                          AllOnDisk

(***************************************************************************)
(* What write_product_db writes, read_product_db can read (the test        *)
(* WriteAndReadDb), whatever fails on the way to it: directories and       *)
(* certificates that cannot be created or removed, metadata that cannot be *)
(* read, a productid.json that is lost or cannot be read.  It takes a document that outlives *)
(* the certificates it names to make the plugin write null.                *)
(***************************************************************************)
THEOREM WrittenDbIsReadable ==
  ASSUME Faults \cap {"write", "short_write", "crash", "admin"} = {}
  PROVE  Spec => []WrittenDbReadable
<1>1. Init => DInv
  BY InitType, EmptyFileType
  DEF Init, NoHook, DInv, FileInstalled, MapInstalled, CurrentInstalled, TempInstalled,
      MissingFile, AllOnDisk, InMemory
<1>2. DInv /\ [Next]_vars => DInv'
  <2> SUFFICES ASSUME DInv, [Next]_vars PROVE DInv'
    OBVIOUS
  <2>1. TypeOK'
    BY TransactionType, HookType, EnvironmentType, StutterType DEF DInv, Next
  <2>2. Faults \cap Vanishing = {}
    BY DEF Vanishing
  <2>3. CASE UNCHANGED vars
    BY <2>1, <2>3 DEF vars, machine, locals, DInv, FileInstalled, MapInstalled, Installed,
                      CurrentInstalled, TempInstalled, AllOnDisk
  <2> QED BY <2>1, <2>2, <2>3, SetupDInv, HookDInv, EnvironmentDInv DEF Next
<1>3. DInv => WrittenDbReadable
  BY DEF DInv, TempInstalled, WrittenDbReadable
<1> QED BY <1>1, <1>2, <1>3, PTL DEF Spec

=============================================================================
