---------------------- MODULE ProductIdRefinementProofs ----------------------
(***************************************************************************)
(* The hook keeps the promise of the plugin, ProductCerts, for every value *)
(* of the constants, as long as nobody interferes from outside, a          *)
(* productid.json that is there can be read, and a file that could not be  *)
(* written as a whole is noticed.                                          *)
(***************************************************************************)
EXTENDS ProductIdRefinement, ProductIdSafetyProofs, ProductIdAgreementProofs

-----------------------------------------------------------------------------
(***************************************************************************)
(* The inductive invariant.  From the moment productid.json is read until  *)
(* it is replaced, the map in memory may name no repository that is not    *)
(* justified and must name every one that is required.                     *)
(***************************************************************************)

\* The faults that do not keep the hook from what is promised; any other does.
Withstood == {"setup", "install", "remove", "write", "metadata", "crash"}

MapRepos(p)  == IF p \in DOMAIN products THEN products[p].repos ELSE {}
TempRepos(p) == IF p \in DOMAIN temp_file.data THEN temp_file.data[p] ELSE {}

\* What may be recorded with p, and what must be if p has a certificate.
Justified(p) == RecordedRepos(p) \cup {r \in transaction_repos : p \in CertsOf[r]}
Required(p)  == RecordedRepos(p) \cap InUse

\* Certificates are installed for repositories of the transaction only.
OfTransaction ==
  /\ pc = "idle" => transaction_repos = {}
  /\ todo \subseteq transaction_repos
  /\ pc = "write_cert" =>
       \A r \in Repos, p \in Products :
         current = <<r, p>> => r \in transaction_repos /\ p \in CertsOf[r]

InMemory ==
  pc \in {"scan", "repos", "write_cert", "prune", "erase", "dump"} =>
    \A p \in Products : MapRepos(p) \subseteq Justified(p) /\ Required(p) \subseteq MapRepos(p)

\* What is about to replace productid.json is what ProductCerts allows.
Recordable ==
  pc = "rename" =>
    \A p \in Products :
      /\ TempRepos(p) \subseteq Justified(p)
      /\ IF OnDisk(p) THEN Required(p) \subseteq TempRepos(p) ELSE TempRepos(p) = {}

PInv == OfTransaction /\ InMemory /\ Recordable

KInv == IInv /\ AInv /\ PInv

-----------------------------------------------------------------------------
\* What is justified and required depends on the files and RPMs alone.
LEMMA SameDuties ==
  ASSUME UNCHANGED <<db_file, transaction_repos>>
  PROVE  /\ \A p : RecordedRepos(p)' = RecordedRepos(p)
         /\ \A p : Justified(p)' = Justified(p)
         /\ InUse' \subseteq InUse => \A p : Required(p)' \subseteq Required(p)
BY DEF RecordedRepos, Justified, Required

\* A step that neither changes the map nor adds a repository in use.
LEMMA MapKept ==
  ASSUME KInv, UNCHANGED <<db_file, transaction_repos, products>>, InUse' \subseteq InUse,
         pc \in {"scan", "repos", "write_cert", "prune", "erase", "dump"}
  PROVE  InMemory'
<1>1. \A p : MapRepos(p)' = MapRepos(p)
  BY DEF MapRepos
<1> QED BY <1>1, SameDuties DEF KInv, PInv, InMemory

\* A step that adds repository r to what is in memory about p.
LEMMA MapGrows ==
  ASSUME KInv, UNCHANGED <<rpmdb, db_file, transaction_repos>>,
         NEW r \in transaction_repos, NEW p \in Products, p \in CertsOf[r],
         \A q \in Products : /\ MapRepos(q) \subseteq MapRepos(q)'
                             /\ q # p => MapRepos(q)' \subseteq MapRepos(q)
                             /\ MapRepos(q)' \subseteq MapRepos(q) \cup {r},
         pc \in {"repos", "write_cert"}
  PROVE  InMemory'
<1>1. InUse' = InUse
  BY DEF InUse
<1>2. r \in Justified(p)
  BY DEF Justified
<1>3. ASSUME NEW q \in Products
      PROVE  MapRepos(q)' \subseteq Justified(q)' /\ Required(q)' \subseteq MapRepos(q)'
  <2>1. MapRepos(q) \subseteq Justified(q) /\ Required(q) \subseteq MapRepos(q)
    BY DEF KInv, PInv, InMemory
  <2> QED BY <1>1, <1>2, <2>1, SameDuties
<1> QED BY <1>3 DEF InMemory

\* A hook that goes on has read productid.json, if there is one.
LEMMA FileIsRead ==
  ASSUME KInv, Faults \subseteq Withstood
  PROVE  unread = FALSE
BY DEF KInv, IInv, TypeOK, UnreadIsFault, Withstood

LEMMA KnownPInv ==
  ASSUME KInv, NEW r \in Repos, NEW p \in Products, KnownProduct(r, p)
  PROVE  PInv'
<1>1. products \in ProductMap /\ p \in DOMAIN products
  BY DEF KnownProduct, has_product_id, KInv, IInv, TypeOK
<1> DEFINE n == add_repo_id(products, p, r)
<1>2. /\ DOMAIN n = DOMAIN products
      /\ \A q \in DOMAIN products : /\ products[q].repos \subseteq n[q].repos
                                    /\ n[q].repos \subseteq products[q].repos \cup {r}
                                    /\ q # p => n[q].repos = products[q].repos
  BY <1>1, AddRepo
<1>3. products' = n
  BY DEF KnownProduct
<1> HIDE DEF n
<1>4. \A q \in Products : /\ MapRepos(q) \subseteq MapRepos(q)'
                          /\ q # p => MapRepos(q)' \subseteq MapRepos(q)
                          /\ MapRepos(q)' \subseteq MapRepos(q) \cup {r}
  BY <1>2, <1>3 DEF MapRepos
<1>5. /\ pc = "repos" /\ pc' = pc /\ r \in transaction_repos /\ p \in CertsOf[r]
      /\ UNCHANGED <<rpmdb, db_file, transaction_repos>>
  BY DEF KnownProduct, machine, KInv, PInv, OfTransaction
<1>6. InMemory'
  BY <1>4, <1>5, MapGrows
<1>7. OfTransaction'
  BY <1>5 DEF KnownProduct, KInv, PInv, OfTransaction
<1> QED BY <1>5, <1>6, <1>7 DEF PInv, Recordable

LEMMA WritePInv ==
  ASSUME KInv, NEW r \in Repos, NEW p \in Products, WriteCert(r, p)
  PROVE  PInv'
<1> DEFINE record == NewProductRecord("product", p \in ProductCerts)
           added == add_product_id(products, p, record)
<1>1. record \in ProductRecord /\ record.repos = {}
  BY DEF NewProductRecord, ProductRecord, CertPath
<1>2. /\ added \in ProductMap /\ p \in DOMAIN added
      /\ \A q \in DOMAIN products : q \in DOMAIN added /\ added[q] = products[q]
      /\ \A q \in DOMAIN added \ DOMAIN products : q = p /\ added[q] = record
  <2>1. products \in ProductMap
    BY DEF KInv, IInv, TypeOK
  <2> HIDE DEF record
  <2> QED BY <1>1, <2>1, AddProduct
<1>3. products' = add_repo_id(added, p, r)
  BY DEF WriteCert, WriteCertAs
<1> HIDE DEF added, record
<1>4. /\ DOMAIN products' = DOMAIN added
      /\ \A q \in DOMAIN added : /\ added[q].repos \subseteq products'[q].repos
                                 /\ products'[q].repos \subseteq added[q].repos \cup {r}
                                 /\ q # p => products'[q].repos = added[q].repos
  BY <1>2, <1>3, AddRepo
<1>5. ASSUME NEW q \in Products
      PROVE  /\ MapRepos(q) \subseteq MapRepos(q)'
             /\ q # p => MapRepos(q)' \subseteq MapRepos(q)
             /\ MapRepos(q)' \subseteq MapRepos(q) \cup {r}
  <2>1. CASE q \in DOMAIN products
    BY <1>2, <1>4, <2>1 DEF MapRepos
  <2>2. CASE q \notin DOMAIN products
    BY <1>1, <1>2, <1>4, <2>2 DEF MapRepos
  <2> QED BY <2>1, <2>2
<1>6. /\ pc = "write_cert" /\ pc' = "repos" /\ r \in transaction_repos /\ p \in CertsOf[r]
      /\ UNCHANGED <<rpmdb, db_file, transaction_repos>>
  BY DEF WriteCert, WriteCertAs, Goto, KInv, PInv, OfTransaction
<1>7. InMemory'
  BY <1>5, <1>6, MapGrows
<1>8. OfTransaction'
  BY <1>6 DEF WriteCert, WriteCertAs, KInv, PInv, OfTransaction
<1> QED BY <1>6, <1>7, <1>8 DEF PInv, Recordable

\* read_product_db takes over what the file has.
LEMMA ReadPInv == KInv /\ ReadProductDb => PInv'
<1> SUFFICES ASSUME KInv, ReadProductDb PROVE PInv'
  OBVIOUS
<1> USE DEF KInv
<1> DEFINE m == read_product_db(db_file, ProductCerts, default_certs)
<1>1. /\ db_file.kind = "object" =>
           \A p \in DOMAIN db_file.data : p \in DOMAIN m /\ m[p].repos = db_file.data[p]
      /\ \A p \in DOMAIN m : p \in DOMAIN db_file.data
      /\ db_file.kind # "object" => DOMAIN db_file.data = {}
  BY ReadDb DEF IInv, TypeOK, OnlyObjectsHaveMembers
<1>2. products' = m /\ pc' = "scan" /\ UNCHANGED <<machine, transaction_repos, todo>>
  BY DEF ReadProductDb, Goto
<1> HIDE DEF m
<1>3. \A p : MapRepos(p)' = RecordedRepos(p)
  BY <1>1, <1>2 DEF MapRepos, RecordedRepos
<1>4. \A p : RecordedRepos(p)' = RecordedRepos(p)
  BY <1>2, SameDuties DEF machine
<1>5. InMemory'
  BY <1>3, <1>4 DEF InMemory, Justified, Required
<1> QED BY <1>2, <1>5 DEF PInv, OfTransaction, Recordable

\* The records the scan adds have no repositories.
LEMMA ScanPInv == KInv /\ ScanCerts => PInv'
<1> SUFFICES ASSUME KInv, ScanCerts PROVE PInv'
  OBVIOUS
<1> USE DEF KInv
<1> DEFINE n == process_all_installed(products, default_certs, ProductCerts)
<1>1. /\ \A p \in DOMAIN products : p \in DOMAIN n /\ n[p] = products[p]
      /\ \A p \in DOMAIN n \ DOMAIN products : n[p].repos = {}
  BY ScanAll DEF IInv, TypeOK
<1>2. /\ products' = n /\ pc = "scan" /\ pc' = "repos" /\ todo' = transaction_repos
      /\ UNCHANGED <<machine, transaction_repos>>
  BY DEF ScanCerts, Goto
<1> HIDE DEF n
<1>3. \A p : MapRepos(p)' = MapRepos(p)
  BY <1>1, <1>2 DEF MapRepos
<1>4. InUse' = InUse
  BY <1>2 DEF machine, InUse
<1>5. InMemory'
  BY <1>2, <1>3, <1>4, SameDuties DEF PInv, InMemory, machine
<1> QED BY <1>2, <1>5 DEF PInv, OfTransaction, Recordable

\* The pruning spares the repositories in use.
LEMMA PrunePInv == KInv /\ RemoveInactiveRepos => PInv'
<1> SUFFICES ASSUME KInv, RemoveInactiveRepos PROVE PInv'
  OBVIOUS
<1> USE DEF KInv
<1> DEFINE n == remove_inactive_repositories(products, active_repos)
<1>1. /\ DOMAIN n = DOMAIN products
      /\ \A p \in DOMAIN products : n[p].repos = products[p].repos \cap active_repos
  BY Prune DEF IInv, TypeOK
<1>2. /\ products' = n /\ pc = "prune" /\ pc' = "erase"
      /\ UNCHANGED <<machine, transaction_repos, todo>>
  BY DEF RemoveInactiveRepos, Goto
<1> HIDE DEF n
<1>3. \A p : MapRepos(p)' = MapRepos(p) \cap active_repos
  BY <1>1, <1>2 DEF MapRepos
<1>4. InUse' = InUse /\ InUse \subseteq active_repos
  BY <1>2 DEF machine, InUse, IInv, InUseActive
<1>5. ASSUME NEW p \in Products
      PROVE  MapRepos(p)' \subseteq Justified(p)' /\ Required(p)' \subseteq MapRepos(p)'
  <2>1. MapRepos(p) \subseteq Justified(p) /\ Required(p) \subseteq MapRepos(p)
    BY <1>2 DEF PInv, InMemory
  <2>2. Required(p) \subseteq active_repos
    BY <1>4 DEF Required
  <2> QED BY <1>2, <1>3, <1>4, <2>1, <2>2, SameDuties DEF machine
<1> QED BY <1>2, <1>5 DEF PInv, OfTransaction, InMemory, Recordable

\* What is removed is not required.
LEMMA RemovePInv ==
  ASSUME KInv, Faults \subseteq Withstood, NEW p \in to_erase, RemoveCert(p)
  PROVE  PInv'
<1> USE DEF KInv
<1> DEFINE n == remove_product_id(products, p)
<1>1. DOMAIN n = DOMAIN products \ {p} /\ \A q \in DOMAIN n : n[q] = products[q]
  BY RemoveProduct, Zenon DEF IInv, TypeOK
<1>2. /\ products' = n /\ pc = "erase" /\ pc' = "erase"
      /\ UNCHANGED <<rpmdb, db_file, transaction_repos, todo>>
  BY DEF RemoveCert
<1> HIDE DEF n
<1>3. MapRepos(p)' = {} /\ \A q : q # p => MapRepos(q)' = MapRepos(q)
  BY <1>1, <1>2 DEF MapRepos
<1>4. InUse' = InUse
  BY <1>2 DEF InUse
<1>5. Required(p) = {}
  BY <1>2, FileIsRead DEF IInv, ToEraseUnneeded, Required
<1>6. InMemory'
  BY <1>2, <1>3, <1>4, <1>5, SameDuties DEF PInv, InMemory
<1> QED BY <1>2, <1>6 DEF PInv, OfTransaction, Recordable

\* to_json drops the products without a certificate, and no others.
LEMMA DumpPInv ==
  ASSUME KInv, Faults \subseteq Withstood, WriteTemp
  PROVE  PInv'
<1> USE DEF KInv
<1> DEFINE file == to_json(products)
<1>1. /\ DOMAIN file.data = {p \in DOMAIN products : is_installed(products[p])}
      /\ \A p \in DOMAIN file.data : file.data[p] = products[p].repos
  BY ToJson DEF IInv, TypeOK
<1>2. /\ temp_file' = file /\ pc = "dump" /\ pc' = "rename"
      /\ UNCHANGED <<machine, transaction_repos, todo>>
  BY DEF WriteTemp, Goto
<1> HIDE DEF file
<1>3. ASSUME NEW p \in DOMAIN products PROVE OnDisk(p) <=> is_installed(products[p])
  <2>1. PathTrue(p) /\ products[p].path \in CertPath
    BY <1>2, ProductMapElim DEF Withstood, AInv, PathsTrue, Undisturbed, TypeOK
  <2> QED BY <2>1 DEF PathTrue, OnDisk, is_installed, CertPath
<1>4. InUse' = InUse /\ \A p : OnDisk(p)' <=> OnDisk(p)
  BY <1>2 DEF machine, InUse, OnDisk, ProductCerts
<1>5. ASSUME NEW p \in Products
      PROVE  TempRepos(p)' = IF OnDisk(p) THEN MapRepos(p) ELSE {}
  BY <1>1, <1>2, <1>3 DEF TempRepos, MapRepos
<1>6. ASSUME NEW p \in Products
      PROVE  /\ TempRepos(p)' \subseteq Justified(p)'
             /\ IF OnDisk(p)' THEN Required(p)' \subseteq TempRepos(p)' ELSE TempRepos(p)' = {}
  <2>1. MapRepos(p) \subseteq Justified(p) /\ Required(p) \subseteq MapRepos(p)
    BY <1>2 DEF PInv, InMemory
  <2> QED BY <1>2, <1>4, <1>5, <2>1, SameDuties DEF machine
<1> QED BY <1>2, <1>6 DEF PInv, OfTransaction, InMemory, Recordable

\* Between the steps above, nothing that matters changes.
LEMMA QuietPInv ==
  ASSUME KInv, UNCHANGED <<product_certs, default_certs, db_file, transaction_repos,
                           products, temp_file, todo, current>>,
         InUse' \subseteq InUse,
         \/ pc' = pc
         \/ pc = "erase" /\ pc' = "dump"
         \/ pc = "repos" /\ pc' = "prune"
         \/ pc # "idle" /\ pc' \in {"restrict_db_dir", "setup_cert_dir", "read", "done"}
  PROVE  PInv'
<1>1. \A p : OnDisk(p)' <=> OnDisk(p)
  BY DEF OnDisk, ProductCerts
<1>2. \A p : TempRepos(p)' = TempRepos(p)
  BY DEF TempRepos
<1>3. OfTransaction'
  BY DEF KInv, PInv, OfTransaction
<1>4. InMemory'
  BY MapKept DEF InMemory
<1>5. Recordable'
  BY <1>1, <1>2, SameDuties DEF KInv, PInv, Recordable
<1> QED BY <1>3, <1>4, <1>5 DEF PInv

LEMMA HookEndsPInv == HookEnds => PInv'
BY DEF HookEnds, Goto, PInv, OfTransaction, InMemory, Recordable

LEMMA HookPInv ==
  ASSUME KInv, Faults \subseteq Withstood, Hook
  PROVE  PInv'
<1> USE DEF KInv
<1>1. CASE SetupDbDir \/ RestrictDbDir \/ SetupCertDir
  BY <1>1, QuietPInv DEF SetupDbDir, RestrictDbDir, SetupCertDir, Goto, locals, InUse
<1>2. CASE SetupFails \/ HookReturns
  BY <1>2, HookEndsPInv DEF SetupFails, HookReturns
<1>3. CASE ReadProductDb \/ ReadFails
  BY <1>3, ReadPInv DEF ReadFails, Withstood
<1>4. CASE ScanCerts
  BY <1>4, ScanPInv
<1>5. ASSUME NEW r \in Repos, SkipRepo(r) PROVE PInv'
  <2>1. InUse' = InUse
    BY <1>5 DEF SkipRepo, machine, InUse
  <2>2. InMemory'
    BY <1>5, <2>1, MapKept DEF SkipRepo, machine
  <2> QED BY <1>5, <2>2 DEF SkipRepo, PInv, OfTransaction, Recordable
<1>6. ASSUME NEW r \in Repos, NEW p \in Products, KnownProduct(r, p) PROVE PInv'
  BY <1>6, KnownPInv
<1>7. ASSUME NEW r \in Repos, NEW p \in Products, OpenCert(r, p) PROVE PInv'
  <2>1. InUse' = InUse
    BY <1>7 DEF OpenCert, InUse
  <2>2. InMemory'
    BY <1>7, <2>1, MapKept DEF OpenCert
  <2> QED BY <1>7, <2>2 DEF OpenCert, Goto, PInv, OfTransaction, Recordable
<1>8. ASSUME NEW r \in Repos, NEW p \in Products, WriteCert(r, p) \/ WriteCertShort(r, p)
      PROVE  PInv'
  BY <1>8, WritePInv DEF WriteCertShort, Withstood
<1>9. ASSUME NEW r \in Repos, NEW p \in Products, InstallFails(r, p) PROVE PInv'
  <2>1. InUse' = InUse
    BY <1>9 DEF InstallFails, machine, InUse
  <2>2. InMemory'
    BY <1>9, <2>1, MapKept DEF InstallFails, machine
  <2> QED BY <1>9, <2>2 DEF InstallFails, Goto, PInv, OfTransaction, Recordable
<1>10. CASE GetActiveRepos \/ AllRemoved
  BY <1>10, QuietPInv DEF GetActiveRepos, AllRemoved, Goto, machine, locals, InUse
<1>11. CASE RemoveInactiveRepos
  BY <1>11, PrunePInv
<1>12. ASSUME NEW p \in to_erase, RemoveCert(p) PROVE PInv'
  BY <1>12, RemovePInv
<1>13. ASSUME NEW p \in to_erase, RemoveFails(p) PROVE PInv'
  BY <1>13, QuietPInv DEF RemoveFails, machine, InUse
<1>14. CASE WriteTemp
  BY <1>14, DumpPInv
<1>15. CASE WriteTempShort
  BY <1>15 DEF WriteTempShort, Withstood
<1>16. CASE RenameTemp
  BY <1>16 DEF RenameTemp, Goto, PInv, OfTransaction, InMemory, Recordable
<1>17. CASE WriteFails
  BY <1>17 DEF WriteFails, Goto, PInv, OfTransaction, InMemory, Recordable
<1> QED
  BY <1>1, <1>2, <1>3, <1>4, <1>5, <1>6, <1>7, <1>8, <1>9, <1>10, <1>11, <1>12,
     <1>13, <1>14, <1>15, <1>16, <1>17 DEF Hook

\* Without interference, only rpm and a crash come between the steps of the hook.
LEMMA OnlyRpmAndCrash ==
  ASSUME Faults \subseteq Withstood, Environment
  PROVE  (\E k \in Pkgs : RpmErase(k)) \/ Crash
BY DEF Environment, AdminSetsCert, AdminSetsDefaultCert, LoseDb, Withstood

LEMMA EraseShrinks ==
  ASSUME TypeOK, NEW k \in Pkgs, RpmErase(k)
  PROVE  InUse' \subseteq InUse
BY DEF RpmErase, InUse, Range, TypeOK

LEMMA NextPInv ==
  ASSUME KInv, Faults \subseteq Withstood, [Next]_vars
  PROVE  PInv'
<1>1. CASE Transaction
  <2>1. todo' = {} /\ pc' = "setup_db_dir"
    BY <1>1 DEF Transaction, Goto, KInv, PInv, OfTransaction
  <2> QED BY <2>1 DEF PInv, OfTransaction, InMemory, Recordable
<1>2. CASE Hook
  BY <1>2, HookPInv
<1>3. ASSUME NEW k \in Pkgs, RpmErase(k) PROVE PInv'
  BY <1>3, QuietPInv, EraseShrinks DEF RpmErase, locals, KInv, IInv
<1>4. CASE Crash
  BY <1>4, HookEndsPInv DEF Crash
<1>5. CASE UNCHANGED vars
  BY <1>5, QuietPInv DEF vars, machine, locals, InUse
<1> QED BY <1>1, <1>2, <1>3, <1>4, <1>5, OnlyRpmAndCrash DEF Next

-----------------------------------------------------------------------------
(***************************************************************************)
(* Every step is one of ProductCerts, or changes nothing it can see.       *)
(***************************************************************************)

\* What ProductCerts sees, in terms of what the hook works on.
LEMMA Unseen ==
  ASSUME UNCHANGED <<db_file, transaction_repos>>, InUse' = InUse,
         \A p \in Products : OnDisk(p)' <=> OnDisk(p)
  PROVE  UNCHANGED Promise!vars
<1>1. [p \in Products |-> RecordedRepos(p)]' = [p \in Products |-> RecordedRepos(p)]
  BY SameDuties
<1>2. {p \in Products : OnDisk(p)}' = {p \in Products : OnDisk(p)}
  OBVIOUS
<1> QED BY <1>1, <1>2 DEF Promise!vars

LEMMA FilesUnseen ==
  ASSUME UNCHANGED <<rpmdb, product_certs, default_certs>>
  PROVE  InUse' = InUse /\ \A p \in Products : OnDisk(p)' <=> OnDisk(p)
BY DEF InUse, OnDisk, ProductCerts

LEMMA TransactionStep ==
  ASSUME KInv, Transaction
  PROVE  Promise!Next
<1>1. ASSUME NEW en \in SUBSET Repos, NEW inbound \in SUBSET Pkgs, NEW from \in [inbound -> en],
             NEW outbound \in SUBSET {k \in Pkgs \ inbound : rpmdb[k] # NoRepo},
             rpmdb' = [k \in Pkgs |-> IF k \in inbound THEN from[k]
                                      ELSE IF k \in outbound THEN NoRepo ELSE rpmdb[k]],
             transaction_repos' = Range(from)
      PROVE  transaction_repos' \subseteq Repos /\ InUse' \subseteq InUse \cup transaction_repos'
  BY <1>1 DEF InUse, Range, KInv, IInv, TypeOK
<1>2. transaction_repos' \in SUBSET Repos /\ InUse' \in SUBSET (InUse \cup transaction_repos')
  BY <1>1 DEF Transaction
<1>3. UNCHANGED <<product_certs, default_certs, db_file>>
  BY DEF Transaction
<1>4. transaction_repos = {}
  BY DEF Transaction, KInv, PInv, OfTransaction
<1>5. \A p : RecordedRepos(p)' = RecordedRepos(p) /\ (OnDisk(p)' <=> OnDisk(p))
  BY <1>3 DEF RecordedRepos, OnDisk, ProductCerts
<1>6. Promise!Transact(transaction_repos')
  BY <1>2, <1>4, <1>5 DEF Promise!Transact
<1> QED BY <1>2, <1>6 DEF Promise!Next

LEMMA OpenStep ==
  ASSUME KInv, NEW r \in Repos, NEW p \in Products, OpenCert(r, p)
  PROVE  Promise!Next
<1>1. r \in transaction_repos /\ p \in CertsOf[r]
  BY DEF OpenCert, KInv, PInv, OfTransaction
<1>2. /\ UNCHANGED <<rpmdb, db_file, transaction_repos, default_certs>>
      /\ ProductCerts' = ProductCerts \cup {p}
  BY ProductIdAssumption DEF OpenCert, ProductCerts, KInv, IInv, TypeOK, CertFile
<1>3. {q \in Products : OnDisk(q)}' = {q \in Products : OnDisk(q)} \cup {p}
  BY <1>2 DEF OnDisk
<1>4. InUse' = InUse /\ \A q : RecordedRepos(q)' = RecordedRepos(q)
  BY <1>2 DEF InUse, RecordedRepos
<1>5. Promise!Install(p)
  BY <1>1, <1>2, <1>3, <1>4 DEF Promise!Install
<1> QED BY <1>5 DEF Promise!Next

\* A certificate that is removed may still have a default one of the same name.
LEMMA RemoveStep ==
  ASSUME KInv, Faults \subseteq Withstood, NEW p \in to_erase, RemoveCert(p)
  PROVE  Promise!Next \/ UNCHANGED Promise!vars
<1>1. p \in Products /\ products[p].path # "product-default" /\ RecordedRepos(p) \cap InUse = {}
  BY FileIsRead DEF RemoveCert, KInv, IInv, TypeOK, ToEraseUnneeded
<1>2. /\ UNCHANGED <<rpmdb, db_file, transaction_repos, default_certs>>
      /\ ProductCerts' \in {ProductCerts, ProductCerts \ {p}}
  BY <1>1, ProductIdAssumption DEF RemoveCert, ProductCerts, KInv, IInv, TypeOK
<1>3. InUse' = InUse /\ \A q : RecordedRepos(q)' = RecordedRepos(q)
  BY <1>2 DEF InUse, RecordedRepos
<1>4. CASE p \in default_certs \/ ProductCerts' = ProductCerts
  <2>1. \A q \in Products : OnDisk(q)' <=> OnDisk(q)
    BY <1>2, <1>4 DEF OnDisk
  <2> QED BY <1>2, <1>3, <2>1, Unseen
<1>5. CASE p \notin default_certs /\ ProductCerts' = ProductCerts \ {p}
  <2>1. {q \in Products : OnDisk(q)}' = {q \in Products : OnDisk(q)} \ {p}
    BY <1>2, <1>5 DEF OnDisk
  <2>2. Promise!Remove(p)
    BY <1>1, <1>2, <1>3, <2>1 DEF Promise!Remove
  <2> QED BY <1>1, <2>2 DEF Promise!Next
<1> QED BY <1>2, <1>4, <1>5

LEMMA RenameStep ==
  ASSUME KInv, RenameTemp
  PROVE  Promise!Next
<1>1. \A p : RecordedRepos(p)' = TempRepos(p)
  BY DEF RenameTemp, RecordedRepos, TempRepos
<1>2. \A p \in Products : TempRepos(p) \subseteq Repos
  BY JsonObjectElim DEF KInv, IInv, TypeOK, DbFile, TempRepos
<1>3. /\ UNCHANGED <<transaction_repos>>
      /\ InUse' = InUse /\ \A p \in Products : OnDisk(p)' <=> OnDisk(p)
  BY FilesUnseen DEF RenameTemp
<1>4. \A p \in Products :
        /\ TempRepos(p) \subseteq Justified(p)
        /\ IF OnDisk(p) THEN Required(p) \subseteq TempRepos(p) ELSE TempRepos(p) = {}
  BY DEF RenameTemp, KInv, PInv, Recordable
<1>5. [p \in Products |-> RecordedRepos(p)]' \in [Products -> SUBSET Repos]
  BY <1>1, <1>2
<1>6. Promise!Record
  BY <1>1, <1>3, <1>4, <1>5
  DEF Promise!Record, Promise!Justified, Promise!Required, Justified, Required
<1> QED BY <1>6 DEF Promise!Next

LEMMA EndStep ==
  ASSUME HookEnds
  PROVE  Promise!Next
<1>1. InUse' = InUse /\ \A p \in Products : OnDisk(p)' <=> OnDisk(p)
  BY FilesUnseen DEF HookEnds, machine
<1>2. \A p : RecordedRepos(p)' = RecordedRepos(p)
  BY DEF HookEnds, machine, RecordedRepos
<1>3. Promise!Finish
  BY <1>1, <1>2 DEF HookEnds, Promise!Finish
<1> QED BY <1>3 DEF Promise!Next

LEMMA RpmStep ==
  ASSUME KInv, NEW k \in Pkgs, RpmErase(k)
  PROVE  Promise!Next
<1>1. InUse' \in SUBSET InUse
  BY EraseShrinks DEF KInv, IInv
<1>2. \A p : RecordedRepos(p)' = RecordedRepos(p) /\ (OnDisk(p)' <=> OnDisk(p))
  BY DEF RpmErase, RecordedRepos, OnDisk, ProductCerts
<1>3. Promise!StopUsing
  BY <1>1, <1>2 DEF RpmErase, locals, Promise!StopUsing
<1> QED BY <1>3 DEF Promise!Next

\* A certificate that is being written is on disk before and after.
LEMMA WriteUnseen ==
  ASSUME KInv, Faults \subseteq Withstood, NEW r \in Repos, NEW p \in Products, WriteCert(r, p)
  PROVE  UNCHANGED Promise!vars
<1>1. p \in ProductCerts
  BY DEF WriteCert, WriteCertAs, KInv, AInv, BeingWritten, Undisturbed, Withstood
<1>2. ProductCerts' = ProductCerts
  BY <1>1, ProductIdAssumption
  DEF WriteCert, WriteCertAs, ProductCerts, KInv, IInv, TypeOK, CertFile
<1>3. InUse' = InUse /\ \A q \in Products : OnDisk(q)' <=> OnDisk(q)
  BY <1>2 DEF WriteCert, WriteCertAs, InUse, OnDisk
<1> QED BY <1>3, Unseen DEF WriteCert, WriteCertAs

LEMMA HookStep ==
  ASSUME KInv, Faults \subseteq Withstood, Hook
  PROVE  Promise!Next \/ UNCHANGED Promise!vars
<1>1. ASSUME UNCHANGED <<rpmdb, product_certs, default_certs, db_file, transaction_repos>>
      PROVE  UNCHANGED Promise!vars
  BY <1>1, FilesUnseen, Unseen
<1>2. CASE SetupDbDir \/ RestrictDbDir \/ SetupCertDir
  BY <1>1, <1>2 DEF SetupDbDir, RestrictDbDir, SetupCertDir, locals
<1>3. CASE SetupFails \/ HookReturns
  BY <1>3, EndStep DEF SetupFails, HookReturns
<1>4. CASE ReadProductDb \/ ReadFails \/ ScanCerts \/ GetActiveRepos \/ RemoveInactiveRepos
  BY <1>1, <1>4 DEF ReadProductDb, ReadFails, ScanCerts, GetActiveRepos, RemoveInactiveRepos, machine
<1>5. ASSUME NEW r \in Repos, SkipRepo(r) PROVE UNCHANGED Promise!vars
  BY <1>1, <1>5 DEF SkipRepo, machine
<1>6. ASSUME NEW r \in Repos, NEW p \in Products, KnownProduct(r, p) \/ InstallFails(r, p)
      PROVE  UNCHANGED Promise!vars
  BY <1>1, <1>6 DEF KnownProduct, InstallFails, machine
<1>7. ASSUME NEW r \in Repos, NEW p \in Products, OpenCert(r, p) PROVE Promise!Next
  BY <1>7, OpenStep
<1>8. ASSUME NEW r \in Repos, NEW p \in Products, WriteCert(r, p) \/ WriteCertShort(r, p)
      PROVE  UNCHANGED Promise!vars
  BY <1>8, WriteUnseen DEF WriteCertShort, Withstood
<1>9. ASSUME NEW p \in to_erase, RemoveCert(p)
      PROVE  Promise!Next \/ UNCHANGED Promise!vars
  BY <1>9, RemoveStep
<1>10. ASSUME NEW p \in to_erase, RemoveFails(p) PROVE UNCHANGED Promise!vars
  BY <1>1, <1>10 DEF RemoveFails, machine
<1>11. CASE AllRemoved \/ WriteTemp \/ WriteTempShort \/ WriteFails
  BY <1>1, <1>11 DEF AllRemoved, WriteTemp, WriteTempShort, WriteFails, machine, locals
<1>12. CASE RenameTemp
  BY <1>12, RenameStep
<1> QED
  BY <1>2, <1>3, <1>4, <1>5, <1>6, <1>7, <1>8, <1>9, <1>10, <1>11, <1>12 DEF Hook

LEMMA NextStep ==
  ASSUME KInv, Faults \subseteq Withstood, [Next]_vars
  PROVE  [Promise!Next]_(Promise!vars)
<1>1. CASE Transaction
  BY <1>1, TransactionStep
<1>2. CASE Hook
  BY <1>2, HookStep
<1>3. ASSUME NEW k \in Pkgs, RpmErase(k) PROVE Promise!Next
  BY <1>3, RpmStep
<1>4. CASE Crash
  BY <1>4, EndStep DEF Crash
<1>5. CASE UNCHANGED vars
  BY <1>5, FilesUnseen, Unseen DEF vars, machine, locals
<1> QED BY <1>1, <1>2, <1>3, <1>4, <1>5, OnlyRpmAndCrash DEF Next

LEMMA InitStep == Init => PInv /\ Promise!Init
<1> SUFFICES ASSUME Init PROVE PInv /\ Promise!Init
  OBVIOUS
<1>1. PInv
  BY DEF Init, NoHook, PInv, OfTransaction, InMemory, Recordable
<1>2. InUse = {} /\ \A p : RecordedRepos(p) = {}
  BY EmptyFileType DEF Init, InUse, Range, RecordedRepos, MissingFile
<1>3. Promise!Init
  BY <1>2 DEF Init, NoHook, Promise!Init
<1> QED BY <1>1, <1>3

(***************************************************************************)
(* Whatever fails, as long as productid.json can be read and what is not   *)
(* written is noticed, and wherever the hook ends, what it does to the     *)
(* certificates and to productid.json is what the plugin promises: none    *)
(* comes without a repository of the transaction, none goes that a         *)
(* repository in use is recorded with, and the record forgets none of them *)
(* and names none without reason.                                          *)
(***************************************************************************)
THEOREM PromiseKept ==
  ASSUME Faults \subseteq Withstood
  PROVE  Spec => KeepsPromise
<1>1. Init => PInv /\ Promise!Init
  BY InitStep
<1>2. IInv /\ AInv /\ PInv /\ [Next]_vars => PInv' /\ [Promise!Next]_(Promise!vars)
  BY NextPInv, NextStep DEF KInv
<1> QED BY <1>1, <1>2, Invariance, AgreementInvariance, PTL DEF Spec, KeepsPromise, Promise!Spec

=============================================================================
