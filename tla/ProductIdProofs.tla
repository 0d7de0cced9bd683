--------------------------- MODULE ProductIdProofs ---------------------------
(***************************************************************************)
(* Theorems about the productid plugin, for every number of products,      *)
(* repositories, packages and files and for every set of faults, and their *)
(* proofs.                                                                 *)
(***************************************************************************)
EXTENDS ProductId, TLAPS

-----------------------------------------------------------------------------
(***************************************************************************)
(* The operators of ProductDb and ProductId on maps of products.           *)
(***************************************************************************)

\* What it means to be a product map, member by member ...
LEMMA ProductMapElim ==
  ASSUME NEW m \in ProductMap
  PROVE  /\ DOMAIN m \subseteq Products
         /\ m = [p \in DOMAIN m |-> m[p]]
         /\ \A p \in DOMAIN m : m[p].repos \subseteq Repos /\ m[p].path \in CertPath
         /\ \A p \in DOMAIN m : m[p] \in ProductRecord
<1>1. PICK S \in SUBSET Products : m \in [S -> ProductRecord]
  BY DEF ProductMap
<1>2. \A p \in S : m[p].repos \subseteq Repos /\ m[p].path \in CertPath
  BY <1>1 DEF ProductRecord
<1> QED BY <1>1, <1>2

\* ... and how to show that a function is one.
LEMMA ProductMapIntro ==
  ASSUME NEW S \in SUBSET Products, NEW m \in [S -> ProductRecord]
  PROVE  m \in ProductMap
BY DEF ProductMap

\* The same for the members of a JSON document.
LEMMA JsonObjectElim ==
  ASSUME NEW d \in JsonObject
  PROVE  /\ DOMAIN d \subseteq Products
         /\ \A p \in DOMAIN d : d[p] \subseteq Repos
BY DEF JsonObject

LEMMA JsonObjectIntro ==
  ASSUME NEW S \in SUBSET Products, NEW d \in [S -> SUBSET Repos]
  PROVE  d \in JsonObject
BY DEF JsonObject

\* The files without members.
LEMMA EmptyFileType ==
  /\ NoMembers \in JsonObject /\ DOMAIN NoMembers = {}
  /\ MissingFile \in DbFile /\ MalformedFile \in DbFile
<1>1. NoMembers \in [{} -> SUBSET Repos] /\ DOMAIN NoMembers = {}
  BY DEF NoMembers
<1>2. NoMembers \in JsonObject
  BY <1>1, JsonObjectIntro
<1> QED BY <1>1, <1>2 DEF MissingFile, MalformedFile, DbFile

LEMMA NoProductsType == NoProducts \in ProductMap /\ DOMAIN NoProducts = {}
<1>1. NoProducts \in [{} -> ProductRecord] /\ DOMAIN NoProducts = {}
  BY DEF NoProducts
<1> QED BY <1>1, ProductMapIntro

\* to_json makes a document of any product map; its members are the installed
\* products, and it is an object if all are installed.  Only an object has members.
LEMMA ToJson ==
  ASSUME NEW m \in ProductMap
  PROVE  LET file == to_json(m)
         IN  /\ file \in DbFile
             /\ file.kind # "object" => DOMAIN file.data = {}
             /\ DOMAIN file.data = {p \in DOMAIN m : is_installed(m[p])}
             /\ \A p \in DOMAIN file.data : file.data[p] = m[p].repos
             /\ (\A p \in DOMAIN m : is_installed(m[p])) => file.kind = "object"
<1> DEFINE installed == {p \in DOMAIN m : is_installed(m[p])}
           members == [p \in installed |-> m[p].repos]
<1>1. installed \in SUBSET Products /\ members \in [installed -> SUBSET Repos]
  BY ProductMapElim
<1>2. members \in JsonObject
  BY <1>1, JsonObjectIntro
<1>3. DOMAIN members = installed /\ \A p \in installed : members[p] = m[p].repos
  OBVIOUS
<1>4. to_json(m) = IF DOMAIN m # {} /\ installed = {}
                   THEN [kind |-> "null", data |-> NoMembers]
                   ELSE [kind |-> "object", data |-> members]
  BY DEF to_json
<1> HIDE DEF members
<1> QED BY <1>2, <1>3, <1>4, EmptyFileType DEF DbFile

\* read_product_db returns a record with its repositories for every member.
LEMMA ReadDb ==
  ASSUME NEW file \in DbFile, NEW inProduct, NEW inDefault
  PROVE  LET m == read_product_db(file, inProduct, inDefault)
         IN  /\ m \in ProductMap
             /\ file.kind = "object" =>
                  \A p \in DOMAIN file.data : p \in DOMAIN m /\ m[p].repos = file.data[p]
             /\ \A p \in DOMAIN m : /\ p \in DOMAIN file.data
                                    /\ m[p].path = FindCert(p, inProduct, inDefault)
<1> DEFINE record(p) == [repos |-> file.data[p],
                         path |-> FindCert(p, inProduct, inDefault)]
           m == [p \in DOMAIN file.data |-> record(p)]
<1>1. file.data \in JsonObject
  BY DEF DbFile
<1>2. ASSUME NEW p \in DOMAIN file.data PROVE record(p) \in ProductRecord
  <2>1. FindCert(p, inProduct, inDefault) \in CertPath
    BY DEF FindCert, CertPath
  <2>2. file.data[p] \in SUBSET Repos
    BY <1>1, JsonObjectElim
  <2> QED BY <2>1, <2>2 DEF ProductRecord
<1>3. DOMAIN file.data \in SUBSET Products
  BY <1>1, JsonObjectElim
<1>4. m \in ProductMap
  <2> HIDE DEF record
  <2>1. m \in [DOMAIN file.data -> ProductRecord]
    BY <1>2
  <2> QED BY <2>1, <1>3, ProductMapIntro
<1>5. /\ DOMAIN m = DOMAIN file.data
      /\ \A p \in DOMAIN m : /\ m[p].repos = file.data[p]
                             /\ m[p].path = FindCert(p, inProduct, inDefault)
  OBVIOUS
<1>6. read_product_db(file, inProduct, inDefault) =
        IF file.kind = "object" THEN m ELSE NoProducts
  BY DEF read_product_db
<1> HIDE DEF m
<1> QED BY <1>4, <1>5, <1>6, NoProductsType

\* What write_product_db puts into the file, read_product_db gets out of it: the
\* installed products with their repositories, and with the certificates that are
\* on disk by then.  The reader refuses a document the plugin wrote exactly if
\* there were products and none of them was installed.
THEOREM DbRoundTrip ==
  ASSUME NEW m \in ProductMap, NEW inProduct, NEW inDefault
  PROVE  LET file == to_json(m)
             read == read_product_db(file, inProduct, inDefault)
             installed == {p \in DOMAIN m : is_installed(m[p])}
         IN  /\ read \in ProductMap
             /\ DOMAIN read = installed
             /\ \A p \in installed :
                  /\ read[p].repos = m[p].repos
                  /\ read[p].path = FindCert(p, inProduct, inDefault)
             /\ file.kind # "object" <=> DOMAIN m # {} /\ installed = {}
<1> DEFINE file == to_json(m)
           read == read_product_db(file, inProduct, inDefault)
           installed == {p \in DOMAIN m : is_installed(m[p])}
<1>1. /\ file \in DbFile
      /\ file.kind # "object" => DOMAIN file.data = {}
      /\ DOMAIN file.data = installed
      /\ \A p \in DOMAIN file.data : file.data[p] = m[p].repos
  BY ToJson
<1>2. file.kind # "object" <=> DOMAIN m # {} /\ installed = {}
  BY DEF to_json
<1> HIDE DEF file, installed
<1>3. /\ read \in ProductMap
      /\ file.kind = "object" =>
           \A p \in DOMAIN file.data : p \in DOMAIN read /\ read[p].repos = file.data[p]
      /\ \A p \in DOMAIN read : /\ p \in DOMAIN file.data
                                /\ read[p].path = FindCert(p, inProduct, inDefault)
  BY <1>1, ReadDb
<1> HIDE DEF read
<1>4. DOMAIN read = installed
  BY <1>1, <1>3
<1> QED BY <1>1, <1>2, <1>3, <1>4 DEF file, read, installed

\* The scan of a directory adds records and changes none.
LEMMA Scan ==
  ASSUME NEW m \in ProductMap, NEW stems, NEW path \in CertPath
  PROVE  LET n == process_installed(m, stems, path)
         IN  /\ n \in ProductMap
             /\ \A p \in DOMAIN m : p \in DOMAIN n /\ n[p] = m[p]
             /\ \A p \in DOMAIN n \ DOMAIN m :
                  p \in stems /\ n[p].path = path /\ n[p].repos = {}
             /\ stems \cap Products \subseteq DOMAIN n
<1> DEFINE S == DOMAIN m \cup ((stems \cap Products) \ DOMAIN m)
           n == [p \in S |-> IF p \in DOMAIN m THEN m[p] ELSE NewProductRecord(path, TRUE)]
<1>1. S \in SUBSET Products
  BY ProductMapElim
<1>2. NewProductRecord(path, TRUE) \in ProductRecord
  BY DEF NewProductRecord, ProductRecord
<1>3. n \in [S -> ProductRecord]
  BY <1>2, ProductMapElim
<1>4. n = process_installed(m, stems, path)
  BY DEF process_installed
<1>5. n \in ProductMap
  BY <1>1, <1>3, ProductMapIntro
<1>6. \A p \in DOMAIN n \ DOMAIN m : p \in stems /\ n[p].path = path /\ n[p].repos = {}
  BY DEF NewProductRecord
<1> QED BY <1>4, <1>5, <1>6

LEMMA ScanAll ==
  ASSUME NEW m \in ProductMap, NEW inDefault, NEW inProduct
  PROVE  LET n == process_all_installed(m, inDefault, inProduct)
         IN  /\ n \in ProductMap
             /\ \A p \in DOMAIN m : p \in DOMAIN n /\ n[p] = m[p]
             /\ \A p \in DOMAIN n \ DOMAIN m :
                  /\ n[p].repos = {}
                  /\ \/ n[p].path = "product-default" /\ p \in inDefault
                     \/ n[p].path = "product" /\ p \in inProduct
             /\ (inDefault \cup inProduct) \cap Products \subseteq DOMAIN n
<1> DEFINE a == process_installed(m, inDefault, "product-default")
           n == process_installed(a, inProduct, "product")
<1>0. "product-default" \in CertPath /\ "product" \in CertPath
  BY DEF CertPath
<1>1. a \in ProductMap /\ \A p \in DOMAIN m : p \in DOMAIN a /\ a[p] = m[p]
  BY <1>0, Scan
<1>2. /\ \A p \in DOMAIN a \ DOMAIN m :
           p \in inDefault /\ a[p].path = "product-default" /\ a[p].repos = {}
      /\ inDefault \cap Products \subseteq DOMAIN a
  BY <1>0, Scan
<1> HIDE DEF a
<1>3. n \in ProductMap /\ \A p \in DOMAIN a : p \in DOMAIN n /\ n[p] = a[p]
  BY <1>0, <1>1, Scan
<1>4. /\ \A p \in DOMAIN n \ DOMAIN a :
           p \in inProduct /\ n[p].path = "product" /\ n[p].repos = {}
      /\ inProduct \cap Products \subseteq DOMAIN n
  BY <1>0, <1>1, Scan
<1>5. n = process_all_installed(m, inDefault, inProduct)
  BY DEF process_all_installed, a
<1> HIDE DEF n
<1> QED BY <1>1, <1>2, <1>3, <1>4, <1>5

\* add_repo_id to a record that is there only adds the repository, to it.
LEMMA AddRepo ==
  ASSUME NEW m \in ProductMap, NEW p \in DOMAIN m, NEW r \in Repos
  PROVE  LET n == add_repo_id(m, p, r)
         IN  /\ n \in ProductMap
             /\ DOMAIN n = DOMAIN m
             /\ r \in n[p].repos
             /\ \A q \in DOMAIN m : /\ m[q].repos \subseteq n[q].repos
                                    /\ n[q].path = m[q].path
                                    /\ n[q].repos \subseteq m[q].repos \cup {r}
                                    /\ q # p => n[q].repos = m[q].repos
<1> DEFINE new == [repos |-> m[p].repos \cup {r}, path |-> m[p].path]
           n == [m EXCEPT ![p] = new]
<1>1. /\ new \in ProductRecord /\ r \in new.repos
      /\ m[p].repos \subseteq new.repos /\ new.path = m[p].path
      /\ new.repos \subseteq m[p].repos \cup {r}
  BY ProductMapElim DEF ProductRecord
<1>2. n = add_repo_id(m, p, r)
  BY DEF add_repo_id
<1> HIDE DEF new
<1>3. n \in [DOMAIN m -> ProductRecord]
  BY <1>1, ProductMapElim
<1>4. n \in ProductMap
  BY <1>3, ProductMapElim, ProductMapIntro
<1>5. /\ r \in n[p].repos
      /\ \A q \in DOMAIN m : /\ m[q].repos \subseteq n[q].repos
                             /\ n[q].path = m[q].path
                             /\ n[q].repos \subseteq m[q].repos \cup {r}
                             /\ q # p => n[q].repos = m[q].repos
  BY <1>1, ProductMapElim
<1> QED BY <1>2, <1>3, <1>4, <1>5

\* add_product_id keeps the records that are there.
LEMMA AddProduct ==
  ASSUME NEW m \in ProductMap, NEW p \in Products, NEW record \in ProductRecord
  PROVE  LET n == add_product_id(m, p, record)
         IN  /\ n \in ProductMap
             /\ p \in DOMAIN n
             /\ \A q \in DOMAIN m : q \in DOMAIN n /\ n[q] = m[q]
             /\ \A q \in DOMAIN n \ DOMAIN m : q = p /\ n[q] = record
<1> DEFINE S == DOMAIN m \cup {p}
           n == [q \in S |-> IF q \in DOMAIN m THEN m[q] ELSE record]
<1>1. S \in SUBSET Products /\ n \in [S -> ProductRecord]
  BY ProductMapElim
<1>2. n \in ProductMap
  BY <1>1, ProductMapIntro
<1> QED BY <1>2 DEF add_product_id

\* remove_product_id removes one record.
LEMMA RemoveProduct ==
  ASSUME NEW m \in ProductMap, NEW p
  PROVE  LET n == remove_product_id(m, p)
         IN  /\ n \in ProductMap
             /\ DOMAIN n = DOMAIN m \ {p}
             /\ \A q \in DOMAIN n : n[q] = m[q]
<1> DEFINE S == DOMAIN m \ {p}
           n == [q \in S |-> m[q]]
<1>1. S \in SUBSET Products /\ n \in [S -> ProductRecord]
  BY ProductMapElim
<1>2. n \in ProductMap
  BY <1>1, ProductMapIntro
<1> QED BY <1>2 DEF remove_product_id, Restrict

\* remove_inactive_repositories leaves the active repositories of each record.
LEMMA Prune ==
  ASSUME NEW m \in ProductMap, NEW active
  PROVE  LET n == remove_inactive_repositories(m, active)
         IN  /\ n \in ProductMap
             /\ DOMAIN n = DOMAIN m
             /\ \A p \in DOMAIN m : /\ n[p].repos = m[p].repos \cap active
                                    /\ n[p].path = m[p].path
<1> DEFINE record(p) == [repos |-> m[p].repos \cap active, path |-> m[p].path]
           n == [p \in DOMAIN m |-> record(p)]
<1>1. \A p \in DOMAIN m : record(p) \in ProductRecord
  BY ProductMapElim DEF ProductRecord
<1>2. n \in [DOMAIN m -> ProductRecord]
  <2> HIDE DEF record
  <2> QED BY <1>1
<1>3. DOMAIN m \in SUBSET Products
  BY ProductMapElim
<1>4. n \in ProductMap
  BY <1>2, <1>3, ProductMapIntro
<1> QED BY <1>4 DEF remove_inactive_repositories

-----------------------------------------------------------------------------
(***************************************************************************)
(* Type correctness.                                                       *)
(***************************************************************************)
LEMMA InUseType == TypeOK => InUse \subseteq Repos
BY DEF TypeOK, InUse, Range

LEMMA InitType == Init => TypeOK
<1> SUFFICES ASSUME Init PROVE TypeOK
  OBVIOUS
<1>1. \A s \in Stems : product_certs[s] \in CertFile
  BY DEF Init, CertFile
<1> QED BY <1>1, EmptyFileType, NoProductsType DEF Init, NoHook, TypeOK, CertFile, DirState,
                                                   Steps

\* The end of a hook, normal or not, leaves the machine as it is.
LEMMA HookEndsType == TypeOK /\ HookEnds => TypeOK'
BY EmptyFileType, NoProductsType DEF TypeOK, HookEnds, Goto, Steps, machine

LEMMA TransactionType == TypeOK /\ Transaction => TypeOK'
<1> SUFFICES ASSUME TypeOK, Transaction PROVE TypeOK'
  OBVIOUS
<1>1. PICK en \in SUBSET Repos, inbound \in SUBSET Pkgs :
      \E from \in [inbound -> en], outbound \in SUBSET Pkgs :
        /\ rpmdb' = [k \in Pkgs |-> IF k \in inbound THEN from[k]
                                    ELSE IF k \in outbound THEN NoRepo
                                    ELSE rpmdb[k]]
        /\ enabled' = en
        /\ transaction_repos' = Range(from)
  BY DEF Transaction
<1>2. /\ rpmdb' \in [Pkgs -> Repos \cup {NoRepo}]
      /\ enabled' \in SUBSET Repos
      /\ transaction_repos' \in SUBSET Repos
  BY <1>1 DEF TypeOK, Range
<1>3. before' \in SUBSET Repos
  BY InUseType DEF Transaction
<1> QED BY <1>2, <1>3 DEF TypeOK, Transaction, Goto, Steps, history

\* Whole or cut short: the code goes on in the same way.
LEMMA WrittenAs ==
  ASSUME NEW r, NEW p, WriteCert(r, p) \/ WriteCertShort(r, p)
  PROVE  /\ \E state \in {"partial", "complete"} : WriteCertAs(r, p, state)
         /\ clean' = clean \/ clean' = FALSE
         /\ unread' = unread
<1>1. CASE WriteCert(r, p)
  BY <1>1, Zenon DEF WriteCert, history
<1>2. CASE WriteCertShort(r, p)
  <2>1. WriteCertAs(r, p, "partial") /\ Disturb
    BY <1>2 DEF WriteCertShort
  <2>2. pc # "idle"
    BY <2>1 DEF WriteCertAs
  <2>3. clean' = FALSE /\ unread' = unread
    BY <2>1, <2>2 DEF Disturb
  <2> QED BY <2>1, <2>3, Zenon
<1> QED BY <1>1, <1>2

LEMMA HookType == TypeOK /\ Hook => TypeOK'
<1> SUFFICES ASSUME TypeOK, Hook PROVE TypeOK'
  OBVIOUS
<1> USE DEF history
<1>1. CASE SetupDbDir
  BY <1>1 DEF TypeOK, SetupDbDir, Goto, Steps, DirState, locals
<1>2. CASE RestrictDbDir
  BY <1>2 DEF TypeOK, RestrictDbDir, Goto, Steps, DirState, locals
<1>3. CASE SetupCertDir
  BY <1>3 DEF TypeOK, SetupCertDir, Goto, Steps, locals
<1>4. CASE SetupFails
  BY <1>4, HookEndsType DEF SetupFails
<1>5. CASE ReadProductDb
  <2>1. products' \in ProductMap
    BY <1>5, ReadDb DEF ReadProductDb, TypeOK
  <2> QED BY <1>5, <2>1 DEF TypeOK, ReadProductDb, Goto, Steps, machine
<1>6. CASE ScanCerts
  <2>1. products' \in ProductMap
    BY <1>6, ScanAll DEF ScanCerts, TypeOK
  <2> QED BY <1>6, <2>1 DEF TypeOK, ScanCerts, Goto, Steps, machine
<1>7. ASSUME NEW r \in Repos, SkipRepo(r) PROVE TypeOK'
  BY <1>7 DEF TypeOK, SkipRepo, machine
<1>8. ASSUME NEW r \in Repos, NEW p \in Products, KnownProduct(r, p) PROVE TypeOK'
  <2>1. products' \in ProductMap
    BY <1>8, AddRepo DEF KnownProduct, TypeOK, has_product_id
  <2> QED BY <1>8, <2>1 DEF TypeOK, KnownProduct, machine
<1>9. ASSUME NEW r \in Repos, NEW p \in Products, OpenCert(r, p) PROVE TypeOK'
  BY <1>9 DEF TypeOK, OpenCert, Goto, Steps, CertFile
<1>10. ASSUME NEW r \in Repos, NEW p \in Products, WriteCert(r, p) \/ WriteCertShort(r, p)
       PROVE  TypeOK'
  <2>0. PICK state \in {"partial", "complete"} : WriteCertAs(r, p, state)
    BY <1>10, WrittenAs
  <2> DEFINE record == NewProductRecord("product", p \in ProductCerts)
             added == add_product_id(products, p, record)
  <2>1. record \in ProductRecord
    BY DEF NewProductRecord, ProductRecord, CertPath
  <2>2. added \in ProductMap /\ p \in DOMAIN added
    <3> HIDE DEF record
    <3> QED BY <2>1, AddProduct DEF TypeOK
  <2>3. products' = add_repo_id(added, p, r)
    BY <2>0 DEF WriteCertAs
  <2>4. products' \in ProductMap
    <3> HIDE DEF added
    <3> QED BY <2>2, <2>3, AddRepo
  <2>5. clean' \in BOOLEAN /\ unread' \in BOOLEAN
    BY <1>10, WrittenAs DEF TypeOK
  <2> QED BY <2>0, <2>4, <2>5 DEF TypeOK, WriteCertAs, Goto, Steps, CertFile
<1>11. ASSUME NEW r \in Repos, NEW p \in Products, InstallFails(r, p) PROVE TypeOK'
  BY <1>11 DEF TypeOK, InstallFails, Goto, Disturb, Steps, machine
<1>12. CASE GetActiveRepos
  <2>1. active_repos' \in SUBSET Repos
    BY <1>12, InUseType DEF GetActiveRepos, TypeOK, all_active_repos
  <2> QED BY <1>12, <2>1 DEF TypeOK, GetActiveRepos, Goto, Steps, machine
<1>13. CASE RemoveInactiveRepos
  <2>1. products' \in ProductMap
    BY <1>13, Prune DEF RemoveInactiveRepos, TypeOK
  <2>2. to_erase' \in SUBSET Products
    BY <1>13, <2>1, ProductMapElim DEF RemoveInactiveRepos, inactive_products
  <2> QED BY <1>13, <2>1, <2>2 DEF TypeOK, RemoveInactiveRepos, Goto, Steps, machine
<1>14. ASSUME NEW p \in to_erase, RemoveCert(p) PROVE TypeOK'
  <2>1. products' \in ProductMap
    BY <1>14, RemoveProduct DEF RemoveCert, TypeOK
  <2>2. product_certs' \in [Stems -> CertFile]
    BY <1>14 DEF RemoveCert, TypeOK, CertFile
  <2> QED BY <1>14, <2>1, <2>2 DEF TypeOK, RemoveCert
<1>15. ASSUME NEW p \in to_erase, RemoveFails(p) PROVE TypeOK'
  BY <1>15 DEF TypeOK, RemoveFails, Disturb, machine
<1>16. CASE AllRemoved
  BY <1>16 DEF TypeOK, AllRemoved, Goto, Steps, machine, locals
<1>17. CASE WriteTemp
  <2>1. temp_file' \in DbFile
    BY <1>17, ToJson DEF WriteTemp, TypeOK
  <2> QED BY <1>17, <2>1 DEF TypeOK, WriteTemp, Goto, Steps, machine
<1>18. CASE WriteTempShort
  BY <1>18, EmptyFileType DEF TypeOK, WriteTempShort, Goto, Disturb, Steps, machine
<1>19. CASE RenameTemp
  BY <1>19, EmptyFileType DEF TypeOK, RenameTemp, Goto, Steps
<1>20. CASE WriteFails
  BY <1>20, EmptyFileType DEF TypeOK, WriteFails, Goto, Disturb, Steps, machine
<1>21. CASE HookReturns
  BY <1>21, HookEndsType DEF HookReturns
<1>22. CASE ReadFails
  BY <1>22, NoProductsType DEF TypeOK, ReadFails, Goto, Steps, machine
<1> QED
  BY <1>1, <1>2, <1>3, <1>4, <1>5, <1>6, <1>7, <1>8, <1>9, <1>10, <1>11, <1>12, <1>13,
     <1>14, <1>15, <1>16, <1>17, <1>18, <1>19, <1>20, <1>21, <1>22 DEF Hook

LEMMA EnvironmentType == TypeOK /\ Environment => TypeOK'
<1> SUFFICES ASSUME TypeOK, Environment PROVE TypeOK'
  OBVIOUS
<1>1. ASSUME NEW k \in Pkgs, RpmErase(k) PROVE TypeOK'
  BY <1>1 DEF TypeOK, RpmErase, locals, history
<1>2. ASSUME NEW s \in Stems, AdminSetsCert(s) PROVE TypeOK'
  <2>1. product_certs' \in [Stems -> CertFile]
    BY <1>2 DEF AdminSetsCert, TypeOK, CertFile
  <2> QED BY <1>2, <2>1 DEF TypeOK, AdminSetsCert, Disturb, locals
<1>3. ASSUME NEW s \in Stems, AdminSetsDefaultCert(s) PROVE TypeOK'
  BY <1>3 DEF TypeOK, AdminSetsDefaultCert, Disturb, locals
<1>4. CASE LoseDb
  BY <1>4, EmptyFileType DEF TypeOK, LoseDb, Disturb, locals
<1>5. CASE Crash
  BY <1>5, HookEndsType DEF Crash
<1> QED BY <1>1, <1>2, <1>3, <1>4, <1>5 DEF Environment

LEMMA StutterType == TypeOK /\ UNCHANGED vars => TypeOK'
BY DEF TypeOK, vars, machine, locals, history

(***************************************************************************)
(* Every variable keeps its type; in particular the maps never hold        *)
(* anything but product IDs, which read_product_db and the scan of the     *)
(* directories take from outside.                                          *)
(***************************************************************************)
THEOREM TypeCorrect == Spec => []TypeOK
<1>1. TypeOK /\ [Next]_vars => TypeOK'
  BY TransactionType, HookType, EnvironmentType, StutterType DEF Next
<1> QED BY <1>1, InitType, PTL DEF Spec

=============================================================================
