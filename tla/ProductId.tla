------------------------------ MODULE ProductId ------------------------------
(***************************************************************************)
(* The productid plugin: what its post_transaction hook does to the        *)
(* product certificates and to productid.json after a dnf transaction,     *)
(* step by step, and what the rest of the system may do in between.        *)
(*                                                                         *)
(* A step is a stretch of post_transaction_hook that touches one file or   *)
(* asks libdnf5 one question, so that a crash, an administrator or the rpm *)
(* command may come between any two of them.                               *)
(***************************************************************************)
EXTENDS ProductDb, Naturals, FiniteSets

CONSTANTS
  Pkgs,      \* names of RPM packages
  NoRepo,    \* "repository" of a package that is not installed
  Stems,     \* names of certificate files without .pem; the numeric ones are Products
  CertsOf,   \* CertsOf[r]: the product IDs repository r may carry a certificate for
  Faults     \* the kinds of faults that can occur, a subset of FaultKinds

(***************************************************************************)
(* "setup", "read", "install", "remove", "write": a file system call fails *)
(* and the code sees it; "read" is about a productid.json that is intact.  *)
(* "short_write": a file is cut short and nobody notices, because neither  *)
(* the state of the stream of productid.json nor the outcome of closing a  *)
(* certificate is looked at.  "metadata": the productid metadata of a      *)
(* repository is not there or cannot be decoded.  "crash": the process     *)
(* ends in the middle of the hook, killed or by an exception that nothing  *)
(* catches.  "admin": certificates are added or removed by hand.           *)
(* "db_lost": productid.json is removed or damaged.                        *)
(***************************************************************************)
FaultKinds == {"setup", "read", "install", "remove", "write", "short_write",
               "metadata", "crash", "admin", "db_lost"}

ASSUME ProductIdAssumption ==
  /\ Products \subseteq Stems
  /\ NoRepo \notin Repos
  /\ CertsOf \in [Repos -> SUBSET Products]
  /\ Faults \subseteq FaultKinds

VARIABLES
  \* the state of the machine
  rpmdb,            \* rpmdb[k]: the repository package k was installed from
  product_certs,    \* product_certs[s]: /etc/pki/product/s.pem, see CertFile
  default_certs,    \* the stems of the files in /etc/pki/product-default
  cert_dir_exists,  \* does /etc/pki/product exist?
  productdb_dir,    \* /var/lib/rhsm, see DirState
  db_file,          \* /var/lib/rhsm/productid.json
  \* the state of the running hook; all of it is lost when the hook ends
  pc,                 \* the next step of the hook, "idle" when none runs
  before,             \* repositories with installed RPMs before the transaction
  enabled,            \* the enabled repositories
  transaction_repos,  \* repositories of the packages the transaction brings in
  products,           \* product_db.products
  todo,               \* transaction repositories still to be processed
  current,            \* <<repository, product>> whose certificate is being written
  active_repos,       \* the local variable of that name
  to_erase,           \* products whose certificate is still to be removed
  temp_file,          \* the temporary file of write_product_db
  \* history
  clean,              \* nothing has failed or interfered since the hook began
  unread              \* the hook could not read a productid.json that is there

machine == <<rpmdb, product_certs, default_certs, cert_dir_exists,
             productdb_dir, db_file>>
locals  == <<before, enabled, transaction_repos, products, todo, current,
             active_repos, to_erase, temp_file>>
history == <<clean, unread>>
vars    == <<machine, pc, locals, history>>

(***************************************************************************)
(* A certificate file is absent, complete, or cut short: it is opened with *)
(* "w", which truncates it, and written afterwards.                        *)
(***************************************************************************)
CertFile == {"none", "partial", "complete"}

(***************************************************************************)
(* The directory of productid.json is absent; made by somebody else, with  *)
(* permissions the plugin does not look at; or made by the plugin, before  *)
(* and after it has been closed to other users.                            *)
(***************************************************************************)
DirState == {"absent", "found", "unrestricted", "restricted"}

Steps == {"idle", "setup_db_dir", "restrict_db_dir", "setup_cert_dir", "read",
          "scan", "repos", "write_cert", "prune", "erase", "dump", "rename",
          "done"}

TypeOK ==
  /\ rpmdb \in [Pkgs -> Repos \cup {NoRepo}]
  /\ product_certs \in [Stems -> CertFile]
  /\ default_certs \in SUBSET Stems
  /\ cert_dir_exists \in BOOLEAN
  /\ productdb_dir \in DirState
  /\ db_file \in DbFile
  /\ pc \in Steps
  /\ before \in SUBSET Repos
  /\ enabled \in SUBSET Repos
  /\ transaction_repos \in SUBSET Repos
  /\ products \in ProductMap
  /\ todo \in SUBSET Repos
  /\ current \in (Repos \X Products) \cup {<<>>}
  /\ active_repos \in SUBSET Repos
  /\ to_erase \in SUBSET Products
  /\ temp_file \in DbFile
  /\ clean \in BOOLEAN
  /\ unread \in BOOLEAN

\* The stems of the certificates that are there, whatever they contain.
ProductCerts == {s \in Stems : product_certs[s] # "none"}

\* Is a certificate of product p in one of the two directories?
OnDisk(p) == p \in ProductCerts \/ p \in default_certs

\* The repositories that have an RPM installed at this moment.
InUse == Range(rpmdb) \ {NoRepo}

-----------------------------------------------------------------------------
(***************************************************************************)
(* The functions the hook is built from.                                   *)
(***************************************************************************)

\* Mutant: files with names that are not numbers are not skipped.
process_installed_any_name(db, stems, path) ==
  [p \in DOMAIN db \cup stems |->
     IF p \in DOMAIN db THEN db[p] ELSE NewProductRecord(path, TRUE)]

(***************************************************************************)
(* process_installed_product_certificates for the files of one directory:  *)
(* files whose name is not a number are skipped, and so are products that  *)
(* already have a record.                                                  *)
(***************************************************************************)
process_installed(db, stems, path) ==
  LET new == (stems \cap Products) \ DOMAIN db
  IN  [p \in DOMAIN db \cup new |->
         IF p \in DOMAIN db THEN db[p] ELSE NewProductRecord(path, TRUE)]

\* /etc/pki/product-default is read first, then /etc/pki/product.
process_all_installed(db, inDefault, inProduct) ==
  process_installed(process_installed(db, inDefault, "product-default"),
                    inProduct, "product")

\* Mutant: the repositories of the transaction are not added.
active_repos_installed_only(installed, brought_in, enabled_repos) == installed

\* Mutant: a repository that has been disabled does not count.
active_repos_enabled_only(installed, brought_in, enabled_repos) ==
  (installed \cap enabled_repos) \cup brought_in

(***************************************************************************)
(* The repositories counted as active: those of the packages libdnf5       *)
(* reports as installed, and those of the transaction.                     *)
(***************************************************************************)
all_active_repos(installed, brought_in, enabled_repos) == installed \cup brought_in

\* Mutant: repositories are only ever added to a record.
keep_inactive_repositories(db, active) == db

remove_inactive_repositories(db, active) ==
  [p \in DOMAIN db |->
     [repos |-> db[p].repos \cap active, path |-> db[p].path]]

\* Mutant: default certificates are not excepted.
inactive_products_and_defaults(db) == {p \in DOMAIN db : db[p].repos = {}}

(***************************************************************************)
(* remove_inactive_product_certificates, first loop: the products without  *)
(* a repository, except those whose certificate is a default one.          *)
(***************************************************************************)
inactive_products(db) ==
  {p \in DOMAIN db : db[p].repos = {} /\ db[p].path # "product-default"}

-----------------------------------------------------------------------------
NoHook ==
  /\ pc = "idle"
  /\ before = {} /\ enabled = {} /\ transaction_repos = {}
  /\ products = NoProducts
  /\ todo = {} /\ current = <<>>
  /\ active_repos = {} /\ to_erase = {}
  /\ temp_file = MissingFile
  /\ clean = TRUE /\ unread = FALSE

(***************************************************************************)
(* The plugin's first run on a machine whose RPMs and certificates it has  *)
(* all managed itself: nothing is installed yet, apart from certificates   *)
(* that come with the distribution or that are not product certificates.   *)
(***************************************************************************)
Init ==
  /\ rpmdb = [k \in Pkgs |-> NoRepo]
  /\ product_certs \in [Stems -> {"none", "complete"}]
  /\ ProductCerts \cap Products = {}
  /\ default_certs \in SUBSET Stems
  /\ cert_dir_exists \in BOOLEAN
  /\ ~cert_dir_exists => ProductCerts = {}
  /\ productdb_dir \in {"absent", "found"}
  /\ db_file = MissingFile
  /\ NoHook

-----------------------------------------------------------------------------
(***************************************************************************)
(* The steps of the hook.                                                  *)
(***************************************************************************)
Goto(step) == pc' = step

\* Something went wrong while a hook was running.
Disturb == clean' = (clean /\ pc = "idle") /\ UNCHANGED unread

(***************************************************************************)
(* A dnf transaction has run and libdnf5 calls the hook.  The packages in  *)
(* inbound come from the enabled repositories; an installed package that   *)
(* is inbound again is replaced, one in outbound is removed.  Items that   *)
(* leave the system carry no repository and are passed over, so that       *)
(* get_transaction_repos returns the repositories of the inbound packages. *)
(***************************************************************************)
Transaction ==
  /\ pc = "idle"
  /\ \E en \in SUBSET Repos, inbound \in SUBSET Pkgs :
     \E from \in [inbound -> en],
        outbound \in SUBSET {k \in Pkgs \ inbound : rpmdb[k] # NoRepo} :
       /\ inbound \cup outbound # {}
       /\ rpmdb' = [k \in Pkgs |-> IF k \in inbound THEN from[k]
                                   ELSE IF k \in outbound THEN NoRepo
                                   ELSE rpmdb[k]]
       /\ enabled' = en
       /\ transaction_repos' = Range(from)
  /\ before' = InUse
  /\ Goto("setup_db_dir")
  /\ UNCHANGED <<product_certs, default_certs, cert_dir_exists, productdb_dir,
                 db_file, products, todo, current, active_repos, to_erase,
                 temp_file, history>>

\* setup_filesystem: /var/lib/rhsm is created if it is not there, ...
SetupDbDir ==
  /\ pc = "setup_db_dir"
  /\ IF productdb_dir = "absent"
     THEN productdb_dir' = "unrestricted" /\ Goto("restrict_db_dir")
     ELSE UNCHANGED productdb_dir /\ Goto("setup_cert_dir")
  /\ UNCHANGED <<rpmdb, product_certs, default_certs, cert_dir_exists, db_file,
                 locals, history>>

\* ... and closed to other users, ...
RestrictDbDir ==
  /\ pc = "restrict_db_dir"
  /\ productdb_dir' = "restricted"
  /\ Goto("setup_cert_dir")
  /\ UNCHANGED <<rpmdb, product_certs, default_certs, cert_dir_exists, db_file,
                 locals, history>>

\* ... and then /etc/pki/product is created if it is not there.
SetupCertDir ==
  /\ pc = "setup_cert_dir"
  /\ cert_dir_exists' = TRUE
  /\ Goto("read")
  /\ UNCHANGED <<rpmdb, product_certs, default_certs, productdb_dir, db_file,
                 locals, history>>

(***************************************************************************)
(* read_product_db; when it throws, the hook goes on with an empty map.    *)
(***************************************************************************)
ReadProductDb ==
  /\ pc = "read"
  /\ products' = read_product_db(db_file, ProductCerts, default_certs)
  /\ Goto("scan")
  /\ UNCHANGED <<machine, before, enabled, transaction_repos, todo, current,
                 active_repos, to_erase, temp_file, history>>

(***************************************************************************)
(* The file is as it was written, but it cannot be opened, or reading it   *)
(* ends early and what has been read does not parse.  The hook goes on     *)
(* with an empty map in this case, too.                                    *)
(***************************************************************************)
ReadFails ==
  /\ pc = "read"
  /\ "read" \in Faults
  /\ db_file.kind # "missing"
  /\ products' = NoProducts
  /\ clean' = FALSE /\ unread' = TRUE
  /\ Goto("scan")
  /\ UNCHANGED <<machine, before, enabled, transaction_repos, todo, current,
                 active_repos, to_erase, temp_file>>

\* process_all_installed_product_certificates, and the loop below begins.
ScanCerts ==
  /\ pc = "scan"
  /\ products' = process_all_installed(products, default_certs, ProductCerts)
  /\ todo' = transaction_repos
  /\ Goto("repos")
  /\ UNCHANGED <<machine, before, enabled, transaction_repos, current,
                 active_repos, to_erase, temp_file, history>>

(***************************************************************************)
(* One repository of the transaction, with productid metadata for product  *)
(* p.  The loop visits the repositories in the order of their IDs, which   *)
(* the model leaves open.                                                  *)
(***************************************************************************)

\* The product has a record: only the repository is assigned to it.
KnownProduct(r, p) ==
  /\ pc = "repos" /\ r \in todo /\ p \in CertsOf[r]
  /\ has_product_id(products, p)
  /\ products' = add_repo_id(products, p, r)
  /\ todo' = todo \ {r}
  /\ UNCHANGED <<machine, pc, before, enabled, transaction_repos, current,
                 active_repos, to_erase, temp_file, history>>

\* install_product_certificate: the certificate file is opened for writing.
OpenCert(r, p) ==
  /\ pc = "repos" /\ r \in todo /\ p \in CertsOf[r]
  /\ ~has_product_id(products, p)
  /\ product_certs' = [product_certs EXCEPT ![p] = "partial"]
  /\ current' = <<r, p>>
  /\ Goto("write_cert")
  /\ UNCHANGED <<rpmdb, default_certs, cert_dir_exists, productdb_dir, db_file,
                 before, enabled, transaction_repos, products, todo,
                 active_repos, to_erase, temp_file, history>>

(***************************************************************************)
(* The certificate is written, the product recorded, the repository        *)
(* assigned.  If the file has been removed meanwhile, the write succeeds   *)
(* all the same and the record says that the product is not installed.     *)
(***************************************************************************)
WriteCertAs(r, p, state) ==
  /\ pc = "write_cert" /\ current = <<r, p>>
  /\ LET exists == p \in ProductCerts
         record == NewProductRecord("product", exists)
     IN  /\ product_certs' = [product_certs EXCEPT ![p] =
                                IF exists THEN state ELSE "none"]
         /\ products' = add_repo_id(add_product_id(products, p, record), p, r)
  /\ todo' = todo \ {r}
  /\ current' = <<>>
  /\ Goto("repos")
  /\ UNCHANGED <<rpmdb, default_certs, cert_dir_exists, productdb_dir, db_file,
                 before, enabled, transaction_repos, active_repos, to_erase,
                 temp_file>>

WriteCert(r, p) == WriteCertAs(r, p, "complete") /\ UNCHANGED history

\* What is left in the buffer cannot be written when the File is closed, which
\* its destructor does not tell; the hook goes on as if all were well.
WriteCertShort(r, p) ==
  "short_write" \in Faults /\ WriteCertAs(r, p, "partial") /\ Disturb

\* Mutant: a repository whose certificate could not be installed is retried.
InstallRetried(r, p) ==
  /\ "install" \in Faults
  /\ \/ /\ pc = "repos" /\ r \in todo /\ p \in CertsOf[r]
        /\ ~has_product_id(products, p)
     \/ pc = "write_cert" /\ current = <<r, p>>
  /\ todo' = todo
  /\ current' = <<>>
  /\ Goto("repos")
  /\ Disturb
  /\ UNCHANGED <<machine, before, enabled, transaction_repos, products,
                 active_repos, to_erase, temp_file>>

(***************************************************************************)
(* install_product_certificate fails, on opening the file or on writing    *)
(* it; what has been written stays, and the loop goes on.                  *)
(***************************************************************************)
InstallFails(r, p) ==
  /\ "install" \in Faults
  /\ \/ /\ pc = "repos" /\ r \in todo /\ p \in CertsOf[r]
        /\ ~has_product_id(products, p)
     \/ pc = "write_cert" /\ current = <<r, p>>
  /\ todo' = todo \ {r}
  /\ current' = <<>>
  /\ Goto("repos")
  /\ Disturb
  /\ UNCHANGED <<machine, before, enabled, transaction_repos, products,
                 active_repos, to_erase, temp_file>>

(***************************************************************************)
(* The repository has no productid metadata, or it cannot be decompressed, *)
(* is empty or carries no product ID.                                      *)
(***************************************************************************)
SkipRepo(r) ==
  /\ pc = "repos" /\ r \in todo
  /\ CertsOf[r] = {} \/ "metadata" \in Faults
  /\ todo' = todo \ {r}
  /\ clean' = (clean /\ CertsOf[r] = {})
  /\ UNCHANGED <<machine, pc, before, enabled, transaction_repos, products,
                 current, active_repos, to_erase, temp_file, unread>>

(***************************************************************************)
(* get_active_repos asks libdnf5 for the installed packages; the           *)
(* repositories of the transaction are added.  libdnf5 may still list the  *)
(* packages it loaded before the transaction, and look up their            *)
(* repositories at any time since, so that all its answer is sure to name  *)
(* is the repositories in use that the transaction has not brought in.     *)
(* What libdnf5 knows besides is not asked for any more.                   *)
(***************************************************************************)
GetActiveRepos ==
  /\ pc = "repos" /\ todo = {}
  /\ \E installed \in SUBSET (before \cup InUse) :
       /\ InUse \ transaction_repos \subseteq installed
       /\ active_repos' = all_active_repos(installed, transaction_repos, enabled)
  /\ before' = {} /\ enabled' = {}
  /\ Goto("prune")
  /\ UNCHANGED <<machine, transaction_repos, products, todo, current, to_erase,
                 temp_file, history>>

(***************************************************************************)
(* remove_inactive_repositories_from_product_db, and the first loop of     *)
(* remove_inactive_product_certificates.                                   *)
(***************************************************************************)
RemoveInactiveRepos ==
  /\ pc = "prune"
  /\ products' = remove_inactive_repositories(products, active_repos)
  /\ to_erase' = inactive_products(products')
  /\ Goto("erase")
  /\ UNCHANGED <<machine, before, enabled, transaction_repos, todo, current,
                 active_repos, temp_file, history>>

(***************************************************************************)
(* The second loop.  Removing the path "", or a file that is no longer     *)
(* there, is not an error.                                                 *)
(***************************************************************************)
RemoveCert(p) ==
  /\ pc = "erase" /\ p \in to_erase
  /\ product_certs' = IF products[p].path = "product"
                      THEN [product_certs EXCEPT ![p] = "none"]
                      ELSE product_certs
  /\ default_certs' = IF products[p].path = "product-default"
                      THEN default_certs \ {p} ELSE default_certs
  /\ products' = remove_product_id(products, p)
  /\ to_erase' = to_erase \ {p}
  /\ UNCHANGED <<rpmdb, cert_dir_exists, productdb_dir, db_file, pc, before,
                 enabled, transaction_repos, todo, current, active_repos,
                 temp_file, history>>

RemoveFails(p) ==
  /\ pc = "erase" /\ p \in to_erase
  /\ "remove" \in Faults
  /\ to_erase' = to_erase \ {p}
  /\ Disturb
  /\ UNCHANGED <<machine, pc, before, enabled, transaction_repos, products,
                 todo, current, active_repos, temp_file>>

AllRemoved ==
  /\ pc = "erase" /\ to_erase = {}
  /\ Goto("dump")
  /\ UNCHANGED <<machine, locals, history>>

(***************************************************************************)
(* write_product_db: the document is written to a temporary file, ...      *)
(***************************************************************************)
WriteTemp ==
  /\ pc = "dump"
  /\ temp_file' = to_json(products)
  /\ Goto("rename")
  /\ UNCHANGED <<machine, before, enabled, transaction_repos, products, todo,
                 current, active_repos, to_erase, history>>

\* ... or only a part of it is, which goes unnoticed, ...
WriteTempShort ==
  /\ pc = "dump"
  /\ "short_write" \in Faults
  /\ temp_file' = MalformedFile
  /\ Goto("rename")
  /\ Disturb
  /\ UNCHANGED <<machine, before, enabled, transaction_repos, products, todo,
                 current, active_repos, to_erase>>

\* ... and the temporary file replaces productid.json.
RenameTemp ==
  /\ pc = "rename"
  /\ db_file' = temp_file
  /\ temp_file' = MissingFile
  /\ Goto("done")
  /\ UNCHANGED <<rpmdb, product_certs, default_certs, cert_dir_exists,
                 productdb_dir, before, enabled, transaction_repos, products,
                 todo, current, active_repos, to_erase, history>>

(***************************************************************************)
(* The temporary file cannot be created or opened, or it cannot be renamed *)
(* and ~TempFile deletes it.                                               *)
(***************************************************************************)
WriteFails ==
  /\ pc \in {"dump", "rename"}
  /\ "write" \in Faults
  /\ temp_file' = MissingFile
  /\ Goto("done")
  /\ Disturb
  /\ UNCHANGED <<machine, before, enabled, transaction_repos, products, todo,
                 current, active_repos, to_erase>>

\* The hook ends, and what it held in memory is gone.
HookEnds ==
  /\ UNCHANGED machine
  /\ Goto("idle")
  /\ before' = {} /\ enabled' = {} /\ transaction_repos' = {}
  /\ products' = NoProducts
  /\ todo' = {} /\ current' = <<>>
  /\ active_repos' = {} /\ to_erase' = {}
  /\ temp_file' = MissingFile
  /\ clean' = TRUE /\ unread' = FALSE

HookReturns == pc = "done" /\ HookEnds

\* setup_filesystem fails where it has something to do; the hook gives up.
SetupFails ==
  /\ "setup" \in Faults
  /\ \/ pc = "setup_db_dir" /\ productdb_dir = "absent"
     \/ pc = "restrict_db_dir"
     \/ pc = "setup_cert_dir" /\ ~cert_dir_exists
  /\ HookEnds

Hook ==
  \/ SetupDbDir \/ RestrictDbDir \/ SetupCertDir \/ SetupFails
  \/ ReadProductDb \/ ReadFails \/ ScanCerts
  \/ \E r \in Repos : SkipRepo(r)
  \/ \E r \in Repos, p \in Products :
       \/ KnownProduct(r, p) \/ OpenCert(r, p) \/ InstallFails(r, p)
       \/ WriteCert(r, p) \/ WriteCertShort(r, p)
  \/ GetActiveRepos \/ RemoveInactiveRepos
  \/ \E p \in to_erase : RemoveCert(p) \/ RemoveFails(p)
  \/ AllRemoved \/ WriteTemp \/ WriteTempShort \/ RenameTemp \/ WriteFails
  \/ HookReturns

-----------------------------------------------------------------------------
(***************************************************************************)
(* What else can happen, at any time.                                      *)
(***************************************************************************)

\* The rpm command removes a package; no plugin is told.
RpmErase(k) ==
  /\ rpmdb[k] # NoRepo
  /\ rpmdb' = [rpmdb EXCEPT ![k] = NoRepo]
  /\ UNCHANGED <<product_certs, default_certs, cert_dir_exists, productdb_dir,
                 db_file, pc, locals, history>>

\* A certificate is added to, or removed from, /etc/pki/product by hand ...
AdminSetsCert(s) ==
  /\ "admin" \in Faults
  /\ \E state \in {"none", "complete"} :
       /\ product_certs[s] # state
       /\ product_certs' = [product_certs EXCEPT ![s] = state]
  /\ cert_dir_exists' = TRUE
  /\ Disturb
  /\ UNCHANGED <<rpmdb, default_certs, productdb_dir, db_file, pc, locals>>

\* ... or /etc/pki/product-default.
AdminSetsDefaultCert(s) ==
  /\ "admin" \in Faults
  /\ default_certs' = IF s \in default_certs THEN default_certs \ {s}
                      ELSE default_certs \cup {s}
  /\ Disturb
  /\ UNCHANGED <<rpmdb, product_certs, cert_dir_exists, productdb_dir, db_file,
                 pc, locals>>

LoseDb ==
  /\ "db_lost" \in Faults
  /\ \E file \in {MissingFile, MalformedFile} : db_file # file /\ db_file' = file
  /\ Disturb
  /\ UNCHANGED <<rpmdb, product_certs, default_certs, cert_dir_exists,
                 productdb_dir, pc, locals>>

\* The process ends; a temporary file may be left behind, which nobody reads.
Crash ==
  /\ "crash" \in Faults
  /\ pc # "idle"
  /\ HookEnds

Environment ==
  \/ \E k \in Pkgs : RpmErase(k)
  \/ \E s \in Stems : AdminSetsCert(s) \/ AdminSetsDefaultCert(s)
  \/ LoseDb
  \/ Crash

Next == Transaction \/ Hook \/ Environment

Spec == Init /\ [][Next]_vars

(***************************************************************************)
(* The hook is a sequential function whose loops run over finite maps, so  *)
(* a process that is not killed executes its next step.  Nobody has to     *)
(* start another transaction.                                              *)
(***************************************************************************)
FairSpec == Spec /\ WF_vars(Hook)

-----------------------------------------------------------------------------
(***************************************************************************)
(* Properties that hold.                                                   *)
(***************************************************************************)

\* The repositories productid.json assigns to product p.
RecordedRepos(p) == IF p \in DOMAIN db_file.data THEN db_file.data[p] ELSE {}

\* In this step the hook deletes the certificate of p from /etc/pki/product.
HookErases(p) ==
  /\ pc = "erase" /\ p \in to_erase \ to_erase'
  /\ product_certs[p] # "none" /\ product_certs'[p] = "none"

(***************************************************************************)
(* Whatever else fails or interferes, a hook that could read productid.json*)
(* never deletes the certificate of a product that the file assigns to a   *)
(* repository with an installed RPM (post_transaction_hook: the active     *)
(* repositories include those of the transaction, even if libdnf5 answers  *)
(* with outdated packages).  A hook that could not read it does; what it   *)
(* leaves behind binds the next hook again.                                *)
(***************************************************************************)
NoCertLost ==
  [][\A p \in Products : HookErases(p) =>
       unread \/ RecordedRepos(p) \cap InUse = {}]_vars

(***************************************************************************)
(* The hook touches no certificate that is not its business: none in       *)
(* /etc/pki/product-default, and none whose name is not a product ID       *)
(* (remove_inactive_product_certificates, process_installed_product_       *)
(* certificates).                                                          *)
(***************************************************************************)
ProtectedUntouched ==
  [][\/ default_certs' # default_certs
     \/ \E s \in Stems \ Products : product_certs'[s] # product_certs[s]
     => ~Hook]_vars

(***************************************************************************)
(* When a hook gets through undisturbed, whatever state earlier hooks left *)
(* behind, productid.json and the certificate directories agree: every     *)
(* product in the document has a certificate and only repositories that    *)
(* count as active, and every product certificate in /etc/pki/product is   *)
(* there because the document assigns a repository to it, or because the   *)
(* same product also has a default certificate.                            *)
(***************************************************************************)
CertsAndDbAgree ==
  pc = "done" /\ clean =>
    /\ \A p \in DOMAIN db_file.data : OnDisk(p) /\ RecordedRepos(p) \subseteq active_repos
    /\ \A p \in ProductCerts \cap Products : RecordedRepos(p) # {} \/ p \in default_certs

\* Some product of r is recorded with r and has a certificate on disk.
Covered(r) == \E p \in CertsOf[r] : r \in RecordedRepos(p) /\ OnDisk(p)

(***************************************************************************)
(* On a machine the plugin has managed from the start, and where nothing   *)
(* but the removal of certificates may fail, every repository with an      *)
(* installed RPM and with productid metadata is recorded with a product    *)
(* whose certificate is installed (the two use cases in the comment of     *)
(* post_transaction_hook), no matter how often RPMs are installed,         *)
(* replaced and removed, by dnf or by rpm.                                 *)
(***************************************************************************)
InUseCovered ==
  pc = "idle" => \A r \in InUse : CertsOf[r] # {} => Covered(r)

(***************************************************************************)
(* A hook that has been called returns, whatever fails in it.              *)
(***************************************************************************)
HookTerminates == pc # "idle" ~> pc = "idle"

(***************************************************************************)
(* How many steps a running hook has left, at most: two for a repository   *)
(* of the transaction, one for a certificate to be removed.                *)
(***************************************************************************)
StepsLeft ==
  LET p == Cardinality(Products)
      r == Cardinality(Repos)
  IN  CASE pc = "idle"            -> 0
        [] pc = "done"            -> 1
        [] pc = "rename"          -> 2
        [] pc = "dump"            -> 3
        [] pc = "erase"           -> 4 + Cardinality(to_erase)
        [] pc = "prune"           -> 5 + p
        [] pc = "write_cert"      -> 5 + p + 2 * Cardinality(todo)
        [] pc = "repos"           -> 6 + p + 2 * Cardinality(todo)
        [] pc = "scan"            -> 7 + p + 2 * r
        [] pc = "read"            -> 8 + p + 2 * r
        [] pc = "setup_cert_dir"  -> 9 + p + 2 * r
        [] pc = "restrict_db_dir" -> 10 + p + 2 * r
        [] pc = "setup_db_dir"    -> 11 + p + 2 * r

(***************************************************************************)
(* A hook does not retry what has failed and comes back to nothing: every  *)
(* step of it brings it nearer to its end, by whichever branch and with    *)
(* whatever failure, and nobody else delays it (post_transaction_hook).    *)
(* This bounds the length of a hook, where HookTerminates only says that   *)
(* it ends.                                                                *)
(***************************************************************************)
HookAdvances ==
  [][/\ Hook => StepsLeft' < StepsLeft
     /\ pc # "idle" => StepsLeft' <= StepsLeft]_vars

(***************************************************************************)
(* A repository whose last RPM is gone for good is dropped from            *)
(* productid.json, and stays out of it, if undisturbed hooks keep running. *)
(* The hook right after the removal may keep it; no later one does.        *)
(***************************************************************************)
StaleRepoForgotten ==
  \A r \in Repos :
    <>[](r \notin InUse) /\ []<>(pc = "done" /\ clean)
      => <>[](\A p \in Products : r \notin RecordedRepos(p))

\* In this step nothing fails, and nobody changes what is not his.
NothingGoesWrong ==
  /\ clean'
  /\ pc # "idle" /\ pc' = "idle" => pc = "done"
  /\ pc = "idle" /\ pc' = "idle" => UNCHANGED <<product_certs, default_certs, db_file>>

(***************************************************************************)
(* Once crashes and failures have stopped, and nobody changes files by     *)
(* hand any more, the plugin recovers from what they left behind: a        *)
(* repository that stays in use is covered again, for good, if             *)
(* transactions keep bringing in its packages.  One is not enough:         *)
(* has_product_id is true of a record whose certificate is gone, and it    *)
(* takes one hook for to_json to drop that record and another one to       *)
(* install the certificate.                                                *)
(***************************************************************************)
RecoversEventually ==
  \A r \in Repos :
    CertsOf[r] # {} /\ <>[](r \in InUse)
      /\ <>[][NothingGoesWrong]_vars
      /\ []<>(pc = "done" /\ r \in transaction_repos)
    => <>[]Covered(r)

-----------------------------------------------------------------------------
(***************************************************************************)
(* What the documentation, a comment or a test says, and the code keeps    *)
(* only as long as certain things do not fail.                             *)
(***************************************************************************)

(***************************************************************************)
(* productid/README.md: a certificate is removed "because the system does  *)
(* not consume any RPM from the given product".                            *)
(***************************************************************************)
RemovedOnlyWhenUnused ==
  [][\A p \in Products : HookErases(p) =>
       \A r \in InUse : CertsOf[r] # {p}]_vars

(***************************************************************************)
(* The document that write_product_db renames to productid.json is one     *)
(* that read_product_db accepts (the test WriteAndReadDb).                 *)
(***************************************************************************)
WrittenDbReadable == pc = "rename" => temp_file.kind = "object"

(***************************************************************************)
(* productid/README.md: the plugin verifies the integrity of certificates, *)
(* so that what is installed and recorded is a whole certificate.          *)
(***************************************************************************)
RecordedCertComplete ==
  pc = "done" /\ clean =>
    \A p \in DOMAIN db_file.data : product_certs[p] # "partial"

(***************************************************************************)
(* setup_filesystem: other users should not be able to read a /var/lib/rhsm*)
(* that the plugin has created, when the hook goes on to use it.  One that *)
(* is there already is used with the permissions it has.                   *)
(***************************************************************************)
DbDirRestricted ==
  pc \notin {"idle", "setup_db_dir", "restrict_db_dir"} =>
    productdb_dir \in {"found", "restricted"}

=============================================================================
