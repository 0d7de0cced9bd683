# A TLA+ model of rhsm-dnf5-plugins

The repository holds two plugins of the dnf5 package manager.  `productid`
keeps the product certificates in `/etc/pki/product` in step with the RPMs that
are installed; `rhsm` prints warnings about the subscription of the system.
This directory models them in TLA+, checks the models with TLC on small
instances, and proves the most important properties with TLAPS for every
instance.

## The system

### Components

| component | source | state | operations |
|---|---|---|---|
| product database | `productid/productdb.{hpp,cpp}` | a map from product IDs to records (repositories, path of the certificate); the file `/var/lib/rhsm/productid.json` | add, remove and look up a record, assign a repository, to and from JSON, read and replace the file |
| `post_transaction` hook of productid | `productid/productid.cpp` | `/etc/pki/product`, `/etc/pki/product-default`; its local variables | `setup_filesystem`, scan of the certificates, processing of the repositories of the transaction, removal of what is inactive, writing of the database |
| `repos_configured` hook of productid | `productid/productid.cpp` | libdnf5's option `optional_metadata_types` | asks for `productid` metadata |
| certificate decoding | `productid/utils.{hpp,cpp}` | none | decompression, parsing of the certificate, search of the product ID in its extensions |
| rhsm plugin | `rhsm/rhsm.cpp`, `rhsm/rhsm_utils.{hpp,cpp}` | none of its own; reads `/etc/pki/consumer`, `/etc/pki/entitlement`, `/etc/rhsm-host`, the release version | warnings about registration, missing and expired entitlements |
| plugin glue | both `.cpp` files | none | version, attributes, C entry points |

### Interaction

libdnf5 calls the hooks, one after the other, in the process that runs dnf:
`post_base_setup` (rhsm) when the base is set up, `repos_configured` (productid)
before the repositories are loaded, `post_transaction` (productid) after an RPM
transaction.  The hooks share no memory.  `post_transaction` takes the
repositories and packages of the transaction and their downloaded metadata from
libdnf5, and works on files that outlive it: the certificates and
`productid.json`.  So do an administrator, the `rpm` command (which calls no
plugin) and packages that ship certificates.

### What is hard

There are no threads in this code; what is hard is that each hook is a long
sequence of file accesses, during which other processes change the files, and
that the result of one `post_transaction` hook is the input of the next one.

* The hook reads `productid.json`, scans two directories, asks libdnf5 for the
  installed packages, removes certificates and replaces `productid.json`.
  RPMs and certificates may change between any two of these steps.
* Any file access may fail.  The hook logs most failures and goes on, so that
  what it has left undone must be made up for by later hooks.
* The process may be killed, or end with an exception that nobody catches,
  between any two steps.
* libdnf5 may answer the query for installed packages with those it loaded
  before the transaction.
* A certificate is removed when its product has no repository left in the map
  in memory, so every repository that an RPM is installed from must be in it:
  read from the file, or brought in by the transaction.

* The rhsm hook looks at the same directories up to three times: is there such a
  directory, what is in it, what does each file say.  `subscription-manager` may
  register or unregister the system, or renew its certificates, between any two
  looks, and time passes.  What one look has found decides which checks follow.
* The product ID is cut out of a text of limited length, and any certificate can
  come from a repository.
* Which metadata are there for `post_transaction` is decided by `repos_configured`
  much earlier, together with the configuration and the dnf command.

`PROJECT.json` lists these hazards with their lines and the properties that are
about them.

### What makes each component correct

* *Product database*: what is written can be read again; a record is in the file
  exactly if its certificate is installed.
* *post_transaction*: no certificate that is needed is removed, none that is not
  the plugin's business is touched, every repository in use that has productid
  metadata has its product recorded and its certificate installed, a repository
  that is not used any more is forgotten, failures are repaired by later hooks,
  and the hook returns.
* *repos_configured*: the `productid` metadata of every repository of a transaction
  are there when `post_transaction` looks for them.
* *Decoding*: the product ID is the number behind the OID prefix of Red Hat's
  product certificates, that of the first extension about a product; a certificate
  without one is refused, and no other is.
* *rhsm*: everything the user is told was true at some moment of the hook,
  everything that was true throughout is told, and the hook fails for no state of
  the machine.

## Modules

| module | what it is |
|---|---|
| `ProductDb` | the product database as operators: no variables, an operation returns the new map |
| `ProductId` | the `post_transaction` hook, the machine it works on, and what else happens there; the properties |
| `MCProductId` | the values of the constants for TLC |
| `ProductCerts` | the abstract specification: what the productid plugin promises |
| `ProductIdRefinement` | `ProductId` implements `ProductCerts`: the refinement mapping |
| `ProductCert` | how one product ID is found in the metadata of one repository |
| `Libdnf5Session` | one run of dnf: the hooks in their order, the metadata that are downloaded, and the decoding of `ProductCert` for each repository of the transaction |
| `MCLibdnf5Session` | the values of the constants for TLC |
| `Rhsm` | the `post_base_setup` hook of rhsm, the machine it looks at, and what changes there; the properties |
| `MCRhsm` | the values of the constants for TLC |
| `ProductIdProofs` | lemmas about the operators; what is written is what is read; type correctness of `ProductId` |
| `ProductIdSafetyProofs` | what the hook never does to a certificate, and how many steps it takes; the directory and the certificates are as they should be unless their own steps fail |
| `ProductIdCoverageProofs` | every repository in use is covered, no certificate in use is removed, and what is written can be read |
| `ProductIdAgreementProofs` | certificates and `productid.json` agree after an undisturbed hook |
| `ProductIdRefinementProofs` | the hook keeps the promise of `ProductCerts` |
| `ProductCertProofs` | the search in the text of an OID finds what it should |
| `Libdnf5SessionProofs` | what is offered is found, through all hooks of a run of dnf |
| `RhsmProofs` | what the rhsm hook says is justified, complete, and said without failing; type correctness of `Rhsm` |

`ProductId` and `Libdnf5Session` overlap in the loop over the repositories of a
transaction: `Libdnf5Session` looks at where a product ID comes from, `ProductId` at
what is done with it.  The outcomes of the former - no product, or one of the
products that the repository's certificates are about - are the inputs of the
latter, `SkipRepo` and `CertsOf`.

### State of ProductId

The variables of `ProductId` fall into three groups.

* *The machine*: `rpmdb` gives the repository each package was installed from;
  `product_certs` the state of each file in `/etc/pki/product` (absent, cut
  short, complete), `default_certs` the files in `/etc/pki/product-default`;
  `cert_dir_exists` and `productdb_dir` the two directories `setup_filesystem`
  creates if they are not there; `db_file` the file `productid.json`.  They survive
  a hook and a crash.  `/var/lib/rhsm` is absent, found (somebody else has made it,
  with permissions the plugin does not look at), or made by the plugin, before and
  after it has been closed to other users (unrestricted, restricted).
* *The hook*: `pc` is its next step, and the others are its local variables:
  `products` is `product_db.products`, `active_repos` has its name from the code,
  `todo` and `to_erase` are the loops' remaining work, `temp_file` is what
  `write_product_db` has written so far.  `before`, `enabled` and
  `transaction_repos` are what libdnf5 knows of the transaction.  All of them are
  lost when the hook ends, however it ends (`HookEnds`).
* *History*: `clean` says that nothing has failed or interfered since the hook
  began, `unread` that the hook could not read a `productid.json` that is there and
  intact.  No action looks at them; properties do.

A file of `/etc/pki/product` is known by its stem.  The numeric stems are
`Products`; the others stand for files that the plugin must leave alone.  The path
of a certificate in a record is reduced to the directory it is in.

### Actions of ProductId

| step (`pc`) | actions | code |
|---|---|---|
| `idle` | `Transaction` | libdnf5 runs a transaction and calls the hook |
| `setup_db_dir`, `restrict_db_dir`, `setup_cert_dir` | `SetupDbDir`, `RestrictDbDir`, `SetupCertDir`, `SetupFails` | `setup_filesystem`: the directory is created, then its permissions are set, then the other directory is created; a failure ends the hook |
| `read` | `ReadProductDb`, `ReadFails` | `read_product_db`; an exception leaves the map empty and the hook goes on.  `ReadProductDb` throws for a file that is not there or not a database, `ReadFails` for one that is, but cannot be opened or read |
| `scan` | `ScanCerts` | `process_all_installed_product_certificates` |
| `repos` | `KnownProduct`, `OpenCert`, `InstallFails`, `SkipRepo` | the loop over the repositories of the transaction |
| `write_cert` | `WriteCert`, `WriteCertShort`, `InstallFails` | `install_product_certificate`, after `fopen(.., "w")`.  What is left in the buffer is written when the `File` is closed, and an error there goes unnoticed: in `WriteCertShort` the file is cut short and the hook goes on as in `WriteCert` |
| `repos`, nothing to do | `GetActiveRepos` | `get_active_repos` and the repositories added to it |
| `prune` | `RemoveInactiveRepos` | `remove_inactive_repositories_from_product_db`, first loop of `remove_inactive_product_certificates` |
| `erase` | `RemoveCert`, `RemoveFails`, `AllRemoved` | its second loop |
| `dump`, `rename` | `WriteTemp`, `WriteTempShort`, `RenameTemp`, `WriteFails` | `write_product_db` |
| `done` | `HookReturns` | the end of `post_transaction_hook` |

A step reads or writes one file, or asks libdnf5 one question, with two
exceptions.  `ReadProductDb` reads the file and looks up its certificates, and
`ScanCerts` lists both directories, at one moment each.  A certificate that changes
in between can be taken for a change just before or just after the step, except
for one that moves from one directory to the other meanwhile.

The order of the two loops over repositories and products is left open; in the
code it is the order of a `std::map` or `std::set`.

What other actors do is in `Environment` and may happen at any moment: `RpmErase`
(the rpm command removes a package, or replaces it by one that no repository is
known for; no hook runs), `AdminSetsCert` and
`AdminSetsDefaultCert` (certificates change by hand), `LoseDb`
(`productid.json` is removed or damaged), `Crash`.

The constant `Faults` says which kinds of failures can occur, so that a run or a
theorem can say what it depends on: `setup`, `install`, `remove`, `write`,
`read` (a `productid.json` that is intact cannot be opened or read),
`metadata` (a repository's certificate is missing or cannot be decoded),
`short_write` (the document or a certificate is cut short and nobody notices: the
state of the stream, and the outcome of closing the certificate, are not looked at),
`crash`, `admin` and `db_lost`.  The difference between `read` and `db_lost` is in
what the file says: after `read` it still assigns products to repositories,
although the hook does not know; after `db_lost` it assigns none.

### What libdnf5 answers

`get_active_repos` asks for the installed packages, and then for the repository of
each.  Which packages these are depends on libdnf5: those it loaded before the
transaction, or those that are there now; and the repository of each is looked up
at some moment since.  The model allows every answer that contains only
repositories that had or have an RPM installed, and that contains at least the
repositories in use which the transaction has not brought in.  Nothing stronger is
assumed, so that the properties hold whichever way libdnf5 behaves.

### The promise, and the refinement

`ProductCerts` has four variables: the repositories in use, the repositories the
running hook is for, the products with a certificate on disk, and the repositories
recorded with each product.  Certificates come one at a time and only for a
repository of the transaction (`Install`); they go one at a time and only if no
repository in use is recorded with them (`Remove`); the record is replaced as a
whole, must keep every repository in use whose product has a certificate, and may
add nothing but what the transaction has brought (`Record`).  A hook may end
anywhere (`Finish`).  There are no steps, no map in memory and no files.

The mapping computes the four from `rpmdb`, `transaction_repos`, `product_certs` and
`default_certs`, and `db_file`.  It makes `Transaction` a `Transact`, `RpmErase` a
`StopUsing`, `OpenCert` an `Install` (from then on there is a file), `RemoveCert` a
`Remove`, `RenameTemp` a `Record`, and `HookReturns`, `SetupFails` and `Crash` a
`Finish`; every other step changes nothing the promise can see.

### Rhsm

The machine is `root`, the two directories that make a container (`host_config`,
`host_entitlement`), `/etc/pki/consumer` (`consumer_dir`, `consumer`),
`/etc/pki/entitlement` (`entitlement_dir`, and `entitlements`, which gives each file
its notAfter time or says that it cannot be read), `releasever` and the clock
`now`.  The hook has `pc`, the files its loop has yet to visit (`to_check`),
`expired_names`, and `said`, what the user has been told; the log and the console
carry the same messages.  `once` and `always` are history: the facts behind the
messages that were true at some moment since the hook began, and at every moment;
`removed` remembers that a directory has been removed.

| step (`pc`) | actions | code |
|---|---|---|
| `idle` | `PostBaseSetup` | `print_warnings` up to the test of the user ID |
| `container` | `CheckContainer` | `in_container` |
| `consumer_dir`, `consumer` | `CheckConsumerDir`, `CheckConsumer` | `has_consumer_certificate`: the test of the directory, then the iteration |
| `entitlement_dir`, `entitlement` | `CheckEntitlementDir`, `CheckEntitlement` | `has_entitlement_certificates` |
| `expired_dir`, `scan` | `CheckExpiredDir`, `ScanEntitlements` | `get_expired_entitlements` up to its loop |
| `consumer`, `entitlement`, `scan` | `DirectoryVanished` | the iterator throws |
| `check` | `CheckCert`, `WarningThrows`, `WarnExpired` | the loop with `is_cert_expired`, and `warn_entitlements_expired` |
| `releasever`, `read_releasever` | `FindReleasever`, `ReadReleasever` | `get_releasever`, `log_releasever` |
| `done`, `failed` | `HookReturns` | the hook returns, or its exception has left it |

A step looks at the file system once.  `in_container` looks at two directories in one
step; they are links that are made with the container and do not change.  An
iteration sees the names that are there when it begins: few names come with one
call of the system.  `Environment` is what `subscription-manager`, the
administrator and time do between two steps.  `WarningThrows` rests on libdnf5's
logger: its first argument is a format, and the text of the exception, with the
name of the file in it, is passed as that.

### ProductCert and Libdnf5Session

`Libdnf5Session` follows one run of dnf: `PostBaseSetup`, which may throw; the
command asks for metadata (`Configure`); `repos_configured_hook` sets the option;
`LoadRepos` downloads what is offered and asked for, from the enabled repositories;
`RunTransaction` chooses those of the transaction; and for each of them the loop
of `post_transaction_hook` opens the metadata (`VisitRepo`) and takes the steps of
`ProductCert` (`DecodeMetadata`): `GetMetadataPath`, `Decompress`, `Parse`, then
extension by extension `NextExtension`, `FoundProductId` or `NoneFound`.

An OID is a sequence of numbers, and a number a sequence of digits, because the code
works on the text: `OBJ_obj2txt` cuts it off at the end of the buffer, the prefix
`1.3.6.1.4.1.2312.9.1.` is compared, and the product ID reaches to the next dot.
What all OIDs have in common, `1.3.6.1.4.1.2312.9.`, is left out and subtracted from
the buffer.

## Runs

No action of `ProductId` or `Libdnf5Session` is cut off by a bound: the instances are
finite because the sets of products, repositories, packages and files are.  In
`Rhsm` the clock stops at `MaxTime`.

| run | instance | faults | shows |
|---|---|---|---|
| `managed` | products p1, p2; r1 has carried p1 and p2, r2 carries p1, r3 nothing; two packages | `remove` | `InUseCovered`, `RemovedOnlyWhenUnused`, `WrittenDbReadable` |
| `faults` | product p1 and a file `license.pem`; r1 and r2 carry p1; two packages | all ten | `TypeOK`, `CertsAndDbAgree`, `NoCertLost`, `ProtectedUntouched` |
| `liveness` | product p1; r1 and r2 carry p1; two packages | `install`, `short_write`, `crash`, `admin` | `HookTerminates`, `StaleRepoForgotten`, `RecoversEventually` |
| `refines` | products p1, p2; r1 has carried p1 and p2, r2 carries p1; two packages | all but `read`, `short_write`, `admin` and `db_lost` | `KeepsPromise`, `HookAdvances` |
| `registration` | one consumer certificate, one entitlement certificate and its key, no valid release, two moments | directories and files come and go | `TypeOK`, `WarningsJustified`, `NothingMissed`, `FailsOnlyIfDisturbed` |
| `expired` | two entitlement certificates, one with a brace in its name, no consumer certificate, one release, two moments | the same | `WarningsJustified`, `NothingMissed`, `FailsOnlyIfDisturbed` |
| `session` | two repositories, two types of metadata, all certificates with up to two extensions from twenty OIDs, a buffer of 8 characters | metadata missing, corrupt, empty, not a certificate; the rhsm hook throws | `TypeOK`, `OfferedProductFound`, `FirstProductDecoded` |

The properties, in the words of the code:

* `InUseCovered`: when no hook runs, each repository with an installed RPM and with
  productid metadata is recorded with a product whose certificate is on disk.
* `NoCertLost`: a hook that could read `productid.json` never deletes the certificate
  of a product that the file assigns to a repository with an installed RPM, whatever
  else fails or interferes.  A hook that could not read it does (`unused` below), and
  this is the only exception: the file such a hook leaves behind binds the next one.
* `ProtectedUntouched`: the hook never changes `/etc/pki/product-default`, nor a
  file of `/etc/pki/product` whose name is not a product ID.
* `CertsAndDbAgree`: after a hook that nothing has disturbed, whatever it found,
  each product in the document has a certificate and only active repositories, and
  each product certificate in `/etc/pki/product` has a repository in the document,
  or a default certificate beside it.
* `KeepsPromise`: every step is a step of `ProductCerts` or invisible to it, wherever
  the hook ends and whatever fails of setup, installation, removal, writing and
  metadata.  Each of the four other faults breaks it.
* `RemovedOnlyWhenUnused`: the hook removes no certificate of a product of which RPMs
  are installed, whether `productid.json` says so or not.  Unlike `NoCertLost` it
  depends on the file, so that it holds only where next to nothing fails.
* `WrittenDbReadable`: the hook writes no document that the next one refuses.
* `HookTerminates`: a hook that has been called ends.
* `HookAdvances`: every step of a hook brings it nearer to its end, and nobody else
  delays it, so that a hook takes at most 2 |`Repos`| + |`Products`| + 11 steps.
* `StaleRepoForgotten`: a repository that is not used any more leaves the document
  for good, if undisturbed hooks keep running.
* `RecoversEventually`: when failures stop, a repository that stays in use is
  covered for good, if transactions keep bringing in its RPMs.  Its premise
  (`NothingGoesWrong`) says that from some point on every step keeps `clean`, no hook
  ends but after its last step, and between two hooks nobody changes certificates or
  `productid.json` by hand.  What went wrong before that point may be anything, a
  certificate removed by hand included.  A certificate that is cut short counts as a
  certificate here, as it does in the code (see `partial_cert` below).
* `WarningsJustified`: whatever the user is told, each reason for it was true at some
  moment since the hook began, and no file but a certificate is reported.  The
  reasons of one message need not be true at once: a system that is unregistered
  between the two checks is told that it has no entitlements.
* `NothingMissed`: when the hook returns, every message all of whose reasons were true
  from beginning to end has been said.  Other files that cannot be read, that vanish
  or are renewed hide no expired certificate, and no check hides another.
* `FailsOnlyIfDisturbed`: an exception leaves the rhsm hook only if a directory is
  removed while it runs, or if a certificate with a brace in its name is among those
  it checks.  A directory that is not there makes nothing fail.
* `OfferedProductFound`: a repository of the transaction that offers a certificate
  about a product is not skipped, whatever was configured before and whatever the
  repositories before it had.
* `FirstProductDecoded`: the product ID is the number of the product in the first
  extension about one.  It is compared with the numbers of the OID, not with its text.
  If it were not a number, the next hook would not find the certificate by the name of
  its file.

Why these bounds are enough.  The code treats each product and each repository
by itself; two of them interact only through a product that several repositories
share, a repository that carries several products over time, a certificate that
is in both directories, and a transaction that replaces the last RPM of one
repository by one of another.  Two repositories, two products and two packages
(one to keep, one to replace) give all of these; r3 is a repository without
metadata.  `faults` has one product because its states multiply with each
certificate that an administrator may touch; two repositories of one product are
the case in which a wrong removal could happen.  Three repositories and two
products are checked in `managed`, with fewer faults.

`liveness` has the faults that leave something behind which later hooks must make
up for: a file that is cut short, unnoticed or not, a hook that ends anywhere, a
certificate removed by hand.  All ten at once are more than TLC can check for
liveness in minutes.  The three properties have also been checked with other
faults in their place, up to five at a time, and hold: `read`, `metadata`, `remove`, `write`,
`install`; `setup`, `install`, `db_lost`, `crash`; `admin`, `write`, `remove`; `admin`,
`read`, `metadata`; `install`, `crash`, `admin`, `db_lost`.

The rhsm hook treats every file by itself, but for two questions: is there any, and
does one keep another from being reported.  `registration` has what the first needs, a
certificate and a key, and all the branches of `print_warnings`; `expired` has two
certificates in the loop, one of which can make the warning throw, and the release
after it.  Two moments of
time are one at which a certificate is valid and one at which it has expired.

In `session` the twenty OIDs are those of two namespaces, one of which only begins
like that of the products, with no product, or one of one, two or five digits, and up
to two numbers behind it.  In a buffer of 8 characters - the code has one of 237 -
five digits do not fit with a dot on either side, and two numbers behind a product
of one digit do, so that it matters which dot is taken.  Two extensions
are what it takes to have one passed over before the right one, and to have two
right ones; the search keeps nothing but its position from one to the next.

Symmetry.  `faults` permutes the two packages and the two repositories: with
`SharedProduct` no constant, and no definition, tells one from the other, and the
run checks no liveness.

Deadlock is checked in every run of `ProductId` and `Rhsm`.  There is none: a
transaction can always begin when no hook runs, and a running hook can always take a
step.  A run of dnf ends, so `session` and `additional` do not check it.

### Fairness

`FairSpec` adds `WF_vars(Hook)` and nothing else: the hook is a function that runs
in one thread, its loops go over finite maps, and it waits for nobody, so a process
that is not killed takes the next step.  A crash ends a hook too.  That
transactions occur, or that failures stop, is not assumed of the specification:
it is a premise of the property that needs it.  The premises can be met:
`RecoversEventually` and `StaleRepoForgotten` are violated by the mutants named in
`PROJECT.json`.

### What the code does not keep

Five runs check statements of the documentation, a comment or a test, and find
them violated.  The first four hold as long as certain faults do not occur, and a
theorem says which.  Its hypothesis cannot be weakened: with any one of the faults
it excludes, and no other, TLC finds the property violated (change `Faults` in
the `.cfg` of the run).

* `unused` - `RemovedOnlyWhenUnused`.  A package is installed from r1, which
  records p1 and installs its certificate.  In a later hook `productid.json` is there
  and intact, but it cannot be opened or read.  The hook goes on with an empty map,
  takes p1 up from the directory, without repositories, and removes its certificate,
  if the transaction brings in nothing from a repository of p1: the package is still
  installed, and the file still assigns p1 to r1.  A file that has been lost or
  damaged does the same.  The comment in the code says that a file that cannot be
  read should not be a problem.  Only failures to remove a certificate are harmless
  (`UsedCertsStay`).
* `null_db` - `WrittenDbReadable`.  All recorded products have lost their
  certificates: the document written is `null`, which `read_product_db` refuses.  That
  takes a write that fails or is cut short, a crash, or an administrator who removes
  certificates (`WrittenDbIsReadable`).
* `partial_cert` - `RecordedCertComplete`.  Writing a certificate fails and leaves a
  file that is cut short; the next hook takes it up by its name.  A failure that goes
  unnoticed, because it comes when the file is closed, and a crash at that moment do
  the same, and nothing else does (`RecordedCertsAreWhole`).
* `db_dir` - `DbDirRestricted`.  `/var/lib/rhsm` has been created, but its
  permissions could not be set; the next hook finds the directory and uses it.  Here,
  too, a crash at that moment does the same, and nothing else (`DbDirStaysRestricted`).
  The property asks this only of a directory that the plugin has made.  One that
  somebody else has made is used as it is, readable by others or not.
* `additional` - `TypeIsAdditional`.  `repos_configured` sets the option to `productid`
  alone.  A user or a command that has asked for `filelists` does not get them,
  although the log message speaks of an additional type.

Other disagreements, which the properties above take as the code has them:

* A record whose certificate was removed by hand keeps the certificate from being
  installed by the next transaction; the one after that repairs it
  (`RecoversEventually`).
* A repository that has been disabled is active as long as one of its RPMs is
  installed (`InUseCovered` needs that); the comment of `get_active_repos` says
  "currently enabled".
* A temporary file that is cut short replaces `productid.json` unnoticed, and a
  certificate that is cut short when it is closed counts as installed; both are the
  fault `short_write`.  It violates `WrittenDbReadable`, `RecordedCertComplete` and
  `KeepsPromise`, each on its own.
* A key alone counts as an entitlement certificate when their presence is tested.
* `in_container` asks for `/etc/pki/entitlement-host`; its comment adds that it is not
  empty.
* A certificate counts as expired in the very second of its notAfter time, because
  `X509_cmp_current_time` returns -1 for equal times.
* A directory that is removed between the test for it and the iteration, and a brace
  in the name of an unreadable certificate, make the rhsm hook fail
  (`FailsOnlyIfDisturbed` says when).

## Proofs

Assumptions: `ProductIdAssumption` of `ProductId`, that is, products are names of
certificate files, `NoRepo` is no repository, `CertsOf` is a function from
repositories to sets of products, and `Faults` a set of the kinds listed above;
`RhsmAssumption` of `Rhsm`, that is, keys end like certificates, and the values for a
missing file, a blank line and an unreadable file are none of the others;
`ProductCertAssumption` of `ProductCert`, that is, a certificate is a sequence of
OIDs, an OID is one or more numbers, a number one or more digits, and the size of the
buffer a natural number; and `SessionAssumption` of `Libdnf5Session`.  `HookOnlyAdvances`
assumes that there are finitely many products and repositories, because it counts
them; nothing else assumes a set to be finite.

`TypeCorrect` (`ProductIdProofs`): `Spec => []TypeOK`.  One lemma per operator of
`ProductDb` says what its result is and what it keeps; the maps are functions with
a varying domain, and `ProductMapElim` and `ProductMapIntro` (and the same for
`JsonObject`) take the membership in the union of function sets apart once and for
all.  The later modules cite these lemmas in place of the definitions.

`DbRoundTrip` (`ProductIdProofs`) puts two of them together: `read_product_db` makes of
what `to_json` has made of a map the installed products of that map, with the same
repositories, and with the certificates that are on disk by then.  The document is
refused exactly if the map has products and none of them is installed.

`CertsInUseAreKept` and `ProtectedCertsStay` (`ProductIdSafetyProofs`), for every
set of faults.  Both properties are about one step, the removal of a certificate,
and what makes it right was established several steps earlier.  The inductive
invariant `IInv` carries it there:

* `RecordsKept`: until inactive repositories are pruned, the map of a hook that could
  read `productid.json` has everything that is in it.  It holds although the file may
  be lost meanwhile, because a lost or damaged file has no members
  (`OnlyObjectsHaveMembers`).
* `UnreadIsFault`: reading an intact file fails only if `Faults` has `read`, so that
  theorems which exclude this fault can do without the exception.
* `InUseActive`: every repository in use counts as active.  It needs the
  repositories of the transaction in the set, since libdnf5's answer may not have
  them yet; an RPM that is removed in the meantime only makes the set in use
  smaller, and dnf installs no other while a hook runs.
* `ToEraseUnneeded`: what is to be erased is not a default certificate, and, if the
  hook could read the file, has no repository in use in it.

`DbDirStaysRestricted` and `RecordedCertsAreWhole` (`ProductIdSafetyProofs`) need one
invariant each.  `DirInv`: without a crash or a failure, a directory the plugin has made
is open to others only between the two steps of `setup_filesystem`; a directory that was
there already stays what it is.  `OnlyCurrentPartial`: if no writing of a certificate
fails, noticed or not, or is interrupted, the only one that can be cut short is the one
that is being written.

`HookOnlyAdvances` (`ProductIdSafetyProofs`): `Spec => HookAdvances`, for every set of
faults and any finite number of products and repositories.  `StepsLeft` is a variant of
the hook: two steps for each repository that is still to be processed and one for
each certificate to be removed, and a fixed number for the rest.  Its proof needs that
the repository being processed is one of `todo` (`CurrentToDo`), and that a subset of a
finite set has no more members.

`InUseIsCovered` (`ProductIdCoverageProofs`): `Spec => []InUseCovered`, under the
assumption that nothing but the removal of certificates may fail; each of the other
faults breaks it.  The invariant `CInv` follows coverage from the file
(`FileCovers`) into the map (`MapCovers`), to the temporary file (`TempCovers`) and
back.  Meanwhile the repositories of the transaction that are still to be processed
(`Pending`) are exempt, and a repository leaves that set when a product of it is
recorded and its certificate is on disk (`BeingInstalled`).

`UsedCertsStay` (`ProductIdCoverageProofs`): `Spec => RemovedOnlyWhenUnused`, under the same
assumption and from the same `CInv`.  A product has a repository in use; that
repository is covered in the map, and as it carries no other product, it is this
product that is not to be erased.

`WrittenDbIsReadable` (`ProductIdCoverageProofs`): `Spec => []WrittenDbReadable`, unless
writes fail or are cut short, hooks are interrupted, or certificates are changed by
hand.  The invariant `DInv` says that every product of the document has a
certificate (`FileInstalled`), and so has every record of the map (`MapInstalled`), also the
one that is added when its certificate has been written (`CurrentInstalled`).  Then
nothing is left out when the document is written, and no map makes it `null`
(`TempInstalled`).

`CertsAndDbInAgreement` (`ProductIdAgreementProofs`): `Spec => []CertsAndDbAgree`, for
every set of faults.  What a record says of its certificate was looked up when the
record was made, and must still be true when the document is written.  `AInv`:

* `PathsTrue`: in a hook that nobody has disturbed, the path of a record is true of the
  directories; `BeingWritten` and `AllTaken`: every certificate in `/etc/pki/product`
  has a record, or gets one when it has been written.
* `Pruned`: after the removal of inactive repositories, a record without repositories
  is that of a default certificate or about to be erased.
* `FilesAgree`: hence the temporary file agrees with the directories, and then
  `productid.json` does.

`PromiseKept` (`ProductIdRefinementProofs`): `Spec => KeepsPromise`, if `Faults` is a
subset of `Withstood`: `setup`, `install`, `remove`, `write`, `metadata` and `crash`.
Each of the other four breaks the promise on its own, as TLC finds: `admin` and
`db_lost` change what the promise is about, after a `short_write` the document has
forgotten repositories in use, and after a failure to read it (`read`) the hook erases
what the document still assigns to them.  With these faults excluded a hook that goes
on has read the file (`FileIsRead`).  There is one lemma for each kind of step that
the promise can see, as in the list under "The promise, and the refinement"; all
others leave the four mapped variables alone.  The lemmas need three invariants:
`IInv` for `Remove` (nothing in use is erased), `AInv` for `Record` (a record is
written exactly if its certificate is there), and `PInv`: certificates are installed
for repositories of the transaction only (`OfTransaction`), and the map in memory,
and then the temporary file, hold no repository that is not justified and all are required (`InMemory`, `Recordable`).

`ToldWithReason`, `ToldAll` and `FailsOnlyWithReason` (`RhsmProofs`):
`Spec => []WarningsJustified`, `Spec => []NothingMissed` and
`Spec => []FailsOnlyIfDisturbed`, for every set of files and releases and every bound
of the clock.  `RInv` says what the hook has learned and relies on (`Known`), how the
history relates to the present (`Remembered`: what holds now has held once, what has
always held holds now), and, place by place, what can no longer be missed
(`NoneMissed`).  The history grows with every step, also with those of other
processes, so that a fact the hook has seen stays in `once`, and a fact in `always`
was true when the hook looked.  `OnlyTellable` follows the names from the directory
through the loop to the messages, and `FInv` says that wherever the hook iterates over
a directory, the directory is there or has been removed.

`RhsmTypeCorrect` (`RhsmProofs`): `Spec => []TypeOK`.  That `said` holds nothing but messages
about files of the two directories is where it needs `OnlyTellable`, for the names
that the hook carries from one step to the next; the rest is `TypeInv`.

`SearchCorrect` (`ProductCertProofs`): for every OID and every size of the buffer, what
`product_id_in` - the prefix, the next dot, what is between them - cuts out of the
text is the number of the product, if the OID is one of a product and the number fits
with its dots, and nothing otherwise.  The text is a concatenation of any number of
parts; what is needed of it is that it begins with the first three of them
(`ConcatenationBegins`) and that only they decide (`FlattenBegins`).  Where the argument
is an induction, it is put as the least number for which the claim does not hold
(`LeastElement`).  From there on the text is treated character by character
(`DottedText`): in no other namespace does it begin with the prefix
(`OtherNamespace`), and the first dot behind the prefix is the one behind the product
(`FindDot`).

`FirstProductFound`, `OfferedIsFound` and `SessionTypeCorrect` (`Libdnf5SessionProofs`):
`Spec => []FirstProductDecoded`, `Spec => []OfferedProductFound` and `Spec => []TypeOK`.
`DecodingInv` says that the loop has passed no extension about a product and that
what it has found is what `SearchCorrect` says.  It also needs that every step refuses
the files which the next one cannot deal with (`FilesRefused`).  `SInv` adds how metadata
get there: `productid` is asked for before anything is downloaded (`Asked`), so that
what is offered is loaded (`LoadedAsOffered`), and a repository is visited with its file
(`VisitedHasFile`).

All these invariants have been checked with TLC on the instances of the runs as well.

Only model-checked: the three liveness properties `HookTerminates`, `StaleRepoForgotten` and
`RecoversEventually`.  They need fairness, which is out of the prover's reach.  Of the
first, `HookOnlyAdvances` proves the part without it: a hook cannot go on for ever.  That
it can always take a step is what the check for deadlock shows.

## Not modelled

* libdnf5 and OpenSSL: external, modelled from how the plugins use them.
  Decompression and parsing have an outcome and no detail.
* The contents of certificates, beyond whether the file is complete: the plugin
  never reads an installed certificate again.
* The lock dnf holds during a transaction: it is external, and at most one hook
  runs at a time.
* The removal of `/etc/pki/product` itself, and packages installed from the
  command line, whose repository has no productid metadata and would be a
  repository like r3.
* Which of two identical warnings goes to the log and which to the console, and their
  wording.
* Dates other than notAfter, and the signature of a certificate: the code looks at
  neither.
* The glue, the build and the packaging: no state and no decisions.  Tests and
  features were read as statements about the program.

## Plan

Done: the three hooks, the database, the decoding, the abstract promise and its
refinement, and the proofs listed above.  What could be added:

1. A second repository state in `Libdnf5Session` for metadata that come from the
   cache of an earlier run, which may have been downloaded without `productid`.
2. The steps behind `StaleRepoForgotten` and `RecoversEventually` as theorems: what one
   undisturbed hook does to a repository that is not used, and to a record whose
   certificate is gone.
3. A bound on the steps of the rhsm hook, as `HookAdvances` gives one for
   `post_transaction`.
4. What follows from the promise alone: theorems about `ProductCerts`, carried over to
   `ProductId` by `PromiseKept`.
