-------------------------------- MODULE Rhsm --------------------------------
(***************************************************************************)
(* The rhsm plugin: what its post_base_setup hook tells the user about the *)
(* registration of the system, step by step, while subscription-manager    *)
(* may register it, unregister it or renew its certificates in between.    *)
(*                                                                         *)
(* A step is a stretch of print_warnings that looks at the file system     *)
(* once.  The iteration over a directory sees the names that are there     *)
(* when the iterator is made: they are few, and one system call fetches    *)
(* them.                                                                   *)
(***************************************************************************)
EXTENDS Naturals, Functions

CONSTANTS
  ConsumerFiles,     \* names of the files that may be in /etc/pki/consumer
  EntitlementFiles,  \* names of the files that may be in /etc/pki/entitlement
  PemFiles,          \* the names that end with .pem
  KeyFiles,          \* the names that end with -key.pem
  BracedFiles,       \* the names with a brace in them
  Releases,          \* what /etc/dnf/vars/releasever can say
  NoFile,            \* ... or there is no such file
  Blank,             \* ... or its first line is blank
  Unreadable,        \* content of a file that is not a certificate
  MaxTime            \* bound of the clock

ASSUME RhsmAssumption ==
  /\ KeyFiles \subseteq PemFiles
  /\ NoFile \notin Releases /\ Blank \notin Releases /\ NoFile # Blank
  /\ MaxTime \in Nat
  /\ Unreadable \notin Nat

Time == 0..MaxTime

VARIABLES
  \* the machine
  root,              \* does the user who starts dnf have the user ID 0?
  host_config,       \* is there a directory /etc/rhsm-host?
  host_entitlement,  \* is there a directory /etc/pki/entitlement-host?
  consumer_dir,      \* is there a directory /etc/pki/consumer?
  consumer,          \* the files in it
  entitlement_dir,   \* is there a directory /etc/pki/entitlement?
  entitlements,      \* entitlements[f]: the notAfter time of file f in it
  releasever,        \* the first line of /etc/dnf/vars/releasever
  now,
  \* the running hook
  pc,
  to_check,          \* files the loop of get_expired_entitlements still visits
  expired_names,     \* those it has found expired
  said,              \* what the user has been told
  \* history
  once,              \* the facts that were true at some moment since the hook began
  always,            \* the facts that were true at every moment since
  removed            \* has a directory been removed since?

machine == <<root, host_config, host_entitlement, consumer_dir, consumer,
             entitlement_dir, entitlements, releasever, now>>
hook    == <<pc, to_check, expired_names, said>>
history == <<once, always, removed>>
vars    == <<machine, hook, history>>

Entitlements == UNION {[S -> Time \cup {Unreadable}] : S \in SUBSET EntitlementFiles}

Steps == {"idle", "container", "consumer_dir", "consumer", "entitlement_dir",
          "entitlement", "expired_dir", "scan", "check", "releasever",
          "read_releasever", "done", "failed"}

Messages ==
  {<<"not root">>, <<"container">>, <<"not registered">>, <<"no entitlements">>}
    \cup ({"expired"} \X EntitlementFiles) \cup ({"release"} \X Releases)

Facts ==
  {<<"user">>, <<"root">>, <<"container">>, <<"host">>, <<"registered">>,
   <<"not registered">>, <<"no entitlements">>}
    \cup ({"expired"} \X EntitlementFiles) \cup ({"release"} \X Releases)

TypeOK ==
  /\ root \in BOOLEAN
  /\ host_config \in BOOLEAN
  /\ host_entitlement \in BOOLEAN
  /\ consumer_dir \in BOOLEAN /\ consumer \in SUBSET ConsumerFiles
  /\ entitlement_dir \in BOOLEAN /\ entitlements \in Entitlements
  /\ releasever \in Releases \cup {NoFile, Blank}
  /\ now \in Time
  /\ pc \in Steps
  /\ to_check \in SUBSET EntitlementFiles
  /\ expired_names \in SUBSET EntitlementFiles
  /\ said \in SUBSET Messages
  /\ once \in SUBSET Facts
  /\ always \in SUBSET once
  /\ removed \in BOOLEAN

-----------------------------------------------------------------------------
(***************************************************************************)
(* The functions of rhsm_utils.                                            *)
(***************************************************************************)

\* Both directories exist; what is in them is not looked at.
in_container == host_config /\ host_entitlement

\* The loop that has_consumer_certificate and has_entitlement_certificates share.
AnyPem(names) == names \cap PemFiles # {}

\* is_cert_expired throws for the others: they are gone, or no certificates.
Readable == {f \in DOMAIN entitlements : entitlements[f] # Unreadable}

\* Mutant: what cannot be read counts as expired.
expired_or_unreadable(f) == f \in Readable => entitlements[f] <= now

(***************************************************************************)
(* X509_cmp_current_time returns -1 for a time that is not in the future,  *)
(* the current second included.                                            *)
(***************************************************************************)
is_cert_expired(f) == f \in Readable /\ entitlements[f] <= now

\* The release in a set; empty when the line is blank after trimming, or on failure.
get_releasever == {releasever} \cap Releases

-----------------------------------------------------------------------------
(***************************************************************************)
(* The facts behind the messages, and the history of a hook.               *)
(***************************************************************************)
If(condition, fact) == IF condition THEN {<<fact>>} ELSE {}

Holding ==
  If(~root, "user") \cup If(root, "root")
    \cup If(host_config /\ host_entitlement, "container")
    \cup If(~host_config \/ ~host_entitlement, "host")
    \cup If(consumer \cap PemFiles # {}, "registered")
    \cup If(consumer \cap PemFiles = {}, "not registered")
    \cup If(DOMAIN entitlements \cap PemFiles = {}, "no entitlements")
    \cup ({"expired"} \X {f \in Readable : entitlements[f] <= now})
    \cup ({"release"} \X ({releasever} \cap Releases))

\* What must be true for the user to be told m: message by message, not at once.
Reasons(m) ==
  CASE m = <<"not root">>        -> {<<"user">>}
    [] m = <<"container">>       -> {<<"root">>, <<"container">>}
    [] m = <<"not registered">>  -> {<<"root">>, <<"host">>, <<"not registered">>}
    [] m = <<"no entitlements">> -> {<<"root">>, <<"host">>, <<"registered">>,
                                     <<"no entitlements">>}
    [] OTHER                     -> {<<"root">>, m}

Remember ==
  /\ once' = once \cup Holding'
  /\ always' = always \cap Holding'
  /\ removed' = \/ removed
                \/ consumer_dir /\ ~consumer_dir'
                \/ entitlement_dir /\ ~entitlement_dir'

Forget == once' = {} /\ always' = {} /\ removed' = FALSE

-----------------------------------------------------------------------------
NoHook ==
  /\ pc = "idle"
  /\ to_check = {} /\ expired_names = {} /\ said = {}
  /\ once = {} /\ always = {} /\ removed = FALSE

Init ==
  /\ root \in BOOLEAN
  /\ host_config \in BOOLEAN
  /\ host_entitlement \in BOOLEAN
  /\ consumer_dir \in BOOLEAN /\ consumer \in SUBSET ConsumerFiles
  /\ consumer # {} => consumer_dir
  /\ entitlement_dir \in BOOLEAN /\ entitlements \in Entitlements
  /\ DOMAIN entitlements # {} => entitlement_dir
  /\ releasever \in Releases \cup {NoFile, Blank}
  /\ now = 0
  /\ NoHook

-----------------------------------------------------------------------------
(***************************************************************************)
(* The steps of print_warnings.                                            *)
(***************************************************************************)
Goto(step) == pc' = step

Say(messages) == said' = said \cup messages

Step(from) == pc = from /\ UNCHANGED machine /\ Remember

\* An exception leaves the hook; post_base_setup does not catch it.
Throw == Goto("failed") /\ UNCHANGED <<to_check, expired_names, said>>

\* libdnf5 has set up its Base and calls the hook.
PostBaseSetup ==
  /\ pc = "idle"
  /\ IF root THEN Goto("container") /\ UNCHANGED said
     ELSE Goto("done") /\ Say({<<"not root">>})
  /\ once' = Holding /\ always' = Holding
  /\ UNCHANGED <<machine, to_check, expired_names, removed>>

CheckContainer ==
  /\ Step("container")
  /\ IF in_container THEN Goto("expired_dir") /\ Say({<<"container">>})
     ELSE Goto("consumer_dir") /\ UNCHANGED said
  /\ UNCHANGED <<to_check, expired_names>>

\* Mutant: without a consumer directory the rest of the checks is skipped.
ReturnWithoutConsumerDir ==
  /\ Step("consumer_dir")
  /\ IF consumer_dir THEN Goto("consumer") /\ UNCHANGED said
     ELSE Goto("done") /\ Say({<<"not registered">>})
  /\ UNCHANGED <<to_check, expired_names>>

\* Mutant: the directory is iterated over whether it exists or not.
IterateConsumerDir ==
  /\ Step("consumer_dir")
  /\ Goto("consumer")
  /\ UNCHANGED <<to_check, expired_names, said>>

\* has_consumer_certificate: the directory must exist to be iterated over.
CheckConsumerDir ==
  /\ Step("consumer_dir")
  /\ IF consumer_dir THEN Goto("consumer") /\ UNCHANGED said
     ELSE Goto("expired_dir") /\ Say({<<"not registered">>})
  /\ UNCHANGED <<to_check, expired_names>>

CheckConsumer ==
  /\ Step("consumer")
  /\ consumer_dir
  /\ IF AnyPem(consumer) THEN Goto("entitlement_dir") /\ UNCHANGED said
     ELSE Goto("expired_dir") /\ Say({<<"not registered">>})
  /\ UNCHANGED <<to_check, expired_names>>

\* has_entitlement_certificates
CheckEntitlementDir ==
  /\ Step("entitlement_dir")
  /\ IF entitlement_dir THEN Goto("entitlement") /\ UNCHANGED said
     ELSE Goto("expired_dir") /\ Say({<<"no entitlements">>})
  /\ UNCHANGED <<to_check, expired_names>>

CheckEntitlement ==
  /\ Step("entitlement")
  /\ entitlement_dir
  /\ Goto("expired_dir")
  /\ IF AnyPem(DOMAIN entitlements) THEN UNCHANGED said ELSE Say({<<"no entitlements">>})
  /\ UNCHANGED <<to_check, expired_names>>

\* get_expired_entitlements
CheckExpiredDir ==
  /\ Step("expired_dir")
  /\ Goto(IF entitlement_dir THEN "scan" ELSE "releasever")
  /\ UNCHANGED <<to_check, expired_names, said>>

\* Mutant: keys are not skipped.
ScanWithKeys ==
  /\ Step("scan")
  /\ entitlement_dir
  /\ to_check' = DOMAIN entitlements \cap PemFiles
  /\ Goto("check")
  /\ UNCHANGED <<expired_names, said>>

ScanEntitlements ==
  /\ Step("scan")
  /\ entitlement_dir
  /\ to_check' = (DOMAIN entitlements \cap PemFiles) \ KeyFiles
  /\ Goto("check")
  /\ UNCHANGED <<expired_names, said>>

\* A directory is gone although it has just been there.
DirectoryVanished ==
  /\ \/ Step("consumer") /\ ~consumer_dir
     \/ Step("entitlement") /\ ~entitlement_dir
     \/ Step("scan") /\ ~entitlement_dir
  /\ Throw

\* Mutant: the exception of a file that cannot be read ends the loop.
CheckCertOrStop(f) ==
  /\ Step("check") /\ f \in to_check
  /\ f \in BracedFiles => f \in Readable
  /\ to_check' = IF f \in Readable THEN to_check \ {f} ELSE {}
  /\ expired_names' = IF is_cert_expired(f) THEN expired_names \cup {f} ELSE expired_names
  /\ UNCHANGED <<pc, said>>

(***************************************************************************)
(* One file of the loop.  When it cannot be read, a warning is logged and  *)
(* the loop goes on; the text of the warning is used as a format, so that  *)
(* a brace in the name of the file makes the warning throw.                *)
(***************************************************************************)
CheckCert(f) ==
  /\ Step("check") /\ f \in to_check
  /\ f \in BracedFiles => f \in Readable
  /\ to_check' = to_check \ {f}
  /\ expired_names' = IF is_cert_expired(f) THEN expired_names \cup {f} ELSE expired_names
  /\ UNCHANGED <<pc, said>>

\* Mutant: the exception of is_cert_expired is not caught.
NotCaught(f) ==
  /\ Step("check") /\ f \in to_check \ Readable
  /\ Throw

WarningThrows(f) ==
  /\ Step("check") /\ f \in to_check
  /\ f \in BracedFiles \ Readable
  /\ Throw

\* warn_entitlements_expired
WarnExpired ==
  /\ Step("check") /\ to_check = {}
  /\ Say({"expired"} \X expired_names)
  /\ Goto("releasever")
  /\ UNCHANGED <<to_check, expired_names>>

\* log_releasever, with get_releasever, which catches its own failures
FindReleasever ==
  /\ Step("releasever")
  /\ Goto(IF releasever = NoFile THEN "done" ELSE "read_releasever")
  /\ UNCHANGED <<to_check, expired_names, said>>

\* Mutant: a blank line is taken for a release.
ReadReleaseverUntrimmed ==
  /\ Step("read_releasever")
  /\ Say({"release"} \X ({releasever} \ {NoFile}))
  /\ Goto("done")
  /\ UNCHANGED <<to_check, expired_names>>

ReadReleasever ==
  /\ Step("read_releasever")
  /\ Say({"release"} \X get_releasever)
  /\ Goto("done")
  /\ UNCHANGED <<to_check, expired_names>>

HookReturns ==
  /\ pc \in {"done", "failed"}
  /\ Goto("idle")
  /\ to_check' = {} /\ expired_names' = {} /\ said' = {}
  /\ Forget
  /\ UNCHANGED machine

Hook ==
  \/ PostBaseSetup \/ CheckContainer
  \/ CheckConsumerDir \/ CheckConsumer \/ CheckEntitlementDir \/ CheckEntitlement
  \/ CheckExpiredDir \/ ScanEntitlements \/ DirectoryVanished
  \/ \E f \in to_check : CheckCert(f) \/ WarningThrows(f)
  \/ WarnExpired \/ FindReleasever \/ ReadReleasever
  \/ HookReturns

-----------------------------------------------------------------------------
(***************************************************************************)
(* What subscription-manager, an administrator and time can do meanwhile.  *)
(***************************************************************************)
Meanwhile ==
  /\ UNCHANGED <<host_config, host_entitlement, hook>>
  /\ IF pc = "idle" THEN UNCHANGED history ELSE Remember

\* A consumer certificate or its key is written or removed, ...
ConsumerFileChanges(f) ==
  /\ consumer_dir
  /\ consumer' = IF f \in consumer THEN consumer \ {f} ELSE consumer \cup {f}
  /\ UNCHANGED <<root, consumer_dir, entitlement_dir, entitlements,
                 releasever, now>>
  /\ Meanwhile

\* ... or the whole directory is created or removed.
ConsumerDirChanges ==
  /\ consumer_dir' = ~consumer_dir
  /\ consumer' = {}
  /\ UNCHANGED <<root, entitlement_dir, entitlements, releasever, now>>
  /\ Meanwhile

\* So are entitlement certificates; one that is being renewed is unreadable for a while.
WriteEntitlement(f) ==
  /\ entitlement_dir
  /\ \E content \in Time \cup {Unreadable} :
       entitlements' = [g \in DOMAIN entitlements \cup {f} |->
                          IF g = f THEN content ELSE entitlements[g]]
  /\ UNCHANGED <<root, consumer_dir, consumer, entitlement_dir,
                 releasever, now>>
  /\ Meanwhile

RemoveEntitlement(f) ==
  /\ f \in DOMAIN entitlements
  /\ entitlements' = Restrict(entitlements, DOMAIN entitlements \ {f})
  /\ UNCHANGED <<root, consumer_dir, consumer, entitlement_dir,
                 releasever, now>>
  /\ Meanwhile

EntitlementDirChanges ==
  /\ entitlement_dir' = ~entitlement_dir
  /\ entitlements' = [f \in {} |-> 0]
  /\ UNCHANGED <<root, consumer_dir, consumer, releasever, now>>
  /\ Meanwhile

ReleaseverChanges ==
  /\ releasever' \in Releases \cup {NoFile, Blank}
  /\ UNCHANGED <<root, consumer_dir, consumer, entitlement_dir,
                 entitlements, now>>
  /\ Meanwhile

Tick ==
  /\ now < MaxTime
  /\ now' = now + 1
  /\ UNCHANGED <<root, consumer_dir, consumer, entitlement_dir,
                 entitlements, releasever>>
  /\ Meanwhile

\* Another user starts dnf.
OtherUser ==
  /\ pc = "idle"
  /\ root' = ~root
  /\ UNCHANGED <<consumer_dir, consumer, entitlement_dir,
                 entitlements, releasever, now>>
  /\ Meanwhile

Environment ==
  \/ \E f \in ConsumerFiles : ConsumerFileChanges(f)
  \/ \E f \in EntitlementFiles : WriteEntitlement(f) \/ RemoveEntitlement(f)
  \/ ConsumerDirChanges \/ EntitlementDirChanges
  \/ ReleaseverChanges \/ Tick \/ OtherUser

Next == Hook \/ Environment

Spec == Init /\ [][Next]_vars

-----------------------------------------------------------------------------
(***************************************************************************)
(* Properties that hold.                                                   *)
(***************************************************************************)

\* What there is a message for: no file but a certificate's is looked into.
Tellable ==
  Messages \ ({"expired"} \X (EntitlementFiles \ (PemFiles \ KeyFiles)))

(***************************************************************************)
(* Whatever changes while the hook runs, everything the user is told was   *)
(* true at some moment since the hook began: nobody is told that the       *)
(* system is not registered, or that a certificate has expired, who has    *)
(* had a valid one all the time (print_warnings), and no key or other file *)
(* is reported as expired (get_expired_entitlements).                      *)
(***************************************************************************)
WarningsJustified == \A m \in said : m \in Tellable /\ Reasons(m) \subseteq once

(***************************************************************************)
(* A hook that returns has told the user everything that was true all the  *)
(* time: other certificates that cannot be read, that vanish or that are   *)
(* renewed in the middle of the loop hide no expired one                   *)
(* (get_expired_entitlements), and no check hides the result of another.   *)
(***************************************************************************)
NothingMissed ==
  pc = "done" => \A m \in Tellable : Reasons(m) \subseteq always => m \in said

(***************************************************************************)
(* No state of the machine makes the hook fail, and no certificate that    *)
(* cannot be read does, unless it has a brace in its name.  An exception   *)
(* leaves the hook only when it runs into the removal of a directory       *)
(* (has_consumer_certificate, has_entitlement_certificates) or into such a *)
(* name (get_expired_entitlements).                                        *)
(***************************************************************************)
FailsOnlyIfDisturbed ==
  pc = "failed" => removed \/ to_check \cap BracedFiles # {}

=============================================================================
