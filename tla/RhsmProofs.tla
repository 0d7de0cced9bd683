----------------------------- MODULE RhsmProofs -----------------------------
(***************************************************************************)
(* What the rhsm plugin tells the user is justified, and it misses nothing *)
(* that is true throughout, for all directories, certificates and times.   *)
(***************************************************************************)
EXTENDS Rhsm, TLAPS

-----------------------------------------------------------------------------
(***************************************************************************)
(* Types: of the machine, of the hook and of the history.                  *)
(***************************************************************************)
MachineTypeOK ==
  /\ root \in BOOLEAN /\ host_config \in BOOLEAN /\ host_entitlement \in BOOLEAN
  /\ consumer_dir \in BOOLEAN /\ consumer \in SUBSET ConsumerFiles
  /\ entitlement_dir \in BOOLEAN /\ entitlements \in Entitlements
  /\ releasever \in Releases \cup {NoFile, Blank}
  /\ now \in Time

HookTypeOK ==
  /\ pc \in Steps
  /\ to_check \in SUBSET EntitlementFiles
  /\ expired_names \in SUBSET EntitlementFiles
  /\ said \in SUBSET Messages

HistoryTypeOK == once \in SUBSET Facts /\ always \in SUBSET once /\ removed \in BOOLEAN

LEMMA TypeOKParts == TypeOK <=> MachineTypeOK /\ HookTypeOK /\ HistoryTypeOK
BY DEF TypeOK, MachineTypeOK, HookTypeOK, HistoryTypeOK

\* The contents of the entitlement directory, with its files in the domain.
LEMMA EntitlementsTyped ==
  ASSUME NEW e
  PROVE  e \in Entitlements <=> /\ DOMAIN e \subseteq EntitlementFiles
                                /\ e \in [DOMAIN e -> Time \cup {Unreadable}]
BY DEF Entitlements

\* What can be written in it, and what is left when a file is removed.
LEMMA EntitlementWritten ==
  ASSUME NEW e \in Entitlements, NEW f \in EntitlementFiles,
         NEW content \in Time \cup {Unreadable}
  PROVE  [g \in DOMAIN e \cup {f} |-> IF g = f THEN content ELSE e[g]] \in Entitlements
BY EntitlementsTyped

LEMMA EntitlementRemoved ==
  ASSUME NEW e \in Entitlements, NEW f
  PROVE  Restrict(e, DOMAIN e \ {f}) \in Entitlements
BY EntitlementsTyped DEF Restrict

LEMMA HoldingTyped == MachineTypeOK => Holding \subseteq Facts
<1> SUFFICES ASSUME MachineTypeOK PROVE Holding \subseteq Facts
  OBVIOUS
<1>1. Readable \subseteq EntitlementFiles
  BY EntitlementsTyped DEF MachineTypeOK, Readable
<1>2. {"expired"} \X {f \in Readable : entitlements[f] <= now} \subseteq Facts
  BY <1>1 DEF Facts
<1>3. {"release"} \X ({releasever} \cap Releases) \subseteq Facts
  BY DEF Facts
<1>4. {<<"user">>, <<"root">>, <<"container">>, <<"host">>, <<"registered">>,
       <<"not registered">>, <<"no entitlements">>} \subseteq Facts
  BY DEF Facts
<1> QED BY <1>2, <1>3, <1>4 DEF Holding, If

LEMMA HoldingTypedLater == (MachineTypeOK => Holding \subseteq Facts)'
BY HoldingTyped, PTL

\* The history of the facts is one of facts, whatever the step does to the machine.
LEMMA RememberTyped ==
  ASSUME MachineTypeOK', HistoryTypeOK, Remember
  PROVE  HistoryTypeOK'
BY HoldingTypedLater DEF HistoryTypeOK, Remember

-----------------------------------------------------------------------------
(***************************************************************************)
(* Facts and reasons.                                                      *)
(***************************************************************************)

\* When a fact holds.
LEMMA HoldingFacts ==
  /\ <<"user">> \in Holding <=> ~root
  /\ <<"root">> \in Holding <=> root
  /\ <<"container">> \in Holding <=> in_container
  /\ <<"host">> \in Holding <=> ~in_container
  /\ <<"registered">> \in Holding <=> AnyPem(consumer)
  /\ <<"not registered">> \in Holding <=> ~AnyPem(consumer)
  /\ <<"no entitlements">> \in Holding <=> ~AnyPem(DOMAIN entitlements)
  /\ \A f : <<"expired", f>> \in Holding <=> is_cert_expired(f)
  /\ \A v : <<"release", v>> \in Holding <=> v = releasever /\ v \in Releases
<1>1. /\ <<"user">> \in Holding <=> ~root
      /\ <<"root">> \in Holding <=> root
  BY DEF Holding, If
<1>2. /\ <<"container">> \in Holding <=> in_container
      /\ <<"host">> \in Holding <=> ~in_container
  BY DEF Holding, If, in_container
<1>3. /\ <<"registered">> \in Holding <=> AnyPem(consumer)
      /\ <<"not registered">> \in Holding <=> ~AnyPem(consumer)
      /\ <<"no entitlements">> \in Holding <=> ~AnyPem(DOMAIN entitlements)
  BY DEF Holding, If, AnyPem
<1>4. \A f : <<"expired", f>> \in Holding <=> is_cert_expired(f)
  BY DEF Holding, If, is_cert_expired
<1>5. \A v : <<"release", v>> \in Holding <=> v = releasever /\ v \in Releases
  BY DEF Holding, If
<1> QED BY <1>1, <1>2, <1>3, <1>4, <1>5

\* What the reasons for a message are.
LEMMA ReasonsFor ==
  /\ Reasons(<<"not root">>) = {<<"user">>}
  /\ Reasons(<<"container">>) = {<<"root">>, <<"container">>}
  /\ Reasons(<<"not registered">>) = {<<"root">>, <<"host">>, <<"not registered">>}
  /\ Reasons(<<"no entitlements">>) = {<<"root">>, <<"host">>, <<"registered">>,
                                       <<"no entitlements">>}
  /\ \A f : Reasons(<<"expired", f>>) = {<<"root">>, <<"expired", f>>}
  /\ \A v : Reasons(<<"release", v>>) = {<<"root">>, <<"release", v>>}
BY DEF Reasons

-----------------------------------------------------------------------------
(***************************************************************************)
(* The inductive invariant.                                                *)
(***************************************************************************)

\* Where there is no directory there are no files.
Consistent ==
  /\ ~consumer_dir => consumer = {}
  /\ ~entitlement_dir => DOMAIN entitlements = {}

\* The history knows what holds now, and nothing else has held all the time.
Remembered == pc # "idle" => Holding \subseteq once /\ always \subseteq Holding

\* What the hook has found out and relies on from then on.
Known ==
  /\ pc \notin {"idle", "done", "failed"} => root
  /\ pc \in {"consumer_dir", "consumer", "entitlement_dir", "entitlement"} => ~in_container
  /\ pc \in {"entitlement_dir", "entitlement"} => <<"registered">> \in once
  /\ \A f \in expired_names : <<"expired", f>> \in once

Fresh == pc = "idle" => said = {} /\ expired_names = {}

\* There has been a reason for m all the time, and the user has not been told m.
Missed(m) == Reasons(m) \subseteq always /\ m \notin said

Certs == PemFiles \ KeyFiles

\* Nothing is missed once the hook is past the place where it would be said.
NoneMissed ==
  /\ pc = "done" => ~Missed(<<"not root">>)
  /\ pc \notin {"idle", "container", "failed"} => ~Missed(<<"container">>)
  /\ pc \notin {"idle", "container", "consumer_dir", "consumer", "failed"} =>
       ~Missed(<<"not registered">>)
  /\ pc \notin {"idle", "container", "consumer_dir", "consumer", "entitlement_dir",
                "entitlement", "failed"} => ~Missed(<<"no entitlements">>)
  /\ pc = "check" => \A f \in Certs : <<"expired", f>> \in always =>
                                        f \in to_check \cup expired_names
  /\ pc \in {"releasever", "read_releasever", "done"} =>
       \A f \in Certs : ~Missed(<<"expired", f>>)
  /\ pc = "done" => \A v \in Releases : ~Missed(<<"release", v>>)

\* Half of WarningsJustified; the other half, that it can be told at all, is OnlyTellable.
Justified == \A m \in said : Reasons(m) \subseteq once

RInv == Consistent /\ Remembered /\ Known /\ Fresh /\ Justified /\ NoneMissed

-----------------------------------------------------------------------------
LEMMA InitRInv == Init => RInv
BY DEF Init, NoHook, RInv, Consistent, Remembered, Known, Fresh, Justified, NoneMissed

\* What a step of the hook keeps of the machine and adds to the history.
Learned ==
  /\ Consistent'
  /\ root' = root /\ in_container' = in_container
  /\ Holding' = Holding
  /\ Holding \subseteq once' /\ once \subseteq once'
  /\ always' \subseteq Holding /\ always' \subseteq always

LEMMA StepHistory ==
  ASSUME RInv, NEW from, from # "idle", Step(from)
  PROVE  pc = from /\ Learned
<1>1. UNCHANGED machine
  BY DEF Step
<1>2. Holding' = Holding /\ in_container' = in_container
  BY <1>1 DEF machine, Holding, If, Readable, in_container
<1>3. Consistent'
  BY <1>1 DEF RInv, Consistent, machine
<1> QED BY <1>1, <1>2, <1>3 DEF Step, Remember, Learned, machine

\* What has been told is not missed later.
LEMMA StillTold ==
  ASSUME always' \subseteq always, said \subseteq said'
  PROVE  \A m : ~Missed(m) => (Reasons(m) \subseteq always' => m \in said')
BY DEF Missed

\* The invariant after a step: Known, with what is said and what is missed, is the rest.
LEMMA RInvLater ==
  ASSUME RInv, Learned, pc' # "idle", Known', NoneMissed',
         \A m \in said' \ said : Reasons(m) \subseteq once'
  PROVE  RInv'
<1>1. Justified'
  BY DEF RInv, Learned, Justified
<1>2. Remembered' /\ Fresh'
  BY DEF Learned, Remembered, Fresh
<1> QED BY <1>1, <1>2 DEF RInv, Learned

\* The hook begins.
LEMMA SetupRInv == RInv /\ PostBaseSetup => RInv'
<1> SUFFICES ASSUME RInv, PostBaseSetup PROVE RInv'
  OBVIOUS
<1>1. Holding' = Holding /\ in_container' = in_container
  BY DEF PostBaseSetup, machine, Holding, If, Readable, in_container
<1>2. Consistent' /\ Remembered'
  BY <1>1 DEF PostBaseSetup, RInv, Consistent, Remembered, machine
<1>3. said = {} /\ expired_names' = {} /\ root' = root /\ once' = Holding /\ always' = Holding
  BY DEF PostBaseSetup, RInv, Fresh, machine
<1>4. CASE root
  <2>1. pc' = "container" /\ said' = {}
    BY <1>3, <1>4 DEF PostBaseSetup, Goto
  <2> QED BY <1>2, <1>3, <1>4, <2>1 DEF RInv, Known, Fresh, Justified, NoneMissed
<1>5. CASE ~root
  <2>1. pc' = "done" /\ said' = {<<"not root">>}
    BY <1>3, <1>5 DEF PostBaseSetup, Goto, Say
  <2>2. Justified'
    BY <1>3, <1>5, <2>1, ReasonsFor, HoldingFacts DEF Justified
  <2>3. <<"root">> \notin always'
    BY <1>3, <1>5, HoldingFacts
  <2>4. NoneMissed'
    BY <2>1, <2>3, ReasonsFor DEF NoneMissed, Missed
  <2> QED BY <1>2, <1>3, <2>1, <2>2, <2>4 DEF RInv, Known, Fresh
<1> QED BY <1>4, <1>5

LEMMA ContainerRInv == RInv /\ CheckContainer => RInv'
<1> SUFFICES ASSUME RInv, CheckContainer PROVE RInv'
  OBVIOUS
<1>1. pc = "container" /\ Learned
  BY StepHistory DEF CheckContainer
<1>2. root /\ expired_names' = expired_names
  BY <1>1 DEF CheckContainer, RInv, Known
<1>3. CASE in_container
  <2>1. pc' = "expired_dir" /\ said' = said \cup {<<"container">>}
    BY <1>3 DEF CheckContainer, Goto, Say
  <2>2. <<"root">> \in Holding /\ <<"container">> \in Holding /\ <<"host">> \notin Holding
    BY <1>2, <1>3, HoldingFacts
  <2>3. Reasons(<<"container">>) \subseteq once'
    BY <1>1, <2>2, ReasonsFor DEF Learned
  <2>4. NoneMissed'
    BY <1>1, <2>1, <2>2, ReasonsFor DEF NoneMissed, Missed, Learned
  <2>5. Known'
    BY <1>1, <1>2, <2>1 DEF RInv, Known, Learned
  <2> QED BY <1>1, <2>1, <2>3, <2>4, <2>5, RInvLater
<1>4. CASE ~in_container
  <2>1. pc' = "consumer_dir" /\ said' = said
    BY <1>4 DEF CheckContainer, Goto
  <2>2. <<"container">> \notin Holding
    BY <1>4, HoldingFacts
  <2>3. NoneMissed'
    BY <1>1, <2>1, <2>2, ReasonsFor DEF NoneMissed, Missed, Learned
  <2>4. Known'
    BY <1>1, <1>2, <1>4, <2>1 DEF RInv, Known, Learned
  <2> QED BY <1>1, <2>1, <2>3, <2>4, RInvLater
<1> QED BY <1>3, <1>4

\* Both ways to find out that the system is not registered ...
LEMMA NotRegisteredRInv ==
  ASSUME RInv, pc \in {"consumer_dir", "consumer"}, Learned, ~AnyPem(consumer),
         pc' = "expired_dir", Say({<<"not registered">>}), expired_names' = expired_names
  PROVE  RInv'
<1>1. root /\ ~in_container /\ said' = said \cup {<<"not registered">>}
  BY DEF RInv, Known, Say
<1>2. /\ <<"root">> \in Holding /\ <<"host">> \in Holding /\ <<"not registered">> \in Holding
      /\ <<"registered">> \notin Holding
  BY <1>1, HoldingFacts
<1>3. Reasons(<<"not registered">>) \subseteq once'
  BY <1>2, ReasonsFor DEF Learned
<1>4. ~(Reasons(<<"no entitlements">>) \subseteq always')
  BY <1>2, ReasonsFor DEF Learned
<1>5. Reasons(<<"container">>) \subseteq always' => <<"container">> \in said'
  BY <1>1, StillTold DEF Learned, RInv, NoneMissed
<1>6. NoneMissed'
  BY <1>1, <1>4, <1>5 DEF NoneMissed, Missed
<1>7. Known'
  BY <1>1 DEF RInv, Known, Learned
<1> QED BY <1>1, <1>3, <1>6, <1>7, RInvLater

\* ... and that it has no entitlements.
LEMMA NoEntitlementsRInv ==
  ASSUME RInv, pc \in {"entitlement_dir", "entitlement"}, Learned,
         ~AnyPem(DOMAIN entitlements),
         pc' = "expired_dir", Say({<<"no entitlements">>}), expired_names' = expired_names
  PROVE  RInv'
<1>1. /\ root /\ ~in_container /\ <<"registered">> \in once
      /\ said' = said \cup {<<"no entitlements">>}
  BY DEF RInv, Known, Say
<1>2. <<"root">> \in Holding /\ <<"host">> \in Holding /\ <<"no entitlements">> \in Holding
  BY <1>1, HoldingFacts
<1>3. Reasons(<<"no entitlements">>) \subseteq once'
  BY <1>1, <1>2, ReasonsFor DEF Learned
<1>4. /\ Reasons(<<"container">>) \subseteq always' => <<"container">> \in said'
      /\ Reasons(<<"not registered">>) \subseteq always' => <<"not registered">> \in said'
  BY <1>1, StillTold DEF Learned, RInv, NoneMissed
<1>5. NoneMissed'
  BY <1>1, <1>4 DEF NoneMissed, Missed
<1>6. Known'
  BY <1>1 DEF RInv, Known, Learned
<1> QED BY <1>1, <1>3, <1>5, <1>6, RInvLater

LEMMA ConsumerDirRInv == RInv /\ CheckConsumerDir => RInv'
<1> SUFFICES ASSUME RInv, CheckConsumerDir PROVE RInv'
  OBVIOUS
<1>1. pc = "consumer_dir" /\ Learned /\ expired_names' = expired_names
  BY StepHistory DEF CheckConsumerDir
<1>2. CASE consumer_dir
  <2>1. pc' = "consumer" /\ said' = said
    BY <1>2 DEF CheckConsumerDir, Goto
  <2>2. NoneMissed'
    BY <1>1, <2>1 DEF RInv, NoneMissed, Missed, Learned
  <2>3. Known'
    BY <1>1, <2>1 DEF RInv, Known, Learned
  <2> QED BY <1>1, <2>1, <2>2, <2>3, RInvLater
<1>3. CASE ~consumer_dir
  <2>1. ~AnyPem(consumer)
    BY <1>3 DEF RInv, Consistent, AnyPem
  <2>2. pc' = "expired_dir" /\ Say({<<"not registered">>})
    BY <1>3 DEF CheckConsumerDir, Goto
  <2> QED BY <1>1, <2>1, <2>2, NotRegisteredRInv
<1> QED BY <1>2, <1>3

LEMMA ConsumerRInv == RInv /\ CheckConsumer => RInv'
<1> SUFFICES ASSUME RInv, CheckConsumer PROVE RInv'
  OBVIOUS
<1>1. pc = "consumer" /\ Learned /\ expired_names' = expired_names
  BY StepHistory DEF CheckConsumer
<1>2. CASE AnyPem(consumer)
  <2>1. pc' = "entitlement_dir" /\ said' = said
    BY <1>2 DEF CheckConsumer, Goto
  <2>2. <<"registered">> \in Holding /\ <<"not registered">> \notin Holding
    BY <1>2, HoldingFacts
  <2>3. /\ Reasons(<<"container">>) \subseteq always' => <<"container">> \in said'
        /\ ~(Reasons(<<"not registered">>) \subseteq always')
    BY <1>1, <2>1, <2>2, StillTold, ReasonsFor DEF Learned, RInv, NoneMissed
  <2>4. NoneMissed'
    BY <2>1, <2>3 DEF NoneMissed, Missed
  <2>5. Known'
    BY <1>1, <2>1, <2>2 DEF RInv, Known, Learned
  <2> QED BY <1>1, <2>1, <2>4, <2>5, RInvLater
<1>3. CASE ~AnyPem(consumer)
  <2>1. pc' = "expired_dir" /\ Say({<<"not registered">>})
    BY <1>3 DEF CheckConsumer, Goto
  <2> QED BY <1>1, <1>3, <2>1, NotRegisteredRInv
<1> QED BY <1>2, <1>3

LEMMA EntitlementDirRInv == RInv /\ CheckEntitlementDir => RInv'
<1> SUFFICES ASSUME RInv, CheckEntitlementDir PROVE RInv'
  OBVIOUS
<1>1. pc = "entitlement_dir" /\ Learned /\ expired_names' = expired_names
  BY StepHistory DEF CheckEntitlementDir
<1>2. CASE entitlement_dir
  <2>1. pc' = "entitlement" /\ said' = said
    BY <1>2 DEF CheckEntitlementDir, Goto
  <2>2. NoneMissed'
    BY <1>1, <2>1 DEF RInv, NoneMissed, Missed, Learned
  <2>3. Known'
    BY <1>1, <2>1 DEF RInv, Known, Learned
  <2> QED BY <1>1, <2>1, <2>2, <2>3, RInvLater
<1>3. CASE ~entitlement_dir
  <2>1. ~AnyPem(DOMAIN entitlements)
    BY <1>3 DEF RInv, Consistent, AnyPem
  <2>2. pc' = "expired_dir" /\ Say({<<"no entitlements">>})
    BY <1>3 DEF CheckEntitlementDir, Goto
  <2> QED BY <1>1, <2>1, <2>2, NoEntitlementsRInv
<1> QED BY <1>2, <1>3

LEMMA EntitlementRInv == RInv /\ CheckEntitlement => RInv'
<1> SUFFICES ASSUME RInv, CheckEntitlement PROVE RInv'
  OBVIOUS
<1>1. /\ pc = "entitlement" /\ Learned /\ expired_names' = expired_names
      /\ pc' = "expired_dir"
  BY StepHistory DEF CheckEntitlement, Goto
<1>2. CASE AnyPem(DOMAIN entitlements)
  <2>1. said' = said
    BY <1>2 DEF CheckEntitlement
  <2>2. <<"no entitlements">> \notin Holding
    BY <1>2, HoldingFacts
  <2>3. /\ Reasons(<<"container">>) \subseteq always' => <<"container">> \in said'
        /\ Reasons(<<"not registered">>) \subseteq always' => <<"not registered">> \in said'
        /\ ~(Reasons(<<"no entitlements">>) \subseteq always')
    BY <1>1, <2>1, <2>2, StillTold, ReasonsFor DEF Learned, RInv, NoneMissed
  <2>4. NoneMissed'
    BY <1>1, <2>3 DEF NoneMissed, Missed
  <2>5. Known'
    BY <1>1 DEF RInv, Known, Learned
  <2> QED BY <1>1, <2>1, <2>4, <2>5, RInvLater
<1>3. CASE ~AnyPem(DOMAIN entitlements)
  <2>1. Say({<<"no entitlements">>})
    BY <1>3 DEF CheckEntitlement
  <2> QED BY <1>1, <1>3, <2>1, NoEntitlementsRInv
<1> QED BY <1>2, <1>3

-----------------------------------------------------------------------------
\* After the checks of the registration: what they have told stays told.
ChecksTold(messages) ==
  \A m \in {<<"container">>, <<"not registered">>, <<"no entitlements">>} :
    Reasons(m) \subseteq always' => m \in messages

LEMMA ChecksStillTold ==
  ASSUME RInv, Learned, said \subseteq said',
         pc \in {"expired_dir", "scan", "check", "releasever", "read_releasever"}
  PROVE  ChecksTold(said')
BY StillTold DEF Learned, RInv, NoneMissed, ChecksTold

LEMMA ExpiredDirRInv == RInv /\ CheckExpiredDir => RInv'
<1> SUFFICES ASSUME RInv, CheckExpiredDir PROVE RInv'
  OBVIOUS
<1>1. /\ pc = "expired_dir" /\ Learned /\ expired_names' = expired_names /\ said' = said
      /\ pc' = IF entitlement_dir THEN "scan" ELSE "releasever"
  BY StepHistory DEF CheckExpiredDir, Goto
<1>2. ASSUME ~entitlement_dir, NEW f PROVE <<"expired", f>> \notin Holding
  BY <1>2, HoldingFacts DEF RInv, Consistent, is_cert_expired, Readable
<1>3. ASSUME ~entitlement_dir, NEW f PROVE ~(Reasons(<<"expired", f>>) \subseteq always')
  BY <1>1, <1>2, <1>3, ReasonsFor DEF Learned
<1>4. ChecksTold(said')
  BY <1>1, ChecksStillTold
<1>5. NoneMissed'
  BY <1>1, <1>3, <1>4 DEF NoneMissed, Missed, ChecksTold
<1>6. Known'
  BY <1>1 DEF RInv, Known, Learned
<1> QED BY <1>1, <1>5, <1>6, RInvLater

LEMMA ScanRInv == RInv /\ ScanEntitlements => RInv'
<1> SUFFICES ASSUME RInv, ScanEntitlements PROVE RInv'
  OBVIOUS
<1>1. /\ pc = "scan" /\ Learned /\ expired_names' = expired_names
      /\ said' = said /\ pc' = "check"
      /\ to_check' = (DOMAIN entitlements \cap PemFiles) \ KeyFiles
  BY StepHistory DEF ScanEntitlements, Goto
<1>2. ASSUME NEW f \in Certs, <<"expired", f>> \in Holding PROVE f \in to_check'
  BY <1>1, <1>2, HoldingFacts DEF is_cert_expired, Readable, Certs
<1>3. ChecksTold(said')
  BY <1>1, ChecksStillTold
<1>4. NoneMissed'
  BY <1>1, <1>2, <1>3 DEF NoneMissed, Missed, ChecksTold, Learned
<1>5. Known'
  BY <1>1 DEF RInv, Known, Learned
<1> QED BY <1>1, <1>4, <1>5, RInvLater

\* An exception leaves nothing to be missed.
LEMMA ThrowRInv ==
  ASSUME RInv, Learned, Throw
  PROVE  RInv'
<1>1. pc' = "failed" /\ expired_names' = expired_names /\ said' = said
  BY DEF Throw, Goto
<1>2. NoneMissed' /\ Known'
  BY <1>1 DEF RInv, NoneMissed, Known, Learned
<1> QED BY <1>1, <1>2, RInvLater

\* One certificate of the loop: only this one leaves the set of those to check.
LEMMA CheckCertRInv ==
  ASSUME RInv, NEW f \in to_check, CheckCert(f)
  PROVE  RInv'
<1>1. /\ pc = "check" /\ Learned /\ said' = said /\ pc' = pc /\ to_check' = to_check \ {f}
      /\ expired_names' = IF is_cert_expired(f) THEN expired_names \cup {f} ELSE expired_names
  BY StepHistory DEF CheckCert
<1>2. <<"expired", f>> \in Holding <=> is_cert_expired(f)
  BY HoldingFacts
<1>3. ChecksTold(said')
  BY <1>1, ChecksStillTold
<1>4. ASSUME NEW g \in Certs, <<"expired", g>> \in always'
      PROVE  g \in to_check' \cup expired_names'
  <2>1. g \in to_check \cup expired_names
    BY <1>1, <1>4 DEF RInv, NoneMissed, Learned
  <2>2. CASE g = f
    BY <1>1, <1>2, <1>4, <2>2 DEF Learned
  <2>3. CASE g # f
    BY <1>1, <2>1, <2>3
  <2> QED BY <2>2, <2>3
<1>5. NoneMissed'
  BY <1>1, <1>3, <1>4 DEF NoneMissed, Missed, ChecksTold
<1>6. Known'
  BY <1>1, <1>2 DEF RInv, Known, Learned
<1> QED BY <1>1, <1>5, <1>6, RInvLater

LEMMA WarnRInv == RInv /\ WarnExpired => RInv'
<1> SUFFICES ASSUME RInv, WarnExpired PROVE RInv'
  OBVIOUS
<1>1. /\ pc = "check" /\ Learned /\ to_check = {} /\ expired_names' = expired_names
      /\ pc' = "releasever" /\ said' = said \cup ({"expired"} \X expired_names)
  BY StepHistory DEF WarnExpired, Goto, Say
<1>2. root
  BY <1>1 DEF RInv, Known
<1>3. <<"root">> \in Holding
  BY <1>2, HoldingFacts
<1>4. ASSUME NEW m \in {"expired"} \X expired_names PROVE Reasons(m) \subseteq once'
  <2>1. PICK f \in expired_names : m = <<"expired", f>>
    BY <1>4
  <2>2. <<"expired", f>> \in once
    BY DEF RInv, Known
  <2>3. <<"root">> \in once' /\ <<"expired", f>> \in once'
    BY <1>1, <1>3, <2>2 DEF Learned
  <2>4. Reasons(<<"expired", f>>) = {<<"root">>, <<"expired", f>>}
    BY ReasonsFor
  <2> QED BY <2>1, <2>3, <2>4
<1>5. ASSUME NEW f \in Certs, Reasons(<<"expired", f>>) \subseteq always'
      PROVE  <<"expired", f>> \in said'
  <2>1. <<"expired", f>> \in always
    BY <1>1, <1>5, ReasonsFor DEF Learned
  <2>2. f \in expired_names
    BY <1>1, <2>1 DEF RInv, NoneMissed
  <2> QED BY <1>1, <2>2
<1>6. ChecksTold(said')
  BY <1>1, ChecksStillTold
<1>7. NoneMissed'
  BY <1>1, <1>5, <1>6 DEF NoneMissed, Missed, ChecksTold
<1>8. Known'
  BY <1>1 DEF RInv, Known, Learned
<1> QED BY <1>1, <1>4, <1>7, <1>8, RInvLater

\* The steps of log_releasever; Missed(<<"release", v>>) is all that is left to show.
LEMMA ReleaseverRInv ==
  ASSUME RInv, Learned, pc \in {"releasever", "read_releasever"},
         pc' \in {"read_releasever", "done"},
         said \subseteq said', expired_names' = expired_names,
         \A m \in said' \ said : Reasons(m) \subseteq once',
         pc' = "done" => \A v : <<"release", v>> \in Holding => <<"release", v>> \in said'
  PROVE  RInv'
<1>1. root
  BY DEF RInv, Known
<1>2. <<"user">> \notin Holding
  BY <1>1, HoldingFacts
<1>3. ~(Reasons(<<"not root">>) \subseteq always')
  BY <1>2, ReasonsFor DEF Learned
<1>4. ASSUME NEW f \in Certs, Reasons(<<"expired", f>>) \subseteq always'
      PROVE  <<"expired", f>> \in said'
  BY <1>4, StillTold DEF Learned, RInv, NoneMissed
<1>5. ASSUME pc' = "done", NEW v, Reasons(<<"release", v>>) \subseteq always'
      PROVE  <<"release", v>> \in said'
  BY <1>5, ReasonsFor DEF Learned
<1>6. ChecksTold(said')
  BY ChecksStillTold
<1>7. NoneMissed'
  BY <1>3, <1>4, <1>5, <1>6 DEF NoneMissed, Missed, ChecksTold
<1>8. Known'
  BY <1>1 DEF RInv, Known, Learned
<1> QED BY <1>7, <1>8, RInvLater

LEMMA FindReleaseverRInv == RInv /\ FindReleasever => RInv'
<1> SUFFICES ASSUME RInv, FindReleasever PROVE RInv'
  OBVIOUS
<1>1. /\ pc = "releasever" /\ Learned /\ expired_names' = expired_names /\ said' = said
      /\ pc' = IF releasever = NoFile THEN "done" ELSE "read_releasever"
  BY StepHistory DEF FindReleasever, Goto
<1>2. ASSUME releasever = NoFile, NEW v PROVE <<"release", v>> \notin Holding
  BY <1>2, HoldingFacts, RhsmAssumption
<1>3. pc' = "done" => \A v : <<"release", v>> \notin Holding
  BY <1>1, <1>2
<1> QED BY <1>1, <1>3, ReleaseverRInv

LEMMA ReadReleaseverRInv == RInv /\ ReadReleasever => RInv'
<1> SUFFICES ASSUME RInv, ReadReleasever PROVE RInv'
  OBVIOUS
<1>1. /\ pc = "read_releasever" /\ Learned /\ expired_names' = expired_names /\ pc' = "done"
      /\ said' = said \cup ({"release"} \X ({releasever} \cap Releases))
  BY StepHistory DEF ReadReleasever, get_releasever, Goto, Say
<1>2. <<"root">> \in Holding
  BY <1>1, HoldingFacts DEF RInv, Known
<1>3. ASSUME NEW m \in {"release"} \X ({releasever} \cap Releases)
      PROVE  Reasons(m) \subseteq once'
  <2>1. m = <<"release", releasever>> /\ releasever \in Releases
    BY <1>3
  <2>2. <<"release", releasever>> \in Holding
    BY <2>1, HoldingFacts
  <2>3. <<"root">> \in once' /\ <<"release", releasever>> \in once'
    BY <1>1, <1>2, <2>2 DEF Learned
  <2>4. Reasons(<<"release", releasever>>) = {<<"root">>, <<"release", releasever>>}
    BY ReasonsFor
  <2> QED BY <2>1, <2>3, <2>4
<1>4. ASSUME NEW v, <<"release", v>> \in Holding PROVE <<"release", v>> \in said'
  <2>1. v = releasever /\ v \in Releases
    BY <1>4, HoldingFacts
  <2> QED BY <1>1, <2>1
<1> QED BY <1>1, <1>3, <1>4, ReleaseverRInv

LEMMA ReturnRInv == RInv /\ HookReturns => RInv'
<1> SUFFICES ASSUME RInv, HookReturns PROVE RInv'
  OBVIOUS
<1>1. pc' = "idle" /\ expired_names' = {} /\ said' = {} /\ UNCHANGED machine
  BY DEF HookReturns, Goto
<1>2. Consistent'
  BY <1>1 DEF RInv, Consistent, machine
<1>3. NoneMissed'
  BY <1>1 DEF NoneMissed
<1> QED BY <1>1, <1>2, <1>3 DEF RInv, Remembered, Known, Fresh, Justified

LEMMA HookRInv == RInv /\ Hook => RInv'
<1> SUFFICES ASSUME RInv, Hook PROVE RInv'
  OBVIOUS
<1>1. CASE DirectoryVanished
  <2>1. Learned /\ Throw
    BY <1>1, StepHistory DEF DirectoryVanished
  <2> QED BY <2>1, ThrowRInv
<1>2. ASSUME NEW f \in to_check, CheckCert(f) PROVE RInv'
  BY <1>2, CheckCertRInv
<1>3. ASSUME NEW f \in to_check, WarningThrows(f) PROVE RInv'
  <2>1. Learned /\ Throw
    BY <1>3, StepHistory DEF WarningThrows
  <2> QED BY <2>1, ThrowRInv
<1> QED
  BY <1>1, <1>2, <1>3, SetupRInv, ContainerRInv, ConsumerDirRInv, ConsumerRInv,
     EntitlementDirRInv, EntitlementRInv, ExpiredDirRInv, ScanRInv, WarnRInv,
     FindReleaseverRInv, ReadReleaseverRInv, ReturnRInv DEF Hook

-----------------------------------------------------------------------------
\* Whatever happens meanwhile, the hook finds files only where there are directories.
LEMMA MeanwhileRInv ==
  ASSUME RInv, Consistent', Meanwhile,
         pc # "idle" => root' = root /\ in_container' = in_container
  PROVE  RInv'
<1>1. UNCHANGED <<pc, to_check, expired_names, said>>
  BY DEF Meanwhile, hook
<1>2. CASE pc = "idle"
  BY <1>1, <1>2 DEF Meanwhile, RInv, Remembered, Known, Fresh, Justified, NoneMissed
<1>3. CASE pc # "idle"
  <2>1. once' = once \cup Holding' /\ always' = always \cap Holding'
    BY <1>3 DEF Meanwhile, Remember
  <2>2. Justified'
    BY <1>1, <2>1 DEF RInv, Justified
  <2>3. \A m : ~Missed(m) => (Reasons(m) \subseteq always' => m \in said')
    BY <1>1, <2>1, StillTold
  <2>4. NoneMissed'
    BY <1>1, <2>1, <2>3 DEF RInv, NoneMissed, Missed
  <2> QED BY <1>1, <1>3, <2>1, <2>2, <2>4 DEF RInv, Remembered, Known, Fresh
<1> QED BY <1>2, <1>3

LEMMA EnvironmentRInv == RInv /\ Environment => RInv'
<1> SUFFICES ASSUME RInv, Environment PROVE RInv'
  OBVIOUS
<1> USE MeanwhileRInv DEF RInv, Consistent, in_container
<1>1. ASSUME NEW f \in ConsumerFiles, ConsumerFileChanges(f) PROVE RInv'
  BY <1>1 DEF ConsumerFileChanges, Meanwhile
<1>2. CASE ConsumerDirChanges
  BY <1>2 DEF ConsumerDirChanges, Meanwhile
<1>3. ASSUME NEW f \in EntitlementFiles, WriteEntitlement(f) PROVE RInv'
  BY <1>3 DEF WriteEntitlement, Meanwhile
<1>4. ASSUME NEW f \in EntitlementFiles, RemoveEntitlement(f) PROVE RInv'
  BY <1>4 DEF RemoveEntitlement, Restrict, Meanwhile
<1>5. CASE EntitlementDirChanges
  BY <1>5 DEF EntitlementDirChanges, Meanwhile
<1>7. CASE ReleaseverChanges
  BY <1>7 DEF ReleaseverChanges, Meanwhile
<1>8. CASE Tick
  BY <1>8 DEF Tick, Meanwhile
<1>9. CASE OtherUser
  BY <1>9 DEF OtherUser, Meanwhile
<1> QED BY <1>1, <1>2, <1>3, <1>4, <1>5, <1>7, <1>8, <1>9 DEF Environment

LEMMA NextRInv == RInv /\ [Next]_vars => RInv'
<1> SUFFICES ASSUME RInv, UNCHANGED vars PROVE RInv'
  BY HookRInv, EnvironmentRInv DEF Next
<1>1. Holding' = Holding /\ in_container' = in_container
  BY DEF vars, machine, Holding, If, Readable, in_container
<1>2. Consistent' /\ Remembered' /\ Known' /\ Fresh'
  BY <1>1 DEF vars, machine, hook, history, RInv, Consistent, Remembered, Known, Fresh
<1>3. Justified'
  BY DEF vars, hook, history, RInv, Justified
<1>4. NoneMissed'
  BY DEF vars, hook, history, RInv, NoneMissed, Missed
<1> QED BY <1>2, <1>3, <1>4 DEF RInv

LEMMA Invariance == Spec => []RInv
BY InitRInv, NextRInv, PTL DEF Spec

-----------------------------------------------------------------------------
(***************************************************************************)
(* Only certificates are looked into, and reported.                        *)
(***************************************************************************)
CertFiles == EntitlementFiles \cap Certs

OnlyTellable ==
  /\ DOMAIN entitlements \subseteq EntitlementFiles
  /\ to_check \subseteq CertFiles
  /\ expired_names \subseteq CertFiles
  /\ said \subseteq Tellable

LEMMA TellableMessages ==
  /\ {<<"not root">>, <<"container">>, <<"not registered">>, <<"no entitlements">>}
       \subseteq Tellable
  /\ {"expired"} \X CertFiles \subseteq Tellable
  /\ {"release"} \X Releases \subseteq Tellable
<1>1. ASSUME NEW m \in Messages,
             \A f \in EntitlementFiles \ Certs : m # <<"expired", f>>
      PROVE  m \in Tellable
  BY <1>1 DEF Tellable, Certs
<1>2. {<<"not root">>, <<"container">>, <<"not registered">>, <<"no entitlements">>}
        \subseteq Tellable
  BY <1>1 DEF Messages
<1>3. ASSUME NEW f \in CertFiles PROVE <<"expired", f>> \in Tellable
  BY <1>1, <1>3 DEF Messages, CertFiles
<1>4. ASSUME NEW v \in Releases PROVE <<"release", v>> \in Tellable
  BY <1>1, <1>4 DEF Messages
<1>5. {"expired"} \X CertFiles \subseteq Tellable
  BY <1>3
<1>6. {"release"} \X Releases \subseteq Tellable
  BY <1>4
<1> QED BY <1>2, <1>5, <1>6

LEMMA HookOnlyTellable == OnlyTellable /\ Hook => OnlyTellable'
<1> SUFFICES ASSUME OnlyTellable, Hook PROVE OnlyTellable'
  OBVIOUS
<1>1. UNCHANGED machine
  BY DEF Hook, PostBaseSetup, HookReturns, CheckContainer, CheckConsumerDir, CheckConsumer,
     CheckEntitlementDir, CheckEntitlement, CheckExpiredDir, ScanEntitlements,
     DirectoryVanished, CheckCert, WarningThrows, WarnExpired, FindReleasever,
     ReadReleasever, Step
<1>2. DOMAIN entitlements' \subseteq EntitlementFiles
  BY <1>1 DEF machine, OnlyTellable
<1> USE <1>2, TellableMessages DEF OnlyTellable, Say
<1>3. CASE PostBaseSetup \/ HookReturns
  BY <1>3 DEF PostBaseSetup, HookReturns
<1>4. CASE CheckContainer \/ CheckConsumerDir \/ CheckConsumer
  BY <1>4 DEF CheckContainer, CheckConsumerDir, CheckConsumer
<1>5. CASE CheckEntitlementDir \/ CheckEntitlement \/ CheckExpiredDir
  BY <1>5 DEF CheckEntitlementDir, CheckEntitlement, CheckExpiredDir
<1>6. CASE ScanEntitlements
  BY <1>6 DEF ScanEntitlements, CertFiles, Certs
<1>7. CASE DirectoryVanished
  BY <1>7 DEF DirectoryVanished, Throw
<1>8. ASSUME NEW f \in to_check, CheckCert(f) PROVE OnlyTellable'
  BY <1>8 DEF CheckCert
<1>9. ASSUME NEW f \in to_check, WarningThrows(f) PROVE OnlyTellable'
  BY <1>9 DEF WarningThrows, Throw
<1>10. CASE WarnExpired
  BY <1>10 DEF WarnExpired
<1>11. CASE FindReleasever \/ ReadReleasever
  BY <1>11 DEF FindReleasever, ReadReleasever, get_releasever
<1> QED
  BY <1>3, <1>4, <1>5, <1>6, <1>7, <1>8, <1>9, <1>10, <1>11 DEF Hook

LEMMA EnvironmentOnlyTellable == OnlyTellable /\ Environment => OnlyTellable'
<1> SUFFICES ASSUME OnlyTellable, Environment PROVE OnlyTellable'
  OBVIOUS
<1>1. UNCHANGED hook
  BY DEF Environment, ConsumerFileChanges, ConsumerDirChanges, WriteEntitlement,
     RemoveEntitlement, EntitlementDirChanges, ReleaseverChanges, Tick, OtherUser, Meanwhile
<1>2. DOMAIN entitlements' \subseteq EntitlementFiles
  BY DEF Environment, ConsumerFileChanges, ConsumerDirChanges, WriteEntitlement, Restrict,
     RemoveEntitlement, EntitlementDirChanges, ReleaseverChanges, Tick, OtherUser, OnlyTellable
<1> QED BY <1>1, <1>2 DEF hook, OnlyTellable

LEMMA AlwaysTellable == Spec => []OnlyTellable
<1>1. Init => OnlyTellable
  BY DEF Init, NoHook, Entitlements, OnlyTellable
<1>2. OnlyTellable /\ [Next]_vars => OnlyTellable'
  <2>1. CASE UNCHANGED vars
    BY <2>1 DEF vars, machine, hook, OnlyTellable
  <2> QED BY <2>1, HookOnlyTellable, EnvironmentOnlyTellable DEF Next
<1> QED BY <1>1, <1>2, PTL DEF Spec

(***************************************************************************)
(* Everything the user is told was true at some moment of the hook, and is *)
(* about a certificate if it is about a file.                              *)
(***************************************************************************)
THEOREM ToldWithReason == Spec => []WarningsJustified
<1>1. RInv /\ OnlyTellable => WarningsJustified
  BY DEF RInv, Justified, OnlyTellable, WarningsJustified
<1> QED BY <1>1, Invariance, AlwaysTellable, PTL

(***************************************************************************)
(* A hook that returns has told everything that was true all the time.     *)
(***************************************************************************)
THEOREM ToldAll == Spec => []NothingMissed
<1>1. RInv => NothingMissed
  <2> SUFFICES ASSUME RInv, pc = "done", NEW m \in Tellable PROVE ~Missed(m)
    BY DEF NothingMissed, Missed
  <2>1. CASE m \in {<<"not root">>, <<"container">>, <<"not registered">>,
                    <<"no entitlements">>}
    BY <2>1 DEF RInv, NoneMissed
  <2>2. CASE m \in ({"expired"} \X EntitlementFiles)
    <3>1. PICK f \in EntitlementFiles : m = <<"expired", f>>
      BY <2>2
    <3>2. f \in Certs
      BY <3>1 DEF Tellable, Certs
    <3> QED BY <3>1, <3>2 DEF RInv, NoneMissed
  <2>3. CASE m \in ({"release"} \X Releases)
    <3>1. PICK v \in Releases : m = <<"release", v>>
      BY <2>3
    <3> QED BY <3>1 DEF RInv, NoneMissed
  <2> QED BY <2>1, <2>2, <2>3 DEF Tellable, Messages
<1> QED BY <1>1, Invariance, PTL

-----------------------------------------------------------------------------
(***************************************************************************)
(* Where the hook iterates over a directory it has seen it before, so that *)
(* a directory that is not there has been removed.                         *)
(***************************************************************************)
SeenBefore ==
  /\ pc = "consumer" => consumer_dir \/ removed
  /\ pc \in {"entitlement", "scan"} => entitlement_dir \/ removed

FInv == SeenBefore /\ FailsOnlyIfDisturbed

LEMMA StepDirs ==
  ASSUME NEW from, Step(from)
  PROVE  /\ pc = from
         /\ consumer_dir' = consumer_dir /\ entitlement_dir' = entitlement_dir
         /\ removed => removed'
BY DEF Step, Remember, machine

LEMMA HookFInv == FInv /\ Hook => FInv'
<1> SUFFICES ASSUME FInv, Hook PROVE FInv'
  OBVIOUS
<1> USE StepDirs DEF FInv, SeenBefore, FailsOnlyIfDisturbed, Goto
<1>1. CASE PostBaseSetup \/ HookReturns
  BY <1>1 DEF PostBaseSetup, HookReturns
<1>2. CASE CheckContainer \/ CheckConsumerDir \/ CheckConsumer
  BY <1>2 DEF CheckContainer, CheckConsumerDir, CheckConsumer
<1>3. CASE CheckEntitlementDir \/ CheckEntitlement
  BY <1>3 DEF CheckEntitlementDir, CheckEntitlement
<1>4. CASE CheckExpiredDir \/ ScanEntitlements
  BY <1>4 DEF CheckExpiredDir, ScanEntitlements
<1>5. CASE DirectoryVanished
  <2>1. removed
    BY <1>5 DEF DirectoryVanished
  <2> QED BY <1>5, <2>1 DEF DirectoryVanished, Throw
<1>6. ASSUME NEW f \in to_check, CheckCert(f) PROVE FInv'
  BY <1>6 DEF CheckCert
<1>7. ASSUME NEW f \in to_check, WarningThrows(f) PROVE FInv'
  BY <1>7 DEF WarningThrows, Throw
<1>8. CASE WarnExpired \/ FindReleasever \/ ReadReleasever
  BY <1>8 DEF WarnExpired, FindReleasever, ReadReleasever
<1> QED BY <1>1, <1>2, <1>3, <1>4, <1>5, <1>6, <1>7, <1>8 DEF Hook

\* A directory that is removed meanwhile is remembered.
LEMMA EnvironmentFInv == FInv /\ Environment => FInv'
<1> SUFFICES ASSUME FInv, Environment PROVE FInv'
  OBVIOUS
<1>1. Meanwhile
  BY DEF Environment, ConsumerFileChanges, ConsumerDirChanges, WriteEntitlement,
     RemoveEntitlement, EntitlementDirChanges, ReleaseverChanges, Tick, OtherUser
<1>2. pc' = pc /\ to_check' = to_check
  BY <1>1 DEF Meanwhile, hook
<1>3. pc # "idle" => /\ removed => removed'
                     /\ consumer_dir => consumer_dir' \/ removed'
                     /\ entitlement_dir => entitlement_dir' \/ removed'
  BY <1>1 DEF Meanwhile, Remember
<1> QED BY <1>2, <1>3 DEF FInv, SeenBefore, FailsOnlyIfDisturbed

(***************************************************************************)
(* An exception leaves the hook only after the removal of a directory or   *)
(* on a certificate with a brace in its name.                              *)
(***************************************************************************)
THEOREM FailsOnlyWithReason == Spec => []FailsOnlyIfDisturbed
<1>1. Init => FInv
  BY DEF Init, NoHook, FInv, SeenBefore, FailsOnlyIfDisturbed
<1>2. FInv /\ [Next]_vars => FInv'
  <2>1. CASE UNCHANGED vars
    BY <2>1 DEF vars, machine, hook, history, FInv, SeenBefore, FailsOnlyIfDisturbed
  <2> QED BY <2>1, HookFInv, EnvironmentFInv DEF Next
<1>3. FInv => FailsOnlyIfDisturbed
  BY DEF FInv
<1> QED BY <1>1, <1>2, <1>3, PTL DEF Spec

-----------------------------------------------------------------------------
(***************************************************************************)
(* Type correctness.  OnlyTellable types the hook but for its place.       *)
(***************************************************************************)
TypeInv == MachineTypeOK /\ pc \in Steps /\ HistoryTypeOK

LEMMA EnvironmentMachineTyped == MachineTypeOK /\ Environment => MachineTypeOK'
<1> SUFFICES ASSUME MachineTypeOK, Environment PROVE MachineTypeOK'
  OBVIOUS
<1> USE DEF MachineTypeOK, Meanwhile
<1>1. ASSUME NEW f \in ConsumerFiles, ConsumerFileChanges(f) PROVE MachineTypeOK'
  BY <1>1 DEF ConsumerFileChanges
<1>2. CASE ConsumerDirChanges
  BY <1>2 DEF ConsumerDirChanges
<1>3. ASSUME NEW f \in EntitlementFiles, WriteEntitlement(f) PROVE MachineTypeOK'
  <2>1. entitlements' \in Entitlements
    BY <1>3, EntitlementWritten DEF WriteEntitlement
  <2> QED BY <1>3, <2>1 DEF WriteEntitlement
<1>4. ASSUME NEW f \in EntitlementFiles, RemoveEntitlement(f) PROVE MachineTypeOK'
  <2>1. entitlements' \in Entitlements
    BY <1>4, EntitlementRemoved DEF RemoveEntitlement
  <2> QED BY <1>4, <2>1 DEF RemoveEntitlement
<1>5. CASE EntitlementDirChanges
  <2>1. entitlements' \in Entitlements
    BY <1>5, EntitlementsTyped DEF EntitlementDirChanges
  <2> QED BY <1>5, <2>1 DEF EntitlementDirChanges
<1>6. CASE ReleaseverChanges
  BY <1>6 DEF ReleaseverChanges
<1>7. CASE Tick
  BY <1>7, RhsmAssumption DEF Tick, Time
<1>8. CASE OtherUser
  BY <1>8 DEF OtherUser
<1> QED BY <1>1, <1>2, <1>3, <1>4, <1>5, <1>6, <1>7, <1>8 DEF Environment

LEMMA EnvironmentTypeInv == TypeInv /\ Environment => TypeInv'
<1> SUFFICES ASSUME TypeInv, Environment PROVE TypeInv'
  OBVIOUS
<1>1. MachineTypeOK'
  BY EnvironmentMachineTyped DEF TypeInv
<1>2. Meanwhile
  BY DEF Environment, ConsumerFileChanges, ConsumerDirChanges, WriteEntitlement,
     RemoveEntitlement, EntitlementDirChanges, ReleaseverChanges, Tick, OtherUser
<1>3. pc' = pc
  BY <1>2 DEF Meanwhile, hook
<1>4. HistoryTypeOK'
  <2>1. CASE UNCHANGED history
    BY <2>1 DEF history, TypeInv, HistoryTypeOK
  <2> QED BY <1>1, <1>2, <2>1, RememberTyped DEF Meanwhile, TypeInv
<1> QED BY <1>1, <1>3, <1>4 DEF TypeInv

LEMMA HookTypeInv == TypeInv /\ Hook => TypeInv'
<1> SUFFICES ASSUME TypeInv, Hook PROVE TypeInv'
  OBVIOUS
<1>1. UNCHANGED machine
  BY DEF Hook, PostBaseSetup, HookReturns, CheckContainer, CheckConsumerDir, CheckConsumer,
     CheckEntitlementDir, CheckEntitlement, CheckExpiredDir, ScanEntitlements,
     DirectoryVanished, CheckCert, WarningThrows, WarnExpired, FindReleasever,
     ReadReleasever, Step
<1>2. MachineTypeOK'
  BY <1>1 DEF machine, TypeInv, MachineTypeOK
<1>3. pc' \in Steps
  <2> USE DEF Goto, Throw
  <2>1. CASE PostBaseSetup \/ HookReturns
    BY <2>1 DEF PostBaseSetup, HookReturns, Steps
  <2>2. CASE CheckContainer \/ CheckConsumerDir \/ CheckConsumer
    BY <2>2 DEF CheckContainer, CheckConsumerDir, CheckConsumer, Steps
  <2>3. CASE CheckEntitlementDir \/ CheckEntitlement \/ CheckExpiredDir
    BY <2>3 DEF CheckEntitlementDir, CheckEntitlement, CheckExpiredDir, Steps
  <2>4. CASE ScanEntitlements \/ DirectoryVanished \/ WarnExpired
    BY <2>4 DEF ScanEntitlements, DirectoryVanished, WarnExpired, Steps
  <2>5. ASSUME NEW f \in to_check, CheckCert(f) \/ WarningThrows(f) PROVE pc' \in Steps
    BY <2>5 DEF CheckCert, WarningThrows, TypeInv, Steps
  <2>6. CASE FindReleasever \/ ReadReleasever
    BY <2>6 DEF FindReleasever, ReadReleasever, Steps
  <2> QED BY <2>1, <2>2, <2>3, <2>4, <2>5, <2>6 DEF Hook
<1>4. Remember \/ PostBaseSetup \/ HookReturns
  BY DEF Hook, CheckContainer, CheckConsumerDir, CheckConsumer, CheckEntitlementDir,
     CheckEntitlement, CheckExpiredDir, ScanEntitlements, DirectoryVanished, CheckCert,
     WarningThrows, WarnExpired, FindReleasever, ReadReleasever, Step
<1>5. HistoryTypeOK'
  <2>1. CASE Remember
    BY <1>2, <2>1, RememberTyped DEF TypeInv
  <2>2. CASE PostBaseSetup
    <3>1. Holding \subseteq Facts
      BY HoldingTyped DEF TypeInv
    <3> QED BY <2>2, <3>1 DEF PostBaseSetup, TypeInv, HistoryTypeOK
  <2>3. CASE HookReturns
    BY <2>3 DEF HookReturns, Forget, HistoryTypeOK
  <2> QED BY <1>4, <2>1, <2>2, <2>3
<1> QED BY <1>2, <1>3, <1>5 DEF TypeInv

(***************************************************************************)
(* Every variable has its type, at every moment: no file but one of the    *)
(* two directories is looked into, and nothing but the messages of         *)
(* print_warnings is said.                                                 *)
(***************************************************************************)
THEOREM RhsmTypeCorrect == Spec => []TypeOK
<1>1. Init => TypeInv
  <2> SUFFICES ASSUME Init PROVE TypeInv
    OBVIOUS
  <2>1. MachineTypeOK
    BY RhsmAssumption DEF Init, MachineTypeOK, Time
  <2>2. pc \in Steps /\ HistoryTypeOK
    BY DEF Init, NoHook, Steps, HistoryTypeOK
  <2> QED BY <2>1, <2>2 DEF TypeInv
<1>2. TypeInv /\ [Next]_vars => TypeInv'
  <2>1. CASE UNCHANGED vars
    BY <2>1 DEF vars, machine, hook, history, TypeInv, MachineTypeOK, HistoryTypeOK
  <2> QED BY <2>1, HookTypeInv, EnvironmentTypeInv DEF Next
<1>3. TypeInv /\ OnlyTellable => TypeOK
  <2>1. Tellable \subseteq Messages /\ CertFiles \subseteq EntitlementFiles
    BY DEF Tellable, CertFiles
  <2> QED BY <2>1, TypeOKParts DEF TypeInv, OnlyTellable, HookTypeOK
<1> QED BY <1>1, <1>2, <1>3, AlwaysTellable, PTL DEF Spec

=============================================================================
