------------------------ MODULE Libdnf5SessionProofs ------------------------
(***************************************************************************)
(* The invariants of Libdnf5Session, for all repositories, types of        *)
(* metadata, certificates and sizes of the buffer.                         *)
(***************************************************************************)
EXTENDS Libdnf5Session, ProductCertProofs

(***************************************************************************)
(* productid metadata are asked for before any are downloaded, so that     *)
(* what is offered is there when the transaction is done.                  *)
(***************************************************************************)
Asked ==
  pc = "load" => METADATA_TYPE_PRODUCTID \in optional_types

LoadedAsOffered ==
  pc \in {"resolve", "post_transaction"} =>
    \A r \in enabled :
      METADATA_TYPE_PRODUCTID \in offered[r] => METADATA_TYPE_PRODUCTID \in loaded[r]

\* No repository of the transaction is visited without what it offers.
VisitedHasFile ==
  \A r \in visited : METADATA_TYPE_PRODUCTID \in offered[r] => file # "none"

SessionTypeOK ==
  /\ offered \in [Repos -> SUBSET Types]
  /\ enabled \in SUBSET Repos
  /\ optional_types \in SUBSET Types
  /\ loaded \in [Repos -> SUBSET Types]
  /\ todo \in SUBSET enabled /\ visited \in SUBSET enabled
  /\ pc \in {"base_setup", "configure", "repos_configured", "load", "resolve",
             "post_transaction", "end"}

SInv == DecodingInv /\ SessionTypeOK /\ Asked /\ LoadedAsOffered /\ VisitedHasFile

LEMMA InitSInv == Init => SInv
<1> SUFFICES ASSUME Init PROVE SInv
  OBVIOUS
<1>1. DecodingInv
  BY NothingDecodedInv DEF Init
<1> QED BY <1>1 DEF Init, SInv, SessionTypeOK, Asked, LoadedAsOffered, VisitedHasFile

(***************************************************************************)
(* What comes before the transaction decodes nothing and visits nothing.   *)
(***************************************************************************)
LEMMA BeforeTransactionSInv ==
  ASSUME SInv, PostBaseSetup \/ Configure \/ repos_configured_hook \/ RunTransaction
  PROVE  SInv'
<1> USE SessionAssumption DEF SInv, SessionTypeOK, Asked, LoadedAsOffered, VisitedHasFile
<1>1. UNCHANGED decoding
  BY DEF PostBaseSetup, Configure, repos_configured_hook, RunTransaction
<1>2. DecodingInv' /\ file' = file
  BY <1>1, DecodingUnchangedInv DEF decoding
<1>3. CASE PostBaseSetup
  BY <1>2, <1>3 DEF PostBaseSetup
<1>4. CASE Configure
  BY <1>2, <1>4 DEF Configure
<1>5. CASE repos_configured_hook
  BY <1>2, <1>5 DEF repos_configured_hook
<1>6. CASE RunTransaction
  BY <1>2, <1>6 DEF RunTransaction
<1> QED BY <1>3, <1>4, <1>5, <1>6

\* All that an enabled repository offers and that was asked for is downloaded.
LEMMA LoadReposSInv ==
  ASSUME SInv, LoadRepos
  PROVE  SInv'
<1> USE DEF SInv
<1>1. DecodingInv' /\ file' = file
  BY DecodingUnchangedInv DEF LoadRepos, decoding
<1>2. /\ UNCHANGED <<offered, enabled, optional_types, todo, visited>>
      /\ pc = "load" /\ pc' = "resolve"
      /\ loaded' = [r \in Repos |-> IF r \in enabled THEN offered[r] \cap optional_types
                                    ELSE {}]
  BY DEF LoadRepos
<1>3. SessionTypeOK'
  BY <1>2 DEF SessionTypeOK
<1>4. LoadedAsOffered'
  BY <1>2 DEF Asked, LoadedAsOffered, SessionTypeOK
<1> QED BY <1>1, <1>2, <1>3, <1>4 DEF Asked, VisitedHasFile

\* A repository that offers metadata is visited with a file.
LEMMA VisitRepoSInv ==
  ASSUME SInv, NEW r \in todo, VisitRepo(r)
  PROVE  SInv'
<1> USE DEF SInv
<1>1. /\ UNCHANGED <<offered, enabled, optional_types, loaded, pc>>
      /\ pc = "post_transaction" /\ visited' = {r} /\ todo' = todo \ {r}
  BY DEF VisitRepo
<1>2. PICK f \in metadata(r) : Open(f)
  BY DEF VisitRepo
<1>3. f \in Files /\ file' = f
  BY <1>2 DEF metadata, Files, Open
<1>4. DecodingInv'
  BY <1>2, <1>3, OpenInv
<1>5. VisitedHasFile'
  <2>1. METADATA_TYPE_PRODUCTID \in offered[r] => f \in Contents
    BY <1>1, <1>2 DEF LoadedAsOffered, SessionTypeOK, metadata
  <2>2. "none" \notin Contents
    BY DEF Contents
  <2> QED BY <1>1, <1>3, <2>1, <2>2 DEF VisitedHasFile
<1>6. SessionTypeOK'
  BY <1>1 DEF SessionTypeOK
<1> QED BY <1>1, <1>4, <1>5, <1>6 DEF Asked, LoadedAsOffered

\* The loop body works on the file it was given.
LEMMA DecodeMetadataSInv ==
  ASSUME SInv, DecodeMetadata
  PROVE  SInv'
<1>1. DecodingInv'
  BY DecodeInv DEF SInv, DecodeMetadata
<1>2. file' = file /\ UNCHANGED session
  BY DEF DecodeMetadata, Decode, Goto, GetMetadataPath, Decompress, Parse, NextExtension,
         FoundProductId, NoneFound
<1> QED BY <1>1, <1>2
    DEF SInv, session, SessionTypeOK, Asked, LoadedAsOffered, VisitedHasFile

LEMMA HookReturnsSInv ==
  ASSUME SInv, HookReturns
  PROVE  SInv'
<1>1. DecodingInv' /\ file' = file
  BY DecodingUnchangedInv DEF SInv, HookReturns, decoding
<1> QED BY <1>1 DEF SInv, HookReturns, SessionTypeOK, Asked, LoadedAsOffered, VisitedHasFile

LEMMA SessionInvariance == Spec => []SInv
<1>1. SInv /\ [Next]_vars => SInv'
  <2> SUFFICES ASSUME SInv, [Next]_vars PROVE SInv'
    OBVIOUS
  <2>1. CASE UNCHANGED vars
    <3>1. UNCHANGED session /\ UNCHANGED decoding
      BY <2>1 DEF vars
    <3>2. DecodingInv' /\ file' = file
      BY <3>1, DecodingUnchangedInv DEF SInv, decoding
    <3> QED BY <3>1, <3>2
        DEF SInv, session, SessionTypeOK, Asked, LoadedAsOffered, VisitedHasFile
  <2> QED BY <2>1, BeforeTransactionSInv, LoadReposSInv, VisitRepoSInv, DecodeMetadataSInv,
             HookReturnsSInv DEF Next
<1> QED BY <1>1, InitSInv, PTL DEF Spec

-----------------------------------------------------------------------------
(***************************************************************************)
(* Every variable keeps its type.                                          *)
(***************************************************************************)
THEOREM SessionTypeCorrect == Spec => []TypeOK
<1>1. SInv => TypeOK
  BY DEF SInv, SessionTypeOK, DecodingInv, TypeOK
<1> QED BY <1>1, SessionInvariance, PTL

(***************************************************************************)
(* The product ID that is found is the number of the product in the first  *)
(* extension that is about one (get_product_id_from_cert_content).         *)
(***************************************************************************)
THEOREM FirstProductFound == Spec => []FirstProductDecoded
<1>1. SInv => FirstProductDecoded
  BY DEF SInv, DecodingInv
<1> QED BY <1>1, SessionInvariance, PTL

(***************************************************************************)
(* A repository of the transaction that offers a certificate about a       *)
(* product is not skipped (repos_configured_hook, post_transaction_hook).  *)
(***************************************************************************)
THEOREM OfferedIsFound == Spec => []OfferedProductFound
<1>1. SInv => OfferedProductFound
  BY DEF SInv, DecodingInv, SkippedIfNone, VisitedHasFile, OfferedProductFound
<1> QED BY <1>1, SessionInvariance, PTL

=============================================================================
