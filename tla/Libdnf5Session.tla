--------------------------- MODULE Libdnf5Session ---------------------------
(***************************************************************************)
(* One run of dnf, as far as the plugins see it: which hook is called      *)
(* when, which metadata of the repositories are there when the             *)
(* post_transaction hook of the productid plugin looks for them, and which *)
(* product it finds in them (ProductCert).                                 *)
(*                                                                         *)
(* libdnf5 itself is not part of the repository.  It is modelled from what *)
(* the plugins rely on: post_base_setup comes first and its exceptions end *)
(* the run; metadata are downloaded after repos_configured, those that are *)
(* offered and asked for; the packages of a transaction come from          *)
(* repositories that have been loaded.                                     *)
(***************************************************************************)
EXTENDS ProductCert

CONSTANTS
  Repos,
  Types   \* the optional types of metadata

METADATA_TYPE_PRODUCTID == "productid"

ASSUME SessionAssumption == METADATA_TYPE_PRODUCTID \in Types

VARIABLES
  offered,         \* offered[r]: the types of metadata repository r provides
  enabled,         \* the enabled repositories
  optional_types,  \* the option optional_metadata_types
  loaded,          \* loaded[r]: the types downloaded for repository r
  todo,            \* the repositories of the transaction the loop has yet to visit
  visited,         \* in a set, the one it is at
  pc               \* where dnf is

session == <<offered, enabled, optional_types, loaded, todo, visited, pc>>
vars == <<session, decoding>>

TypeOK ==
  /\ DecodingTypeOK
  /\ offered \in [Repos -> SUBSET Types]
  /\ enabled \in SUBSET Repos
  /\ optional_types \in SUBSET Types
  /\ loaded \in [Repos -> SUBSET Types]
  /\ todo \in SUBSET enabled /\ visited \in SUBSET enabled
  /\ pc \in {"base_setup", "configure", "repos_configured", "load", "resolve",
             "post_transaction", "end"}

\* dnf has read its configuration.
Init ==
  /\ offered \in [Repos -> SUBSET Types]
  /\ enabled \in SUBSET Repos
  /\ optional_types \in SUBSET Types
  /\ loaded = [r \in Repos |-> {}]
  /\ todo = {} /\ visited = {}
  /\ pc = "base_setup"
  /\ NothingDecoded

-----------------------------------------------------------------------------
\* The post_base_setup hook of the rhsm plugin returns, or it throws.
PostBaseSetup ==
  /\ pc = "base_setup"
  /\ pc' \in {"configure", "end"}
  /\ UNCHANGED <<offered, enabled, optional_types, loaded, todo, visited, decoding>>

\* The command asks for the metadata it needs.
Configure ==
  /\ pc = "configure"
  /\ \E needed \in SUBSET Types : optional_types' = optional_types \cup needed
  /\ pc' = "repos_configured"
  /\ UNCHANGED <<offered, enabled, loaded, todo, visited, decoding>>

\* Mutant: the option is left as it is.
repos_configured_hook_silent ==
  /\ pc = "repos_configured"
  /\ pc' = "load"
  /\ UNCHANGED <<offered, enabled, optional_types, loaded, todo, visited, decoding>>

repos_configured_hook ==
  /\ pc = "repos_configured"
  /\ optional_types' = {METADATA_TYPE_PRODUCTID}
  /\ pc' = "load"
  /\ UNCHANGED <<offered, enabled, loaded, todo, visited, decoding>>

LoadRepos ==
  /\ pc = "load"
  /\ loaded' = [r \in Repos |-> IF r \in enabled THEN offered[r] \cap optional_types ELSE {}]
  /\ pc' = "resolve"
  /\ UNCHANGED <<offered, enabled, optional_types, todo, visited, decoding>>

\* get_transaction_repos is called when the transaction is done.
RunTransaction ==
  /\ pc = "resolve"
  /\ todo' \in SUBSET enabled
  /\ pc' = "post_transaction"
  /\ UNCHANGED <<offered, enabled, optional_types, loaded, visited, decoding>>

\* What get_metadata_path can lead to.
metadata(r) == IF METADATA_TYPE_PRODUCTID \in loaded[r] THEN Contents ELSE {"none"}

(***************************************************************************)
(* The loop of post_transaction_hook over the repositories of the          *)
(* transaction; what it does with a product is ProductId's matter.         *)
(***************************************************************************)
VisitRepo(r) ==
  /\ pc = "post_transaction" /\ step \in Finished
  /\ visited' = {r} /\ todo' = todo \ {r}
  /\ \E f \in metadata(r) : Open(f)
  /\ UNCHANGED <<offered, enabled, optional_types, loaded, pc>>

DecodeMetadata ==
  /\ pc = "post_transaction"
  /\ Decode
  /\ UNCHANGED session

HookReturns ==
  /\ pc = "post_transaction" /\ step \in Finished /\ todo = {}
  /\ pc' = "end"
  /\ UNCHANGED <<offered, enabled, optional_types, loaded, todo, visited, decoding>>

Next ==
  \/ PostBaseSetup \/ Configure \/ repos_configured_hook
  \/ LoadRepos \/ RunTransaction
  \/ \E r \in todo : VisitRepo(r)
  \/ DecodeMetadata
  \/ HookReturns

Spec == Init /\ [][Next]_vars

-----------------------------------------------------------------------------
(***************************************************************************)
(* Whatever the user has configured and the command has asked for, and     *)
(* whatever the repositories before it had, a repository of the            *)
(* transaction that offers a certificate about a product is not skipped    *)
(* (repos_configured_hook, post_transaction_hook).                         *)
(***************************************************************************)
OfferedProductFound ==
  step = "skipped" =>
    \A r \in visited :
      METADATA_TYPE_PRODUCTID \in offered[r] =>
        file # "none" /\ (file = "certificate" => Products = {})

(***************************************************************************)
(* What the log message of repos_configured_hook says, and the code does   *)
(* not do: productid is an additional metadata type, next to those that    *)
(* the user and the command have asked for.                                *)
(***************************************************************************)
TypeIsAdditional ==
  [][pc = "repos_configured" => optional_types \subseteq optional_types']_vars

=============================================================================
