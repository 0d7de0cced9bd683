------------------------- MODULE ProductIdRefinement -------------------------
(***************************************************************************)
(* ProductId implements ProductCerts: the refinement mapping.              *)
(***************************************************************************)
EXTENDS ProductId

Promise == INSTANCE ProductCerts WITH
  in_use     <- InUse,
  brought_in <- transaction_repos,
  certs      <- {p \in Products : OnDisk(p)},
  recorded   <- [p \in Products |-> RecordedRepos(p)]

(***************************************************************************)
(* Every step of a transaction, of the hook or of the rpm command keeps    *)
(* the promise of the plugin, also when directories, certificates or       *)
(* productid.json cannot be written, when metadata are missing, and when   *)
(* the process ends anywhere in post_transaction_hook.  Each of the other  *)
(* faults breaks it: certificates or productid.json changed from outside   *)
(* (admin, db_lost), an unnoticed short write, and a productid.json that   *)
(* is there but cannot be read (read), whose records the hook then forgets *)
(* although they are required.                                             *)
(***************************************************************************)
KeepsPromise == Promise!Spec

=============================================================================
