----------------------------- MODULE ProductCerts -----------------------------
(***************************************************************************)
(* What the productid plugin promises: which product certificates come and *)
(* go, and what productid.json says about them, without the files, the     *)
(* steps of the hook, or the map it works on.                              *)
(*                                                                         *)
(* A certificate is installed one at a time and only for a repository of   *)
(* the transaction, removed one at a time and only if no repository in use *)
(* is recorded with it, and the record is replaced as a whole, so that it  *)
(* never forgets a repository in use nor names one without justification.  *)
(* A hook may end at any time, whatever it has done.                       *)
(***************************************************************************)
CONSTANTS
  Products,
  Repos,
  CertsOf    \* CertsOf[r]: the products repository r may carry a certificate for

VARIABLES
  in_use,      \* the repositories that have an RPM installed
  brought_in,  \* the repositories of the transaction the running hook is for
  certs,       \* the products with a certificate on disk
  recorded     \* recorded[p]: the repositories that are recorded with product p

vars == <<in_use, brought_in, certs, recorded>>

Init ==
  /\ in_use = {}
  /\ brought_in = {}
  /\ certs \in SUBSET Products
  /\ recorded = [p \in Products |-> {}]

\* dnf installs packages of the repositories rs, and removes or replaces others.
Transact(rs) ==
  /\ brought_in = {}
  /\ brought_in' = rs
  /\ in_use' \in SUBSET (in_use \cup rs)
  /\ UNCHANGED <<certs, recorded>>

\* The last RPM of some repositories is removed, and no plugin is told.
StopUsing ==
  /\ in_use' \in SUBSET in_use
  /\ UNCHANGED <<brought_in, certs, recorded>>

Install(p) ==
  /\ \E r \in brought_in : p \in CertsOf[r]
  /\ certs' = certs \cup {p}
  /\ UNCHANGED <<in_use, brought_in, recorded>>

Remove(p) ==
  /\ recorded[p] \cap in_use = {}
  /\ certs' = certs \ {p}
  /\ UNCHANGED <<in_use, brought_in, recorded>>

\* The repositories that may, and those that must be recorded with product p.
Justified(p) == recorded[p] \cup {r \in brought_in : p \in CertsOf[r]}
Required(p)  == recorded[p] \cap in_use

Record ==
  /\ recorded' \in [Products -> SUBSET Repos]
  /\ \A p \in Products : recorded'[p] \subseteq Justified(p)
  /\ \A p \in certs : Required(p) \subseteq recorded'[p]
  /\ \A p \in Products \ certs : recorded'[p] = {}
  /\ UNCHANGED <<in_use, brought_in, certs>>

Finish ==
  /\ brought_in' = {}
  /\ UNCHANGED <<in_use, certs, recorded>>

Next ==
  \/ \E rs \in SUBSET Repos : Transact(rs)
  \/ StopUsing
  \/ \E p \in Products : Install(p) \/ Remove(p)
  \/ Record
  \/ Finish

Spec == Init /\ [][Next]_vars

=============================================================================
