------------------------------- MODULE MCRhsm -------------------------------
(***************************************************************************)
(* Finite instances of Rhsm for TLC.                                       *)
(***************************************************************************)
EXTENDS Rhsm

CONSTANTS
  cert,        \* the consumer certificate
  e1, e2, key  \* entitlement certificates, and the key of one
=============================================================================
