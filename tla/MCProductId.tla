---------------------------- MODULE MCProductId ----------------------------
(***************************************************************************)
(* Finite instances of ProductId for TLC.                                  *)
(***************************************************************************)
EXTENDS ProductIdRefinement, TLC

CONSTANTS
  p1, p2,      \* products
  license,     \* a .pem file whose name is not a number
  r1, r2, r3,  \* repositories
  k1, k2       \* packages

\* Two repositories of the same product.
SharedProduct == [r \in Repos |-> {p1}]

\* One that has changed its product, one that has not, one without any.
ChangingProduct == [r \in Repos |-> CASE r = r1 -> {p1, p2}
                                      [] r = r2 -> {p1}
                                      [] r = r3 -> {}]

\* Sound with SharedProduct: neither the packages nor the repositories differ.
Interchangeable == Permutations({k1, k2}) \cup Permutations({r1, r2})
============================================================================
