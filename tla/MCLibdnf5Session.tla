-------------------------- MODULE MCLibdnf5Session --------------------------
(***************************************************************************)
(* A finite instance of Libdnf5Session for TLC.                            *)
(***************************************************************************)
EXTENDS Libdnf5Session

(***************************************************************************)
(* 1 is the namespace of the products, 13 only begins like it.  The        *)
(* shorter numbers fit the buffer with a dot on either side, 31313 does    *)
(* not.                                                                    *)
(***************************************************************************)
SmallOIDs ==
  LET Spaces  == {<<"1">>, <<"1", "3">>}
      Numbers == {<<"3">>, <<"1", "3">>, <<"3", "1", "3", "1", "3">>}
  IN  {<<space>> : space \in Spaces}
        \cup (Spaces \X Numbers)
        \cup (Spaces \X Numbers \X {<<"1">>})
        \cup (Spaces \X Numbers \X {<<"1">>} \X {<<"2">>})

SmallCertificates == BoundedSeq(SmallOIDs, 2)
=============================================================================
