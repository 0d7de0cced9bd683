----------------------------- MODULE ProductCert -----------------------------
(***************************************************************************)
(* How the productid plugin gets the product ID out of the metadata of one *)
(* repository: the file is decompressed and parsed, and the extensions of  *)
(* the certificate are searched for the first OID of a Red Hat product     *)
(* (utils.cpp, and the loop of post_transaction_hook that calls it).  When *)
(* that happens is a matter of Libdnf5Session.                             *)
(*                                                                         *)
(* An OID is a sequence of numbers, and a number a sequence of digits.     *)
(* Only what follows 1.3.6.1.4.1.2312.9. is modelled; all OIDs have that   *)
(* in common.  The search works on texts of limited length, and that is    *)
(* what can go wrong.                                                      *)
(***************************************************************************)
EXTENDS Integers, SequencesExt

CONSTANTS
  Certificates,  \* the certificates: sequences of the OIDs of their extensions
  MaxBuff        \* MAX_BUFF, less the characters of 1.3.6.1.4.1.2312.9.

Digits == {"0", "1", "2", "3", "4", "5", "6", "7", "8", "9"}

Number == Seq(Digits) \ {<<>>}

OID == Seq(Number) \ {<<>>}

ASSUME ProductCertAssumption ==
  /\ Certificates \subseteq Seq(OID)
  /\ MaxBuff \in Nat

(***************************************************************************)
(* "none": the repository has no productid metadata.  "corrupt": it cannot *)
(* be decompressed.  "empty": there is nothing in it.  "garbage": it is no *)
(* certificate.                                                            *)
(***************************************************************************)
Contents == {"corrupt", "empty", "garbage", "certificate"}
Files == {"none"} \cup Contents

VARIABLES
  file,        \* the metadata file
  extensions,  \* the OIDs in the certificate
  step,        \* of the loop body
  next,        \* the next extension
  product_id

decoding == <<file, extensions, step, next, product_id>>

Finished == {"skipped", "decoded"}

DecodingTypeOK ==
  /\ file \in Files
  /\ extensions \in Certificates \cup {<<>>}
  /\ step \in {"get_path", "decompress", "parse", "search"} \cup Finished
  /\ next \in 1..(Len(extensions) + 1)
  /\ step = "decoded" <=> product_id # <<>>

-----------------------------------------------------------------------------
\* Mutant: the dot at the end is forgotten.
REDHAT_OID == <<"1">>

\* The number of a product follows 1.3.6.1.4.1.2312.9.1. with the dot at the end.
REDHAT_PRODUCT_OID == <<"1", ".">>

Dotted(oid) ==
  FlattenSeq([n \in DOMAIN oid |-> IF n = 1 THEN oid[n] ELSE <<".">> \o oid[n]])

\* Into a buffer; the last character of the buffer is a null.
OBJ_obj2txt(oid) ==
  LET text == Dotted(oid)
  IN  SubSeq(text, 1, IF Len(text) < MaxBuff THEN Len(text) ELSE MaxBuff - 1)

\* The position of the first dot, 0 when there is none.
find_dot(text) == SelectInSeq(text, LAMBDA c : c = ".")

(***************************************************************************)
(* The part of the text between the prefix and the next dot, in a set that *)
(* is empty if the text has no such part.                                  *)
(***************************************************************************)
product_id_in(text) ==
  LET rest == SubSeq(text, Len(REDHAT_PRODUCT_OID) + 1, Len(text))
  IN  IF IsPrefix(REDHAT_PRODUCT_OID, text) /\ find_dot(rest) # 0
      THEN {SubSeq(rest, 1, find_dot(rest) - 1)} ELSE {}

-----------------------------------------------------------------------------
\* No repository has been looked at.
NothingDecoded ==
  /\ file = "none" /\ extensions = <<>>
  /\ step = "skipped" /\ next = 1 /\ product_id = <<>>

\* The loop turns to a repository with this file.
Open(f) ==
  /\ file' = f
  /\ extensions' \in IF f = "certificate" THEN Certificates ELSE {<<>>}
  /\ step' = "get_path" /\ next' = 1 /\ product_id' = <<>>

Goto(s) == step' = s /\ UNCHANGED <<file, extensions>>

GetMetadataPath ==
  /\ step = "get_path"
  /\ Goto(IF file = "none" THEN "skipped" ELSE "decompress")
  /\ UNCHANGED <<next, product_id>>

\* decompress_productid_cert
Decompress ==
  /\ step = "decompress"
  /\ Goto(IF file \in {"corrupt", "empty"} THEN "skipped" ELSE "parse")
  /\ UNCHANGED <<next, product_id>>

\* get_product_id_from_cert_content
Parse ==
  /\ step = "parse"
  /\ Goto(IF file = "garbage" THEN "skipped" ELSE "search")
  /\ UNCHANGED <<next, product_id>>

\* The extension has no product ID to offer.
NextExtension ==
  /\ step = "search" /\ next <= Len(extensions)
  /\ product_id_in(OBJ_obj2txt(extensions[next])) = {}
  /\ next' = next + 1
  /\ Goto("search")
  /\ UNCHANGED product_id

\* It has one; an empty one is refused after the loop.
FoundProductId ==
  /\ step = "search" /\ next <= Len(extensions)
  /\ product_id' \in product_id_in(OBJ_obj2txt(extensions[next]))
  /\ Goto(IF product_id' = <<>> THEN "skipped" ELSE "decoded")
  /\ UNCHANGED next

\* Mutant: the absence of a product goes unnoticed.
NoneFoundAccepted ==
  /\ step = "search" /\ next > Len(extensions)
  /\ Goto("decoded")
  /\ UNCHANGED <<next, product_id>>

NoneFound ==
  /\ step = "search" /\ next > Len(extensions)
  /\ Goto("skipped")
  /\ UNCHANGED <<next, product_id>>

Decode ==
  \/ GetMetadataPath \/ Decompress \/ Parse
  \/ NextExtension \/ FoundProductId \/ NoneFound

-----------------------------------------------------------------------------
(***************************************************************************)
(* What the search should find, on numbers: an OID of the namespace that   *)
(* says something about a product, and whose product ID fits the buffer    *)
(* with a dot on either side.                                              *)
(***************************************************************************)
AboutProduct(oid) ==
  /\ Len(oid) > 2
  /\ oid[1] = <<"1">>
  /\ Len(oid[2]) + 3 < MaxBuff

Products == {n \in DOMAIN extensions : AboutProduct(extensions[n])}

(***************************************************************************)
(* The product ID is the number of the product in the first extension that *)
(* is about one, whatever other extensions there are and however long      *)
(* their OIDs (get_product_id_from_cert_content).  It is a number, so that *)
(* the next hook finds the certificate by the name of its file.            *)
(***************************************************************************)
FirstProductDecoded ==
  step = "decoded" =>
    \E n \in Products : /\ \A m \in Products : n <= m
                        /\ product_id = extensions[n][2]

=============================================================================
