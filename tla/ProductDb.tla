------------------------------ MODULE ProductDb ------------------------------
(***************************************************************************)
(* The product database of the productid plugin (productdb.hpp and         *)
(* productdb.cpp): the in-memory map from product IDs to product records,  *)
(* its JSON document on disk, and the conversions between the two.         *)
(*                                                                         *)
(* The module has no variables.  An operator that modifies a ProductDb in  *)
(* the code returns the new map here; an operator that looks at the        *)
(* certificate directories takes their contents as arguments.              *)
(***************************************************************************)
EXTENDS Functions

CONSTANTS
  Products,   \* product IDs: the numeric names of product certificates
  Repos       \* IDs of the RPM repositories

(***************************************************************************)
(* A product_cert_path is "" or a file of one of the two directories; with *)
(* the product ID as the key of the record, the directory says which file. *)
(* is_installed is not a field: every constructor of ProductRecord sets it *)
(* to TRUE exactly when it sets a path.  product_id equals the key.        *)
(***************************************************************************)
CertPath == {"", "product", "product-default"}

ProductRecord == [repos : SUBSET Repos, path : CertPath]

ProductMap == UNION {[S -> ProductRecord] : S \in SUBSET Products}

NoProducts == [p \in {} |-> [repos |-> {}, path |-> ""]]

is_installed(record) == record.path # ""

(***************************************************************************)
(* ProductRecord(product_id): the certificate is looked up on disk, first  *)
(* in /etc/pki/product, then in /etc/pki/product-default.                  *)
(***************************************************************************)
FindCert(p, inProduct, inDefault) ==
  IF p \in inProduct THEN "product"
  ELSE IF p \in inDefault THEN "product-default" ELSE ""

(***************************************************************************)
(* ProductRecord(product_id, product_cert_path): the path is kept only if  *)
(* the file exists.                                                        *)
(***************************************************************************)
NewProductRecord(path, exists) ==
  [repos |-> {}, path |-> IF exists THEN path ELSE ""]

has_product_id(products, p) == p \in DOMAIN products

\* std::map::insert: a record that is already there is kept.
add_product_id(products, p, record) ==
  [q \in DOMAIN products \cup {p} |->
     IF q \in DOMAIN products THEN products[q] ELSE record]

\* Mutant: the record outlives the certificate.
keep_product_id(products, p) == products

remove_product_id(products, p) == Restrict(products, DOMAIN products \ {p})

add_repo_id(products, p, r) ==
  [products EXCEPT ![p] = [repos |-> @.repos \cup {r}, path |-> @.path]]

(***************************************************************************)
(* The file /var/lib/rhsm/productid.json as read_product_db can find it:   *)
(*   "missing"    there is no file, or it cannot be opened;                *)
(*   "malformed"  it does not parse, or it is not an object of arrays of   *)
(*                strings;                                                 *)
(*   "null"       the JSON value null, which is not an object either;      *)
(*   "object"     an object whose members are data.                        *)
(***************************************************************************)
JsonObject == UNION {[S -> SUBSET Repos] : S \in SUBSET Products}

NoMembers == [p \in {} |-> {}]

DbFile == [kind : {"missing", "malformed", "null", "object"}, data : JsonObject]

MissingFile   == [kind |-> "missing",   data |-> NoMembers]
MalformedFile == [kind |-> "malformed", data |-> NoMembers]

\* Mutant: products without a certificate are written as well.
to_json_all(products) ==
  [kind |-> "object", data |-> [p \in DOMAIN products |-> products[p].repos]]

(***************************************************************************)
(* to_json: an empty map gives the empty object; otherwise a member is     *)
(* written for every installed product.  When there are products and none  *)
(* of them is installed, root keeps its initial value, null.               *)
(***************************************************************************)
to_json(products) ==
  LET installed == {p \in DOMAIN products : is_installed(products[p])}
  IN  IF DOMAIN products # {} /\ installed = {}
      THEN [kind |-> "null", data |-> NoMembers]
      ELSE [kind |-> "object", data |-> [p \in installed |-> products[p].repos]]

(***************************************************************************)
(* read_product_db: every member of the object becomes a record with its   *)
(* repositories and with the certificate found on disk at that moment.     *)
(* For any other file the function throws and leaves products empty.       *)
(***************************************************************************)
read_product_db(file, inProduct, inDefault) ==
  IF file.kind = "object"
  THEN [p \in DOMAIN file.data |->
          [repos |-> file.data[p], path |-> FindCert(p, inProduct, inDefault)]]
  ELSE NoProducts

=============================================================================
