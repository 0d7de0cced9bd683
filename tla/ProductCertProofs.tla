-------------------------- MODULE ProductCertProofs --------------------------
(***************************************************************************)
(* The search for the product ID in the texts of the OIDs finds what       *)
(* ProductCert says it should, on numbers (SearchCorrect), for every       *)
(* certificate and every size of the buffer, and so does the loop over the *)
(* extensions (DecodeInv).                                                 *)
(*                                                                         *)
(* The text of an OID is a concatenation of any number of parts.  What is  *)
(* needed of it is proved by induction, in the form of the least number    *)
(* for which it does not hold.                                             *)
(***************************************************************************)
EXTENDS ProductCert, SequenceTheorems, WellFoundedInduction, TLAPS

(***************************************************************************)
(* Concatenation of any number of sequences.                               *)
(***************************************************************************)
\* A set of natural numbers has a least element.
LEMMA LeastElement ==
  ASSUME NEW T \in SUBSET Nat, T # {}
  PROVE  \E n \in T : \A m \in T : n <= m
<1> DEFINE R == OpToRel(<, Nat)
<1>1. PICK n \in T : \A m \in T : <<m, n>> \notin R
  <2> HIDE DEF R
  <2>1. IsWellFoundedOn(R, Nat)
    BY NatLessThanWellFounded DEF R
  <2> QED BY <2>1, WFMin
<1>2. ASSUME NEW m \in T PROVE n <= m
  <2>1. ~(m < n)
    BY <1>1 DEF OpToRel
  <2> QED BY <2>1
<1> QED BY <1>2

\* f[i] is the concatenation of the first i of n parts.
Concatenates(f, parts, n) ==
  f = [i \in 1..n |-> IF i = 1 THEN parts[i] ELSE f[i - 1] \o parts[i]]

\* One more part.
LEMMA ConcatenateOneMore ==
  ASSUME NEW parts, NEW n \in Nat \ {0}, NEW f, Concatenates(f, parts, n - 1)
  PROVE  \E g : Concatenates(g, parts, n)
<1> DEFINE part(i) == IF i = 1 THEN parts[i] ELSE f[i - 1] \o parts[i]
           g == [i \in 1..n |-> part(i)]
<1>1. ASSUME NEW i \in 1..(n - 1) PROVE f[i] = g[i]
  <2>1. f[i] = part(i)
    <3> HIDE DEF g
    <3> QED BY DEF Concatenates
  <2>2. i \in 1..n
    OBVIOUS
  <2>3. g[i] = part(i)
    <3> HIDE DEF part
    <3> QED BY <2>2
  <2> QED BY <2>1, <2>3
<1>2. ASSUME NEW i \in 1..n PROVE g[i] = IF i = 1 THEN parts[i] ELSE g[i - 1] \o parts[i]
  <2>1. i # 1 => i - 1 \in 1..(n - 1)
    OBVIOUS
  <2>2. i # 1 => f[i - 1] = g[i - 1]
    BY <1>1, <2>1
  <2> QED BY <2>2
<1>3. Concatenates(g, parts, n)
  BY <1>2 DEF Concatenates
<1> QED BY <1>3

LEMMA ConcatenationExists ==
  ASSUME NEW parts, NEW n \in Nat
  PROVE  \E f : Concatenates(f, parts, n)
<1> DEFINE T == {m \in Nat : ~ \E f : Concatenates(f, parts, m)}
<1>1. ASSUME T # {} PROVE FALSE
  <2>1. PICK m \in T : \A k \in T : m <= k
    <3>1. T \in SUBSET Nat
      OBVIOUS
    <3> HIDE DEF T
    <3> QED BY <1>1, <3>1, LeastElement
  <2>2. m # 0
    <3>1. Concatenates([i \in 1..0 |-> <<>>], parts, 0)
      BY DEF Concatenates
    <3> QED BY <3>1
  <2>3. m - 1 \in Nat /\ ~(m <= m - 1)
    BY <2>2
  <2>4. m - 1 \notin T
    BY <2>1, <2>3
  <2>5. \E f : Concatenates(f, parts, m - 1)
    BY <2>3, <2>4
  <2> QED BY <2>1, <2>2, <2>5, ConcatenateOneMore
<1> QED BY <1>1

\* FlattenSeq of SequencesExt is such a concatenation.
LEMMA FlattenConcatenates ==
  ASSUME NEW parts, Len(parts) \in Nat \ {0}
  PROVE  \E f : Concatenates(f, parts, Len(parts)) /\ FlattenSeq(parts) = f[Len(parts)]
<1> DEFINE F == CHOOSE f :
     f = [i \in 1..Len(parts) |-> IF i = 1 THEN parts[i] ELSE f[i - 1] \o parts[i]]
<1>1. F = [i \in 1..Len(parts) |-> IF i = 1 THEN parts[i] ELSE F[i - 1] \o parts[i]]
  BY ConcatenationExists DEF Concatenates
<1>2. FlattenSeq(parts) = F[Len(parts)]
  BY DEF FlattenSeq
<1> QED BY <1>1, <1>2 DEF Concatenates

\* What is concatenated from texts is a text.
LEMMA ConcatenationType ==
  ASSUME NEW S, NEW n \in Nat, NEW parts, \A i \in 1..n : parts[i] \in Seq(S),
         NEW f, Concatenates(f, parts, n)
  PROVE  \A i \in 1..n : f[i] \in Seq(S)
<1> DEFINE T == {i \in 1..n : f[i] \notin Seq(S)}
<1>1. ASSUME T # {} PROVE FALSE
  <2>1. PICK i \in T : \A k \in T : i <= k
    <3>1. T \in SUBSET Nat
      OBVIOUS
    <3> HIDE DEF T
    <3> QED BY <1>1, <3>1, LeastElement
  <2>2. f[i] = IF i = 1 THEN parts[i] ELSE f[i - 1] \o parts[i]
    BY DEF Concatenates
  <2>3. i # 1 => f[i - 1] \in Seq(S)
    <3>1. i # 1 => i - 1 \in 1..n /\ ~(i <= i - 1)
      OBVIOUS
    <3> QED BY <2>1, <3>1
  <2>4. parts[i] \in Seq(S)
    OBVIOUS
  <2>5. f[i] \in Seq(S)
    BY <2>2, <2>3, <2>4, ConcatProperties
  <2> QED BY <2>5
<1> QED BY <1>1

\* u is v, and what follows it.
Continues(u, v, S) == \E rest \in Seq(S) : u = v \o rest

LEMMA ContinuesFurther ==
  ASSUME NEW S, NEW u, NEW v \in Seq(S), NEW w \in Seq(S), Continues(u, v, S)
  PROVE  Continues(u \o w, v, S)
<1>1. PICK rest \in Seq(S) : u = v \o rest
  BY DEF Continues
<1>2. (v \o rest) \o w = v \o (rest \o w)
  BY ConcatAssociative
<1>3. rest \o w \in Seq(S)
  BY ConcatProperties
<1> QED BY <1>1, <1>2, <1>3 DEF Continues

\* A concatenation begins with the first of them.
LEMMA ConcatenationBegins ==
  ASSUME NEW S, NEW n \in Nat, NEW parts, NEW f, NEW k \in 1..n,
         \A i \in 1..n : parts[i] \in Seq(S), Concatenates(f, parts, n)
  PROVE  \A i \in k..n : Continues(f[i], f[k], S)
<1> DEFINE T == {i \in k..n : ~Continues(f[i], f[k], S)}
<1>1. \A i \in 1..n : f[i] \in Seq(S)
  BY ConcatenationType
<1>2. ASSUME T # {} PROVE FALSE
  <2>1. PICK i \in T : \A m \in T : i <= m
    <3>1. T \in SUBSET Nat
      OBVIOUS
    <3> HIDE DEF T
    <3> QED BY <1>2, <3>1, LeastElement
  <2>2. i # k
    <3>1. <<>> \in Seq(S) /\ f[k] = f[k] \o <<>>
      BY <1>1, EmptySeq, ConcatEmptySeq
    <3> QED BY <3>1 DEF Continues
  <2>3. i - 1 \in k..n /\ ~(i <= i - 1) /\ i \in 1..n /\ i # 1
    BY <2>2
  <2>4. i - 1 \notin T
    BY <2>1, <2>3
  <2>5. Continues(f[i - 1], f[k], S)
    BY <2>3, <2>4
  <2>6. f[i] = f[i - 1] \o parts[i] /\ parts[i] \in Seq(S)
    BY <2>3 DEF Concatenates
  <2>7. Continues(f[i], f[k], S)
    BY <1>1, <2>5, <2>6, ContinuesFurther
  <2> QED BY <2>7
<1> QED BY <1>2

(***************************************************************************)
(* What FlattenSeq makes of a few texts is known; what it makes of more    *)
(* begins with the first three of them.                                    *)
(***************************************************************************)
LEMMA FlattenBegins ==
  ASSUME NEW S, NEW parts \in Seq(Seq(S)), parts # <<>>
  PROVE  /\ FlattenSeq(parts) \in Seq(S)
         /\ Len(parts) <= 1 => FlattenSeq(parts) = parts[1]
         /\ Len(parts) > 1 /\ Len(parts) <= 2 => FlattenSeq(parts) = parts[1] \o parts[2]
         /\ Len(parts) > 2 => \E rest \in Seq(S) :
              FlattenSeq(parts) = ((parts[1] \o parts[2]) \o parts[3]) \o rest
<1>1. Len(parts) \in Nat \ {0}
  BY EmptySeq
<1>2. \A i \in 1..Len(parts) : parts[i] \in Seq(S)
  BY ElementOfSeq
<1>3. PICK f : Concatenates(f, parts, Len(parts)) /\ FlattenSeq(parts) = f[Len(parts)]
  BY <1>1, FlattenConcatenates
<1>4. \A i \in 1..Len(parts) : f[i] \in Seq(S)
  BY <1>1, <1>2, <1>3, ConcatenationType
<1>5. \A i \in 1..Len(parts) : f[i] = IF i = 1 THEN parts[i] ELSE f[i - 1] \o parts[i]
  BY <1>3 DEF Concatenates
<1>6. f[1] = parts[1]
  <2>1. 1 \in 1..Len(parts)
    BY <1>1
  <2> QED BY <1>5, <2>1
<1>7. ASSUME Len(parts) > 1 PROVE f[2] = parts[1] \o parts[2]
  <2>1. 2 \in 1..Len(parts) /\ 2 # 1 /\ 2 - 1 = 1
    BY <1>1, <1>7
  <2> QED BY <1>5, <1>6, <2>1, Zenon
<1>8. ASSUME Len(parts) > 2
      PROVE  \E rest \in Seq(S) :
               f[Len(parts)] = ((parts[1] \o parts[2]) \o parts[3]) \o rest
  <2>1. 3 \in 1..Len(parts) /\ 3 # 1 /\ 3 - 1 = 2 /\ Len(parts) \in 3..Len(parts)
    BY <1>1, <1>8
  <2>2. f[3] = f[2] \o parts[3]
    BY <1>5, <2>1, Zenon
  <2>3. f[2] = parts[1] \o parts[2]
    <3>1. Len(parts) > 1
      BY <1>1, <1>8
    <3> QED BY <1>7, <3>1, Zenon
  <2>4. \A k \in 1..Len(parts) : \A i \in k..Len(parts) : Continues(f[i], f[k], S)
    BY <1>1, <1>2, <1>3, ConcatenationBegins
  <2>5. Continues(f[Len(parts)], f[3], S)
    BY <2>1, <2>4
  <2> QED BY <2>2, <2>3, <2>5 DEF Continues
<1>9. FlattenSeq(parts) \in Seq(S)
  <2>1. Len(parts) \in 1..Len(parts)
    BY <1>1
  <2> QED BY <1>3, <1>4, <2>1
<1>10. ASSUME Len(parts) <= 1 PROVE FlattenSeq(parts) = parts[1]
  <2>1. f[Len(parts)] = f[1]
    <3>1. \A n \in Nat \ {0} : n <= 1 => n = 1
      OBVIOUS
    <3> QED BY <1>1, <1>10, <3>1, Zenon
  <2> QED BY <1>3, <1>6, <2>1
<1>11. ASSUME Len(parts) > 1, Len(parts) <= 2
       PROVE  FlattenSeq(parts) = parts[1] \o parts[2]
  <2>1. f[Len(parts)] = f[2]
    <3>1. \A n \in Nat \ {0} : n > 1 /\ n <= 2 => n = 2
      OBVIOUS
    <3> QED BY <1>1, <1>11, <3>1, Zenon
  <2> QED BY <1>3, <1>7, <1>11, <2>1
<1> QED BY <1>3, <1>8, <1>9, <1>10, <1>11

-----------------------------------------------------------------------------
(***************************************************************************)
(* The text of an OID.                                                     *)
(***************************************************************************)
Chars == Digits \cup {"."}

Part(oid, n) == IF n = 1 THEN oid[n] ELSE <<".">> \o oid[n]

\* A number of an OID is not empty and has no dots.
LEMMA NumberOfOID ==
  ASSUME NEW oid \in OID, NEW n \in 1..Len(oid)
  PROVE  /\ oid[n] \in Seq(Chars)
         /\ Len(oid[n]) \in Nat \ {0}
         /\ \A i \in 1..Len(oid[n]) : oid[n][i] \in Digits /\ oid[n][i] # "."
<1>1. oid[n] \in Seq(Digits) /\ oid[n] # <<>>
  BY ElementOfSeq DEF OID, Number
<1>2. oid[n] \in Seq(Chars)
  <2>1. Digits \subseteq Chars
    BY DEF Chars
  <2> QED BY <1>1, <2>1, SeqMonotonic
<1>3. \A i \in 1..Len(oid[n]) : oid[n][i] \in Digits
  BY <1>1, ElementOfSeq
<1>4. "." \notin Digits
  BY DEF Digits
<1> QED BY <1>1, <1>2, <1>3, <1>4, EmptySeq

\* The first number is not preceded by a dot, the others are.
LEMMA PartOfOID ==
  ASSUME NEW oid \in OID, NEW n \in 1..Len(oid)
  PROVE  /\ Part(oid, n) \in Seq(Chars)
         /\ n = 1 => Part(oid, n) = oid[n]
         /\ n # 1 => /\ Len(Part(oid, n)) = Len(oid[n]) + 1
                     /\ Part(oid, n)[1] = "."
                     /\ \A i \in 1..Len(oid[n]) : Part(oid, n)[i + 1] = oid[n][i]
<1> DEFINE dot == <<".">>
           p   == dot \o oid[n]
<1>1. dot \in Seq(Chars) /\ Len(dot) = 1 /\ dot[1] = "."
  BY DEF Chars
<1>2. oid[n] \in Seq(Chars) /\ Len(oid[n]) \in Nat
  BY NumberOfOID
<1>3. Part(oid, n) = IF n = 1 THEN oid[n] ELSE p
  BY DEF Part
<1> HIDE DEF dot
<1>4. /\ p \in Seq(Chars)
      /\ Len(p) = Len(dot) + Len(oid[n])
      /\ \A i \in 1..(Len(dot) + Len(oid[n])) :
           p[i] = IF i <= Len(dot) THEN dot[i] ELSE oid[n][i - Len(dot)]
  BY <1>1, <1>2, ConcatProperties
<1> HIDE DEF p
<1>5. p[1] = "."
  BY <1>1, <1>2, <1>4
<1>6. ASSUME NEW i \in 1..Len(oid[n]) PROVE p[i + 1] = oid[n][i]
  <2>1. i + 1 \in 1..(Len(dot) + Len(oid[n])) /\ ~(i + 1 <= Len(dot)) /\ (i + 1) - Len(dot) = i
    BY <1>1, <1>2
  <2> QED BY <1>4, <2>1, Zenon
<1> QED BY <1>1, <1>2, <1>3, <1>4, <1>5, <1>6

\* The text of an OID is the concatenation of its parts.
LEMMA DottedParts ==
  ASSUME NEW oid \in OID
  PROVE  /\ Len(oid) \in Nat \ {0}
         /\ Dotted(oid) \in Seq(Chars)
         /\ Len(oid) <= 1 => Dotted(oid) = Part(oid, 1)
         /\ Len(oid) > 1 /\ Len(oid) <= 2 => Dotted(oid) = Part(oid, 1) \o Part(oid, 2)
         /\ Len(oid) > 2 => \E rest \in Seq(Chars) :
              Dotted(oid) = ((Part(oid, 1) \o Part(oid, 2)) \o Part(oid, 3)) \o rest
<1>1. oid \in Seq(Number) /\ Len(oid) \in Nat \ {0} /\ DOMAIN oid = 1..Len(oid)
  BY EmptySeq, LenProperties DEF OID
<1> DEFINE parts == [n \in DOMAIN oid |-> Part(oid, n)]
<1>2. Dotted(oid) = FlattenSeq(parts)
  BY DEF Dotted, Part
<1>3. parts \in [1..Len(oid) -> Seq(Chars)]
  BY <1>1, PartOfOID
<1>4. \A n \in 1..Len(oid) : parts[n] = Part(oid, n)
  BY <1>1
<1> HIDE DEF parts
<1>5. parts \in Seq(Seq(Chars)) /\ Len(parts) = Len(oid) /\ parts # <<>>
  <2>1. parts \in Seq(Seq(Chars)) /\ Len(parts) = Len(oid)
    BY <1>1, <1>3
  <2> QED BY <1>1, <2>1, EmptySeq
<1>6. parts[1] = Part(oid, 1)
  BY <1>1, <1>4
<1>7. Len(oid) > 1 => parts[2] = Part(oid, 2)
  BY <1>1, <1>4
<1>8. Len(oid) > 2 => parts[3] = Part(oid, 3) /\ Len(oid) > 1
  BY <1>1, <1>4
<1>9. /\ FlattenSeq(parts) \in Seq(Chars)
      /\ Len(parts) <= 1 => FlattenSeq(parts) = parts[1]
      /\ Len(parts) > 1 /\ Len(parts) <= 2 => FlattenSeq(parts) = parts[1] \o parts[2]
      /\ Len(parts) > 2 => \E rest \in Seq(Chars) :
           FlattenSeq(parts) = ((parts[1] \o parts[2]) \o parts[3]) \o rest
  BY <1>5, FlattenBegins
<1> QED BY <1>1, <1>2, <1>5, <1>6, <1>7, <1>8, <1>9, Zenon

-----------------------------------------------------------------------------
(***************************************************************************)
(* The same, character by character.                                       *)
(***************************************************************************)
LEMMA CharsOfConcat ==
  ASSUME NEW S, NEW a \in Seq(S), NEW b \in Seq(S)
  PROVE  /\ a \o b \in Seq(S)
         /\ Len(a) \in Nat /\ Len(b) \in Nat
         /\ Len(a \o b) = Len(a) + Len(b)
         /\ \A i \in 1..Len(a) : (a \o b)[i] = a[i]
         /\ \A i \in 1..Len(b) : (a \o b)[Len(a) + i] = b[i]
<1> DEFINE c == a \o b
<1>1. /\ c \in Seq(S)
      /\ Len(c) = Len(a) + Len(b)
      /\ \A i \in 1..(Len(a) + Len(b)) :
           c[i] = IF i <= Len(a) THEN a[i] ELSE b[i - Len(a)]
  BY ConcatProperties
<1>2. Len(a) \in Nat /\ Len(b) \in Nat
  BY LenProperties
<1> HIDE DEF c
<1>3. \A i \in 1..Len(a) : c[i] = a[i]
  BY <1>1, <1>2
<1>4. ASSUME NEW i \in 1..Len(b) PROVE c[Len(a) + i] = b[i]
  <2>1. /\ Len(a) + i \in 1..(Len(a) + Len(b))
        /\ ~(Len(a) + i <= Len(a)) /\ (Len(a) + i) - Len(a) = i
    BY <1>2
  <2> QED BY <1>1, <2>1, Zenon
<1> QED BY <1>1, <1>2, <1>3, <1>4 DEF c

\* A text, a dot and another text.
LEMMA CharsOfTwo ==
  ASSUME NEW S, NEW a \in Seq(S), NEW b \in Seq(S), NEW p \in Seq(S),
         Len(p) = Len(b) + 1, p[1] = ".", \A i \in 1..Len(b) : p[i + 1] = b[i]
  PROVE  /\ a \o p \in Seq(S)
         /\ Len(a) \in Nat /\ Len(b) \in Nat
         /\ Len(a \o p) = Len(a) + 1 + Len(b)
         /\ \A i \in 1..Len(a) : (a \o p)[i] = a[i]
         /\ (a \o p)[Len(a) + 1] = "."
         /\ \A i \in 1..Len(b) : (a \o p)[Len(a) + 1 + i] = b[i]
<1> DEFINE c == a \o p
<1>1. /\ c \in Seq(S)
      /\ Len(a) \in Nat /\ Len(b) \in Nat
      /\ Len(c) = Len(a) + Len(p)
      /\ \A i \in 1..Len(a) : c[i] = a[i]
      /\ \A i \in 1..Len(p) : c[Len(a) + i] = p[i]
  <2>1. Len(b) \in Nat
    BY LenProperties
  <2>2. c \in Seq(S) /\ Len(a) \in Nat /\ Len(c) = Len(a) + Len(p)
    BY CharsOfConcat
  <2>3. \A i \in 1..Len(a) : c[i] = a[i]
    BY CharsOfConcat
  <2>4. \A i \in 1..Len(p) : c[Len(a) + i] = p[i]
    BY CharsOfConcat
  <2> QED BY <2>1, <2>2, <2>3, <2>4
<1> HIDE DEF c
<1>2. c[Len(a) + 1] = "."
  BY <1>1
<1>3. ASSUME NEW i \in 1..Len(b) PROVE c[Len(a) + 1 + i] = b[i]
  <2>1. i + 1 \in 1..Len(p) /\ Len(a) + (i + 1) = Len(a) + 1 + i
    BY <1>1
  <2> QED BY <1>1, <2>1
<1> QED BY <1>1, <1>2, <1>3 DEF c

\* The first two numbers, a dot between them, and, if there is a third, another dot.
LEMMA DottedText ==
  ASSUME NEW oid \in OID, Len(oid) > 1
  PROVE  /\ Dotted(oid) \in Seq(Chars)
         /\ Len(Dotted(oid)) \in Nat
         /\ \A i \in 1..Len(oid[1]) : Dotted(oid)[i] = oid[1][i]
         /\ Dotted(oid)[Len(oid[1]) + 1] = "."
         /\ \A i \in 1..Len(oid[2]) : Dotted(oid)[Len(oid[1]) + 1 + i] = oid[2][i]
         /\ Len(oid) <= 2 => Len(Dotted(oid)) = Len(oid[1]) + 1 + Len(oid[2])
         /\ Len(oid) > 2 =>
              /\ Len(Dotted(oid)) > Len(oid[1]) + 1 + Len(oid[2])
              /\ Dotted(oid)[Len(oid[1]) + 1 + Len(oid[2]) + 1] = "."
<1> DEFINE a == oid[1]
           b == oid[2]
           d == Dotted(oid)
           q == Part(oid, 1) \o Part(oid, 2)
<1>1. Len(oid) \in Nat /\ d \in Seq(Chars)
  BY DottedParts
<1>2. /\ 1 \in 1..Len(oid) /\ 2 \in 1..Len(oid) /\ 2 # 1
      /\ Len(oid) > 2 => 3 \in 1..Len(oid) /\ 3 # 1
  BY <1>1
<1>3. a \in Seq(Chars) /\ b \in Seq(Chars) /\ Part(oid, 1) = a
  BY <1>2, NumberOfOID, PartOfOID
<1>4. /\ q \in Seq(Chars)
      /\ Len(a) \in Nat /\ Len(b) \in Nat
      /\ Len(q) = Len(a) + 1 + Len(b)
      /\ \A i \in 1..Len(a) : q[i] = a[i]
      /\ q[Len(a) + 1] = "."
      /\ \A i \in 1..Len(b) : q[Len(a) + 1 + i] = b[i]
  <2>1. /\ Part(oid, 2) \in Seq(Chars) /\ Len(Part(oid, 2)) = Len(b) + 1
        /\ Part(oid, 2)[1] = "." /\ \A i \in 1..Len(b) : Part(oid, 2)[i + 1] = b[i]
    BY <1>2, PartOfOID
  <2> HIDE DEF a, b
  <2> QED BY <1>3, <2>1, CharsOfTwo
<1>5. \/ Len(oid) <= 2 /\ d = q
      \/ Len(oid) > 2 /\ \E rest \in Seq(Chars) : d = (q \o Part(oid, 3)) \o rest
  <2>1. Len(oid) <= 2 \/ Len(oid) > 2
    BY <1>1
  <2> QED BY <2>1, DottedParts
<1> HIDE DEF a, b, d, q
<1>6. ASSUME Len(oid) > 2
      PROVE  /\ Len(d) \in Nat /\ Len(d) > Len(q)
             /\ \A i \in 1..Len(q) : d[i] = q[i]
             /\ d[Len(q) + 1] = "."
  <2> DEFINE p == Part(oid, 3)
             r == q \o p
  <2>1. p \in Seq(Chars) /\ Len(p) \in Nat \ {0} /\ p[1] = "."
    <3>1. p \in Seq(Chars) /\ Len(p) = Len(oid[3]) + 1 /\ p[1] = "."
      BY <1>2, <1>6, PartOfOID
    <3>2. Len(oid[3]) \in Nat
      BY <1>2, <1>6, NumberOfOID
    <3> QED BY <3>1, <3>2
  <2>2. PICK rest \in Seq(Chars) : d = r \o rest
    <3>1. Len(oid) > 2 /\ ~(Len(oid) <= 2)
      BY <1>1, <1>6
    <3> QED BY <1>5, <3>1
  <2> HIDE DEF p
  <2>3. /\ r \in Seq(Chars) /\ Len(q) \in Nat /\ Len(r) = Len(q) + Len(p)
        /\ \A i \in 1..Len(q) : r[i] = q[i]
        /\ \A i \in 1..Len(p) : r[Len(q) + i] = p[i]
    <3>1. r \in Seq(Chars) /\ Len(q) \in Nat /\ Len(r) = Len(q) + Len(p)
      BY <1>4, <2>1, CharsOfConcat
    <3>2. \A i \in 1..Len(q) : r[i] = q[i]
      BY <1>4, <2>1, CharsOfConcat
    <3>3. \A i \in 1..Len(p) : r[Len(q) + i] = p[i]
      BY <1>4, <2>1, CharsOfConcat
    <3> QED BY <3>1, <3>2, <3>3
  <2> HIDE DEF r
  <2>4. /\ Len(rest) \in Nat /\ Len(d) = Len(r) + Len(rest)
        /\ \A i \in 1..Len(r) : d[i] = r[i]
    <3>1. Len(rest) \in Nat /\ Len(r \o rest) = Len(r) + Len(rest)
      BY <2>3, CharsOfConcat
    <3>2. \A i \in 1..Len(r) : (r \o rest)[i] = r[i]
      BY <2>3, CharsOfConcat
    <3> QED BY <2>2, <3>1, <3>2
  <2>5. r[Len(q) + 1] = "."
    BY <2>1, <2>3
  <2>6. Len(q) + 1 \in 1..Len(r) /\ \A i \in 1..Len(q) : i \in 1..Len(r)
    BY <2>1, <2>3
  <2> QED BY <2>1, <2>3, <2>4, <2>5, <2>6
<1>7. CASE Len(oid) <= 2
  <2>1. d = q
    BY <1>5, <1>7
  <2>2. ~(Len(oid) > 2) /\ Len(d) \in Nat
    BY <1>1, <1>7, LenProperties
  <2> QED BY <1>1, <1>4, <2>1, <2>2, Zenon DEF a, b, d
<1>8. CASE Len(oid) > 2
  <2>1. \A i \in 1..Len(q) : d[i] = q[i]
    BY <1>6, <1>8
  <2>2. /\ \A i \in 1..Len(a) : i \in 1..Len(q)
        /\ Len(a) + 1 \in 1..Len(q)
        /\ \A i \in 1..Len(b) : Len(a) + 1 + i \in 1..Len(q)
    BY <1>4
  <2>3. \A i \in 1..Len(a) : d[i] = a[i]
    BY <1>4, <2>1, <2>2
  <2>4. d[Len(a) + 1] = "."
    BY <1>4, <2>1, <2>2
  <2>5. \A i \in 1..Len(b) : d[Len(a) + 1 + i] = b[i]
    BY <1>4, <2>1, <2>2
  <2>6. Len(d) \in Nat /\ Len(d) > Len(a) + 1 + Len(b) /\ d[Len(a) + 1 + Len(b) + 1] = "."
    BY <1>4, <1>6, <1>8
  <2>7. ~(Len(oid) <= 2)
    BY <1>1, <1>8
  <2> QED BY <1>1, <2>3, <2>4, <2>5, <2>6, <2>7, Zenon DEF a, b, d
<1>9. Len(oid) <= 2 \/ Len(oid) > 2
  BY <1>1
<1> QED BY <1>7, <1>8, <1>9

-----------------------------------------------------------------------------
(***************************************************************************)
(* The search.                                                             *)
(***************************************************************************)

\* What the buffer holds of the text: as much as fits.
LEMMA BufferText ==
  ASSUME NEW oid, Dotted(oid) \in Seq(Chars)
  PROVE  /\ OBJ_obj2txt(oid) \in Seq(Chars)
         /\ Len(OBJ_obj2txt(oid)) \in Nat
         /\ Len(OBJ_obj2txt(oid)) <= Len(Dotted(oid))
         /\ \A i \in 1..Len(OBJ_obj2txt(oid)) : OBJ_obj2txt(oid)[i] = Dotted(oid)[i]
         /\ \A m \in 1..Len(Dotted(oid)) : m <= Len(OBJ_obj2txt(oid)) <=> m < MaxBuff
<1> DEFINE d == Dotted(oid)
           k == IF Len(d) < MaxBuff THEN Len(d) ELSE MaxBuff - 1
           t == SubSeq(d, 1, k)
<1>1. OBJ_obj2txt(oid) = t
  BY DEF OBJ_obj2txt
<1>2. d \in Seq(Chars) /\ Len(d) \in Nat /\ \A i \in 1..Len(d) : d[i] \in Chars
  BY LenProperties, ElementOfSeq
<1>3. k \in Int /\ k <= Len(d) /\ \A m \in 1..Len(d) : m <= k <=> m < MaxBuff
  BY <1>2, ProductCertAssumption
<1> HIDE DEF d, k
<1>4. \A i \in 1..k : d[i] \in Chars
  BY <1>2, <1>3
<1>5. /\ t \in Seq(Chars)
      /\ Len(t) = IF 1 <= k THEN k - 1 + 1 ELSE 0
      /\ \A i \in 1..(k - 1 + 1) : t[i] = d[1 + i - 1]
  BY <1>3, <1>4, SubSeqProperties
<1> HIDE DEF t
<1>6. \A i \in 1..Len(t) : t[i] = d[i]
  <2> SUFFICES ASSUME NEW i \in 1..Len(t) PROVE t[i] = d[i]
    OBVIOUS
  <2>1. i \in 1..(k - 1 + 1) /\ 1 + i - 1 = i
    BY <1>3, <1>5
  <2> QED BY <1>5, <2>1
<1>7. Len(t) \in Nat /\ Len(t) <= Len(d)
  BY <1>2, <1>3, <1>5
<1>8. \A m \in 1..Len(d) : m <= Len(t) <=> m < MaxBuff
  BY <1>2, <1>3, <1>5
<1> QED BY <1>1, <1>5, <1>6, <1>7, <1>8 DEF d

\* find_dot finds the first dot.
LEMMA FindDot ==
  ASSUME NEW text, Len(text) \in Nat
  PROVE  /\ (\A i \in 1..Len(text) : text[i] # ".") => find_dot(text) = 0
         /\ \A p \in 1..Len(text) :
              text[p] = "." /\ (\A i \in 1..(p - 1) : text[i] # ".") => find_dot(text) = p
<1> DEFINE I == {i \in 1..Len(text) : text[i] = "."}
<1>1. find_dot(text) = IF I # {} THEN CHOOSE x \in I : \A y \in I : x <= y ELSE 0
  BY DEF find_dot, SelectInSeq, Min
<1>2. ASSUME NEW p \in 1..Len(text), text[p] = ".", \A i \in 1..(p - 1) : text[i] # "."
      PROVE  find_dot(text) = p
  <2>1. p \in I /\ \A y \in I : p <= y
    BY <1>2
  <2>2. I \subseteq Nat
    OBVIOUS
  <2> HIDE DEF I
  <2>3. \A x \in I : (\A y \in I : x <= y) => x = p
    BY <2>1, <2>2
  <2> QED BY <1>1, <2>1, <2>3
<1>3. ASSUME \A i \in 1..Len(text) : text[i] # "." PROVE find_dot(text) = 0
  <2>1. I = {}
    BY <1>3
  <2> HIDE DEF I
  <2> QED BY <1>1, <2>1
<1> QED BY <1>2, <1>3

\* The prefix is 1. at the beginning.
LEMMA HasPrefix ==
  ASSUME NEW text \in Seq(Chars)
  PROVE  /\ Len(REDHAT_PRODUCT_OID) = 2
         /\ IsPrefix(REDHAT_PRODUCT_OID, text) <=>
              Len(text) >= 2 /\ text[1] = "1" /\ text[2] = "."
<1> DEFINE p == REDHAT_PRODUCT_OID
<1>1. p \in Seq(Chars) /\ Len(p) = 2 /\ p[1] = "1" /\ p[2] = "."
  BY DEF REDHAT_PRODUCT_OID, Chars, Digits
<1>2. SubSeq(p, 1, 2) = p
  BY <1>1, SubSeqFull
<1> HIDE DEF p
<1>3. Len(text) \in Nat /\ \A i \in 1..Len(text) : text[i] \in Chars
  BY LenProperties, ElementOfSeq
<1>4. IsPrefix(p, text) <=> 2 <= Len(text) /\ p = SubSeq(text, 1, 2)
  BY <1>1, <1>2 DEF IsPrefix
<1>5. ASSUME 2 <= Len(text)
      PROVE  p = SubSeq(text, 1, 2) <=> text[1] = "1" /\ text[2] = "."
  <2> DEFINE q == SubSeq(text, 1, 2)
  <2>1. \A i \in 1..2 : text[i] \in Chars
    BY <1>3, <1>5
  <2>2. q \in Seq(Chars) /\ Len(q) = 2 /\ q[1] = text[1] /\ q[2] = text[2]
    BY <2>1, SubSeqProperties
  <2> HIDE DEF q
  <2>3. p[1] = q[1] /\ p[2] = q[2] => p = q
    <3>1. \A i \in 1..2 : i = 1 \/ i = 2
      OBVIOUS
    <3> QED BY <1>1, <2>2, <3>1, SeqEqual
  <2>4. p = q <=> q[1] = "1" /\ q[2] = "."
    BY <1>1, <2>3
  <2> QED BY <2>2, <2>4 DEF q
<1> QED BY <1>1, <1>3, <1>4, <1>5 DEF p

\* What follows the prefix.
LEMMA AfterPrefix ==
  ASSUME NEW text \in Seq(Chars), Len(text) >= 2
  PROVE  /\ SubSeq(text, 3, Len(text)) \in Seq(Chars)
         /\ Len(SubSeq(text, 3, Len(text))) = Len(text) - 2
         /\ \A i \in 1..(Len(text) - 2) : SubSeq(text, 3, Len(text))[i] = text[i + 2]
<1> DEFINE q == SubSeq(text, 3, Len(text))
<1>1. Len(text) \in Nat /\ \A i \in 1..Len(text) : text[i] \in Chars
  BY LenProperties, ElementOfSeq
<1>2. \A i \in 3..Len(text) : text[i] \in Chars
  BY <1>1
<1>3. /\ q \in Seq(Chars)
      /\ Len(q) = IF 3 <= Len(text) THEN Len(text) - 3 + 1 ELSE 0
      /\ \A i \in 1..(Len(text) - 3 + 1) : q[i] = text[3 + i - 1]
  BY <1>1, <1>2, SubSeqProperties
<1> HIDE DEF q
<1>4. ASSUME NEW i \in 1..(Len(text) - 2) PROVE q[i] = text[i + 2]
  <2>1. i \in 1..(Len(text) - 3 + 1) /\ 3 + i - 1 = i + 2
    BY <1>1
  <2> QED BY <1>3, <2>1
<1>5. Len(q) = Len(text) - 2
  <2>1. \A n \in Nat : n >= 2 => (IF 3 <= n THEN n - 3 + 1 ELSE 0) = n - 2
    OBVIOUS
  <2> QED BY <1>1, <1>3, <2>1, Zenon
<1> QED BY <1>3, <1>4, <1>5 DEF q

\* The number of the namespace is 1 if its text is "1".
LEMMA NamespaceIsOne ==
  ASSUME NEW oid \in OID
  PROVE  oid[1] = <<"1">> <=> Len(oid[1]) < 2 /\ oid[1][1] = "1"
<1> DEFINE one == <<"1">>
<1>1. oid[1] \in Seq(Chars) /\ Len(oid[1]) \in Nat \ {0}
  <2>1. 1 \in 1..Len(oid)
    BY DottedParts
  <2> QED BY <2>1, NumberOfOID
<1>2. one \in Seq(Chars) /\ Len(one) = 1 /\ one[1] = "1"
  BY DEF Chars, Digits
<1> HIDE DEF one
<1>3. oid[1] = one => Len(oid[1]) < 2 /\ oid[1][1] = "1"
  BY <1>2
<1>4. ASSUME Len(oid[1]) < 2, oid[1][1] = "1" PROVE oid[1] = one
  <2>1. Len(oid[1]) = Len(one)
    <3>1. \A n \in Nat \ {0} : n < 2 => n = 1
      OBVIOUS
    <3> QED BY <1>1, <1>2, <1>4, <3>1, Zenon
  <2>2. \A i \in 1..Len(oid[1]) : oid[1][i] = one[i]
    <3>1. \A i \in 1..Len(oid[1]) : i = 1
      BY <1>1, <1>4
    <3> QED BY <1>2, <1>4, <3>1
  <2> QED BY <1>1, <1>2, <2>1, <2>2, SeqEqual
<1> QED BY <1>3, <1>4 DEF one

\* Only texts of OIDs in the namespace of the products begin with the prefix.
LEMMA OtherNamespace ==
  ASSUME NEW oid \in OID, ~(Len(oid) > 1 /\ oid[1] = <<"1">>)
  PROVE  product_id_in(OBJ_obj2txt(oid)) = {}
<1> DEFINE t == OBJ_obj2txt(oid)
<1>1. Dotted(oid) \in Seq(Chars) /\ Len(oid) \in Nat \ {0}
  BY DottedParts
<1>2. /\ t \in Seq(Chars) /\ Len(t) \in Nat /\ Len(t) <= Len(Dotted(oid))
      /\ \A i \in 1..Len(t) : t[i] = Dotted(oid)[i]
  BY <1>1, BufferText
<1> HIDE DEF t
<1>3. /\ Len(oid[1]) \in Nat \ {0}
      /\ \A i \in 1..Len(oid[1]) : oid[1][i] # "."
  <2>1. 1 \in 1..Len(oid)
    BY <1>1
  <2> QED BY <2>1, NumberOfOID
<1>4. ~(Len(t) >= 2 /\ t[1] = "1" /\ t[2] = ".")
  <2> SUFFICES ASSUME Len(t) >= 2, t[1] = "1", t[2] = "." PROVE FALSE
    OBVIOUS
  <2>1. Dotted(oid)[1] = "1" /\ Dotted(oid)[2] = "."
    BY <1>2
  <2>2. CASE Len(oid) <= 1
    <3>1. Dotted(oid) = oid[1]
      <4>1. 1 \in 1..Len(oid)
        BY <1>1
      <4> QED BY <2>2, <4>1, DottedParts, PartOfOID
    <3>2. 2 \in 1..Len(oid[1])
      BY <1>2, <1>3, <3>1
    <3> QED BY <1>3, <2>1, <3>1, <3>2
  <2>3. CASE Len(oid) > 1
    <3>1. \A i \in 1..Len(oid[1]) : Dotted(oid)[i] = oid[1][i]
      BY <2>3, DottedText
    <3>2. Len(oid[1]) < 2
      <4>1. ASSUME ~(Len(oid[1]) < 2) PROVE 2 \in 1..Len(oid[1])
        BY <1>3, <4>1
      <4> QED BY <1>3, <2>1, <3>1, <4>1
    <3>3. oid[1][1] = "1"
      <4>1. 1 \in 1..Len(oid[1])
        BY <1>3
      <4> QED BY <2>1, <3>1, <4>1
    <3> QED BY <2>3, <3>2, <3>3, NamespaceIsOne
  <2> QED BY <1>1, <2>2, <2>3
<1>5. ~IsPrefix(REDHAT_PRODUCT_OID, t)
  BY <1>2, <1>4, HasPrefix
<1> QED BY <1>5 DEF product_id_in, t

(***************************************************************************)
(* The search finds the number of the product where there is one that      *)
(* fits, and nothing elsewhere (get_product_id_from_cert_content).         *)
(***************************************************************************)
THEOREM SearchCorrect ==
  ASSUME NEW oid \in OID
  PROVE  product_id_in(OBJ_obj2txt(oid)) = IF AboutProduct(oid) THEN {oid[2]} ELSE {}
<1>1. CASE ~(Len(oid) > 1 /\ oid[1] = <<"1">>)
  <2>1. Len(oid) \in Nat
    BY DottedParts
  <2>2. ~AboutProduct(oid)
    BY <1>1, <2>1 DEF AboutProduct
  <2> QED BY <1>1, <2>2, OtherNamespace
<1>2. CASE Len(oid) > 1 /\ oid[1] = <<"1">>
  <2> DEFINE d == Dotted(oid)
             t == OBJ_obj2txt(oid)
             n == Len(oid[2])
             rest == SubSeq(t, 3, Len(t))
  <2>1. /\ oid[2] \in Seq(Chars) /\ n \in Nat \ {0}
        /\ \A i \in 1..n : oid[2][i] # "."
    <3>1. 2 \in 1..Len(oid)
      BY <1>2, DottedParts
    <3> QED BY <3>1, NumberOfOID
  <2>2. Len(oid[1]) = 1 /\ oid[1][1] = "1"
    BY <1>2
  <2>3. /\ d \in Seq(Chars) /\ Len(d) \in Nat
        /\ d[1] = "1" /\ d[2] = "."
        /\ \A i \in 1..n : d[i + 2] = oid[2][i]
        /\ Len(oid) <= 2 => Len(d) = n + 2
        /\ Len(oid) > 2 => Len(d) > n + 2 /\ d[n + 3] = "."
    <3>1. d \in Seq(Chars) /\ Len(d) \in Nat
      BY <1>2, DottedText
    <3>2. d[1] = "1"
      <4>1. \A i \in 1..Len(oid[1]) : d[i] = oid[1][i]
        BY <1>2, DottedText
      <4>2. 1 \in 1..Len(oid[1])
        BY <2>2
      <4> QED BY <2>2, <4>1, <4>2
    <3>3. d[1 + 1] = "."
      BY <1>2, <2>2, DottedText
    <3>4. \A i \in 1..n : d[1 + 1 + i] = oid[2][i]
      BY <1>2, <2>2, DottedText
    <3>5. Len(oid) <= 2 => Len(d) = 1 + 1 + n
      BY <1>2, <2>2, DottedText
    <3>6. Len(oid) > 2 => Len(d) > 1 + 1 + n /\ d[1 + 1 + n + 1] = "."
      BY <1>2, <2>2, DottedText
    <3> HIDE DEF d, n
    <3>7. 1 + 1 = 2 /\ 1 + 1 + n = n + 2 /\ 1 + 1 + n + 1 = n + 3
      BY <2>1
    <3>8. \A i \in 1..n : 1 + 1 + i = i + 2
      BY <2>1
    <3>9. \A i \in 1..n : d[i + 2] = oid[2][i]
      BY <3>4, <3>8
    <3> QED BY <3>1, <3>2, <3>3, <3>5, <3>6, <3>7, <3>9, Zenon
  <2>4. /\ t \in Seq(Chars) /\ Len(t) \in Nat /\ Len(t) <= Len(d)
        /\ \A i \in 1..Len(t) : t[i] = d[i]
        /\ \A m \in 1..Len(d) : m <= Len(t) <=> m < MaxBuff
    BY <2>3, BufferText
  <2>5. AboutProduct(oid) <=> Len(oid) > 2 /\ n + 3 < MaxBuff
    BY <1>2 DEF AboutProduct
  <2>6. product_id_in(t) = IF IsPrefix(REDHAT_PRODUCT_OID, t) /\ find_dot(rest) # 0
                           THEN {SubSeq(rest, 1, find_dot(rest) - 1)} ELSE {}
    <3>1. Len(REDHAT_PRODUCT_OID) + 1 = 3
      BY DEF REDHAT_PRODUCT_OID
    <3> QED BY <3>1 DEF product_id_in
  <2>7. Len(oid) \in Nat
    BY DottedParts
  <2> HIDE DEF d, t, n
  <2>8. CASE Len(t) < 2
    <3>1. ~IsPrefix(REDHAT_PRODUCT_OID, t)
      BY <2>4, <2>8, HasPrefix
    <3>2. ~(n + 3 < MaxBuff /\ Len(oid) > 2)
      <4> SUFFICES ASSUME n + 3 < MaxBuff, Len(oid) > 2 PROVE FALSE
        OBVIOUS
      <4>1. n + 3 \in 1..Len(d)
        BY <2>1, <2>3
      <4> QED BY <2>1, <2>4, <2>8, <4>1
    <3> QED BY <2>5, <2>6, <3>1, <3>2 DEF t
  <2>9. CASE Len(t) >= 2
    <3>1. IsPrefix(REDHAT_PRODUCT_OID, t)
      BY <2>3, <2>4, <2>9, HasPrefix
    <3>2. /\ rest \in Seq(Chars) /\ Len(rest) = Len(t) - 2 /\ Len(rest) \in Nat
          /\ \A i \in 1..(Len(t) - 2) : rest[i] = t[i + 2]
      BY <2>4, <2>9, AfterPrefix
    <3> HIDE DEF rest
    <3>3. \A i \in 1..Len(rest) : rest[i] = d[i + 2]
      BY <2>4, <2>9, <3>2
    <3>4. \A i \in 1..Len(rest) : i <= n => rest[i] = oid[2][i] /\ rest[i] # "."
      BY <2>1, <2>3, <3>2, <3>3
    <3>5. CASE AboutProduct(oid)
      <4>1. n + 1 \in 1..Len(rest) /\ rest[n + 1] = "."
        <5>1. n + 3 \in 1..Len(d) /\ n + 3 < MaxBuff
          BY <2>1, <2>3, <2>5, <3>5
        <5>2. n + 3 <= Len(t)
          BY <2>4, <5>1
        <5>3. n + 1 \in 1..Len(rest) /\ (n + 1) + 2 = n + 3
          BY <2>1, <2>4, <3>2, <5>2
        <5>4. d[n + 3] = "."
          BY <2>3, <2>5, <3>5
        <5> QED BY <3>3, <5>3, <5>4
      <4>2. find_dot(rest) = n + 1
        <5>1. \A i \in 1..((n + 1) - 1) : rest[i] # "."
          BY <2>1, <3>2, <3>4, <4>1
        <5> QED BY <3>2, <4>1, <5>1, FindDot
      <4> DEFINE p == SubSeq(rest, 1, n)
      <4>3. \A i \in 1..n : rest[i] \in Chars /\ rest[i] = oid[2][i]
        BY <2>1, <3>2, <3>4, <4>1, ElementOfSeq
      <4>4. p \in Seq(Chars) /\ Len(p) = n /\ \A i \in 1..n : p[i] = rest[i]
        BY <2>1, <4>3, SubSeqProperties
      <4> HIDE DEF p
      <4>5. p = oid[2]
        BY <2>1, <4>3, <4>4, SeqEqual DEF n
      <4>6. n + 1 # 0 /\ (n + 1) - 1 = n
        BY <2>1
      <4> QED BY <2>6, <3>1, <3>5, <4>2, <4>5, <4>6 DEF p, t
    <3>6. CASE ~AboutProduct(oid)
      <4>1. Len(rest) <= n
        <5>1. CASE Len(oid) <= 2
          BY <2>1, <2>3, <2>4, <3>2, <5>1
        <5>2. CASE Len(oid) > 2
          <6>1. n + 3 \in 1..Len(d) /\ ~(n + 3 < MaxBuff)
            BY <2>1, <2>3, <2>5, <3>6, <5>2
          <6> QED BY <2>1, <2>4, <3>2, <6>1
        <5> QED BY <2>7, <5>1, <5>2
      <4>2. \A i \in 1..Len(rest) : rest[i] # "."
        BY <2>1, <3>2, <3>4, <4>1
      <4>3. find_dot(rest) = 0
        BY <3>2, <4>2, FindDot
      <4> QED BY <2>6, <3>6, <4>3 DEF t
    <3> QED BY <3>5, <3>6
  <2> QED BY <2>4, <2>8, <2>9
<1> QED BY <1>1, <1>2

-----------------------------------------------------------------------------
(***************************************************************************)
(* The loop over the extensions, in an inductive invariant: every step     *)
(* refuses the files the next one cannot deal with, the search begins with *)
(* the first extension and has passed none about a product, so that        *)
(* nothing is skipped that should have been found.                         *)
(***************************************************************************)
OnlyInCertificates == file # "certificate" => extensions = <<>>

FilesRefused ==
  /\ step = "decompress" => file # "none"
  /\ step = "parse" => file \in {"garbage", "certificate"}

SearchFromStart == step \in {"get_path", "decompress", "parse"} => next = 1

NonePassed ==
  step = "search" =>
    file = "certificate" /\ \A n \in 1..(next - 1) : ~AboutProduct(extensions[n])

SkippedIfNone == step = "skipped" /\ file = "certificate" => Products = {}

DecodingInv ==
  /\ DecodingTypeOK /\ OnlyInCertificates /\ FilesRefused /\ SearchFromStart
  /\ NonePassed /\ SkippedIfNone /\ FirstProductDecoded

\* An extension is an OID.
LEMMA ExtensionsAreOIDs ==
  ASSUME DecodingTypeOK
  PROVE  /\ extensions \in Seq(OID) /\ Len(extensions) \in Nat
         /\ DOMAIN extensions = 1..Len(extensions)
         /\ \A n \in 1..Len(extensions) : extensions[n] \in OID
         /\ next \in Nat \ {0} /\ next <= Len(extensions) + 1
<1>1. extensions \in Seq(OID)
  BY ProductCertAssumption, EmptySeq DEF DecodingTypeOK
<1>2. Len(extensions) \in Nat /\ DOMAIN extensions = 1..Len(extensions)
  BY <1>1, LenProperties
<1>3. \A n \in 1..Len(extensions) : extensions[n] \in OID
  BY <1>1, ElementOfSeq
<1> QED BY <1>1, <1>2, <1>3 DEF DecodingTypeOK

\* The number of a product is not empty.
LEMMA NumberNotEmpty ==
  ASSUME NEW oid \in OID, AboutProduct(oid)
  PROVE  oid[2] # <<>>
<1>1. 2 \in 1..Len(oid)
  BY DottedParts DEF AboutProduct
<1>2. Len(oid[2]) \in Nat \ {0}
  BY <1>1, NumberOfOID
<1> QED BY <1>2

LEMMA NothingDecodedInv == NothingDecoded => DecodingInv
<1> SUFFICES ASSUME NothingDecoded PROVE DecodingInv
  OBVIOUS
<1>1. DecodingTypeOK
  BY DEF NothingDecoded, DecodingTypeOK, Files, Finished
<1> QED BY <1>1 DEF NothingDecoded, DecodingInv, OnlyInCertificates, FilesRefused, SearchFromStart,
                    NonePassed, SkippedIfNone, FirstProductDecoded

LEMMA OpenInv ==
  ASSUME NEW f \in Files, Open(f)
  PROVE  DecodingInv'
<1>1. DecodingTypeOK'
  <2>1. extensions' \in Seq(OID)
    BY ProductCertAssumption, EmptySeq DEF Open
  <2>2. Len(extensions)' \in Nat
    BY <2>1, LenProperties
  <2> QED BY <2>2 DEF Open, DecodingTypeOK, Finished
<1> QED BY <1>1 DEF Open, DecodingInv, OnlyInCertificates, FilesRefused, SearchFromStart,
                    NonePassed, SkippedIfNone, FirstProductDecoded

\* The steps before the search.
LEMMA BeforeSearchInv ==
  ASSUME DecodingInv, GetMetadataPath \/ Decompress \/ Parse
  PROVE  DecodingInv'
<1> USE DEF DecodingInv, Goto
<1>1. /\ UNCHANGED <<file, extensions, next, product_id>>
      /\ step \in {"get_path", "decompress", "parse"}
  BY DEF GetMetadataPath, Decompress, Parse
<1>2. next = 1 /\ file \in Files
  BY <1>1 DEF SearchFromStart, DecodingTypeOK
<1>3. CASE GetMetadataPath
  <2>1. \/ step' = "skipped" /\ file = "none"
        \/ step' = "decompress" /\ file # "none"
    BY <1>3 DEF GetMetadataPath
  <2> QED BY <1>1, <1>2, <2>1
      DEF OnlyInCertificates, FilesRefused, SearchFromStart, NonePassed, SkippedIfNone,
          FirstProductDecoded, DecodingTypeOK, Finished
<1>4. CASE Decompress
  <2>1. \/ step' = "skipped" /\ file # "certificate"
        \/ step' = "parse" /\ file \in {"garbage", "certificate"}
    BY <1>2, <1>4 DEF Decompress, FilesRefused, Files, Contents
  <2> QED BY <1>1, <1>2, <2>1
      DEF OnlyInCertificates, FilesRefused, SearchFromStart, NonePassed, SkippedIfNone,
          FirstProductDecoded, DecodingTypeOK, Finished
<1>5. CASE Parse
  <2>1. \/ step' = "skipped" /\ file # "certificate"
        \/ step' = "search" /\ file = "certificate"
    BY <1>5 DEF Parse, FilesRefused
  <2> QED BY <1>1, <1>2, <2>1
      DEF OnlyInCertificates, FilesRefused, SearchFromStart, NonePassed, SkippedIfNone,
          FirstProductDecoded, DecodingTypeOK, Finished
<1> QED BY <1>3, <1>4, <1>5

LEMMA NextExtensionInv ==
  ASSUME DecodingInv, NextExtension
  PROVE  DecodingInv'
<1> USE DEF DecodingInv
<1>1. /\ step = "search" /\ step' = "search" /\ next <= Len(extensions) /\ next' = next + 1
      /\ UNCHANGED <<file, extensions, product_id>>
      /\ product_id_in(OBJ_obj2txt(extensions[next])) = {}
  BY DEF NextExtension, Goto
<1>2. next \in 1..Len(extensions) /\ Len(extensions) \in Nat /\ extensions[next] \in OID
  BY <1>1, ExtensionsAreOIDs
<1>3. ~AboutProduct(extensions[next])
  BY <1>1, <1>2, SearchCorrect
<1>4. DecodingTypeOK'
  BY <1>1, <1>2 DEF DecodingTypeOK
<1>5. NonePassed'
  <2> SUFFICES ASSUME NEW n \in 1..next PROVE ~AboutProduct(extensions[n])
    BY <1>1, <1>2 DEF NonePassed, AboutProduct
  <2>1. n = next \/ n \in 1..(next - 1)
    BY <1>2
  <2> QED BY <1>1, <1>3, <2>1 DEF NonePassed
<1> QED BY <1>1, <1>4, <1>5 DEF OnlyInCertificates, FilesRefused, SearchFromStart, SkippedIfNone,
                                FirstProductDecoded

LEMMA FoundProductIdInv ==
  ASSUME DecodingInv, FoundProductId
  PROVE  DecodingInv'
<1> USE DEF DecodingInv
<1>1. /\ step = "search" /\ next <= Len(extensions)
      /\ UNCHANGED <<file, extensions, next>>
      /\ product_id' \in product_id_in(OBJ_obj2txt(extensions[next]))
      /\ step' = IF product_id' = <<>> THEN "skipped" ELSE "decoded"
  BY DEF FoundProductId, Goto
<1>2. next \in 1..Len(extensions) /\ extensions[next] \in OID
  BY <1>1, ExtensionsAreOIDs
<1>3. AboutProduct(extensions[next]) /\ product_id' = extensions[next][2]
  BY <1>1, <1>2, SearchCorrect
<1>4. product_id' # <<>> /\ step' = "decoded"
  BY <1>1, <1>2, <1>3, NumberNotEmpty
<1>5. DecodingTypeOK'
  BY <1>1, <1>4 DEF DecodingTypeOK, Finished
<1>6. FirstProductDecoded'
  <2>1. next \in Products
    BY <1>2, <1>3, ExtensionsAreOIDs DEF Products
  <2>2. \A m \in Products : next <= m
    <3> SUFFICES ASSUME NEW m \in Products PROVE next <= m
      OBVIOUS
    <3>1. m \in 1..Len(extensions) /\ AboutProduct(extensions[m])
      BY ExtensionsAreOIDs DEF Products
    <3>2. m \notin 1..(next - 1)
      BY <1>1, <3>1 DEF NonePassed
    <3> QED BY <1>2, <3>1, <3>2, ExtensionsAreOIDs
  <2>3. Products' = Products
    BY <1>1 DEF Products, AboutProduct
  <2> QED BY <1>1, <1>3, <2>1, <2>2, <2>3 DEF FirstProductDecoded
<1> QED BY <1>1, <1>4, <1>5, <1>6 DEF OnlyInCertificates, FilesRefused, SearchFromStart, NonePassed,
                                      SkippedIfNone

LEMMA NoneFoundInv ==
  ASSUME DecodingInv, NoneFound
  PROVE  DecodingInv'
<1> USE DEF DecodingInv
<1>1. /\ step = "search" /\ next > Len(extensions) /\ step' = "skipped"
      /\ UNCHANGED <<file, extensions, next, product_id>>
  BY DEF NoneFound, Goto
<1>2. DecodingTypeOK'
  BY <1>1 DEF DecodingTypeOK, Finished
<1>3. Products = {}
  <2> SUFFICES ASSUME NEW n \in Products PROVE FALSE
    OBVIOUS
  <2>1. n \in 1..Len(extensions) /\ AboutProduct(extensions[n])
    BY ExtensionsAreOIDs DEF Products
  <2>2. n \in 1..(next - 1)
    BY <1>1, <2>1, ExtensionsAreOIDs
  <2> QED BY <1>1, <2>1, <2>2 DEF NonePassed
<1>4. Products' = {}
  BY <1>1, <1>3 DEF Products, AboutProduct
<1> QED BY <1>1, <1>2, <1>4 DEF OnlyInCertificates, FilesRefused, SearchFromStart, NonePassed,
                                SkippedIfNone, FirstProductDecoded

\* Every step of the loop body preserves the invariant.
LEMMA DecodeInv == DecodingInv /\ Decode => DecodingInv'
BY BeforeSearchInv, NextExtensionInv, FoundProductIdInv, NoneFoundInv DEF Decode

LEMMA DecodingUnchangedInv == DecodingInv /\ UNCHANGED decoding => DecodingInv'
BY DEF decoding, DecodingInv, DecodingTypeOK, OnlyInCertificates, FilesRefused, SearchFromStart, NonePassed,
       SkippedIfNone, FirstProductDecoded, Products, AboutProduct

=============================================================================
