---------------------------- MODULE Base64Proofs ----------------------------
(***************************************************************************)
(* Proofs about Base64Url for chunks of any length and any changes.  A     *)
(* group of 24 bits is cut and put together again (the arithmetic lemmas,  *)
(* left to SMT alone); what stands beyond the end of a chunk is zero on    *)
(* both sides, so that of the tails only these zeros need a proof.         *)
(***************************************************************************)
EXTENDS Base64Url, SequenceTheorems, TLAPS

-----------------------------------------------------------------------------
(* One group: a number of 24 bits.                                         *)

Group == {x \in Nat : x < 16777216}

LEMMA SextetsOfBits ==
    ASSUME NEW x \in Nat, x < 16777216
    PROVE  /\ \A j \in 0..3 : Sextet(x, j) \in Sextets
           /\ Sextet(x, 0) * 262144 + Sextet(x, 1) * 4096 + Sextet(x, 2) * 64 + Sextet(x, 3) = x
<1>1. /\ x \div 262144 \in Nat /\ x \div 262144 < 64
      /\ (x \div 4096) % 64 \in Nat /\ (x \div 4096) % 64 < 64
      /\ (x \div 64) % 64 \in Nat /\ (x \div 64) % 64 < 64
      /\ x % 64 \in Nat /\ x % 64 < 64
      /\ (x \div 262144) * 262144 + ((x \div 4096) % 64) * 4096
         + ((x \div 64) % 64) * 64 + (x % 64) = x
  BY SMTT(60)
<1>2. /\ Sextet(x, 0) = x \div 262144 /\ Sextet(x, 1) = (x \div 4096) % 64
      /\ Sextet(x, 2) = (x \div 64) % 64 /\ Sextet(x, 3) = x % 64
  BY SMT DEF Sextet
<1>3. \A j \in 0..3 : j = 0 \/ j = 1 \/ j = 2 \/ j = 3
  BY SMT
<1> QED
  BY <1>1, <1>2, <1>3, SMT DEF Sextets

LEMMA SextetType ==
    ASSUME NEW x \in Group, NEW j \in 0..3
    PROVE  Sextet(x, j) \in Sextets
BY SextetsOfBits, SMT DEF Group

LEMMA BytesOfBits ==
    ASSUME NEW x \in Nat, x < 16777216
    PROVE  /\ \A j \in 0..2 : Byte(x, j) \in Bytes
           /\ Byte(x, 0) * 65536 + Byte(x, 1) * 256 + Byte(x, 2) = x
<1>1. /\ x \div 65536 \in Nat /\ x \div 65536 < 256
      /\ (x \div 256) % 256 \in Nat /\ (x \div 256) % 256 < 256
      /\ x % 256 \in Nat /\ x % 256 < 256
      /\ (x \div 65536) * 65536 + ((x \div 256) % 256) * 256 + (x % 256) = x
  BY SMTT(60)
<1>2. Byte(x, 0) = x \div 65536 /\ Byte(x, 1) = (x \div 256) % 256 /\ Byte(x, 2) = x % 256
  BY SMT DEF Byte
<1>3. \A j \in 0..2 : j = 0 \/ j = 1 \/ j = 2
  BY SMT
<1> QED
  BY <1>1, <1>2, <1>3, SMT DEF Bytes

LEMMA ByteType ==
    ASSUME NEW x \in Group, NEW j \in 0..2
    PROVE  Byte(x, j) \in Bytes
BY BytesOfBits, SMT DEF Group

LEMMA BytesTogether ==
    ASSUME NEW a \in Bytes, NEW b \in Bytes, NEW c \in Bytes, NEW x, x = a * 65536 + b * 256 + c
    PROVE  /\ x \in Group
           /\ Byte(x, 0) = a /\ Byte(x, 1) = b /\ Byte(x, 2) = c
<1>1. a \in Nat /\ a < 256 /\ b \in Nat /\ b < 256 /\ c \in Nat /\ c < 256
  BY SMT DEF Bytes
<1>2. x \in Group
  BY <1>1, SMT DEF Group
<1>3. x \div 65536 = a /\ (x \div 256) % 256 = b /\ x % 256 = c
  BY <1>1, SMTT(30)
<1> QED
  BY <1>2, <1>3, SMT DEF Byte

LEMMA SextetsTogether ==
    ASSUME NEW s \in Sextets, NEW t \in Sextets, NEW u \in Sextets, NEW v \in Sextets,
           NEW x, x = s * 262144 + t * 4096 + u * 64 + v
    PROVE  /\ x \in Group
           /\ Sextet(x, 0) = s /\ Sextet(x, 1) = t /\ Sextet(x, 2) = u /\ Sextet(x, 3) = v
<1>1. /\ s \in Nat /\ s < 64 /\ t \in Nat /\ t < 64
      /\ u \in Nat /\ u < 64 /\ v \in Nat /\ v < 64
  BY SMT DEF Sextets
<1>2. x \in Group
  BY <1>1, SMT DEF Group
<1>3. x \div 262144 = s /\ (x \div 4096) % 64 = t /\ (x \div 64) % 64 = u /\ x % 64 = v
  BY <1>1, SMTT(60)
<1> QED
  BY <1>2, <1>3, SMT DEF Sextet

(* A tail of one byte or two leaves zeros behind, ...                      *)
LEMMA TailOfBytes ==
    ASSUME NEW a \in Bytes, NEW b \in Bytes
    PROVE  /\ Sextet(a * 65536, 2) = 0 /\ Sextet(a * 65536, 3) = 0
           /\ Sextet(a * 65536 + b * 256, 3) = 0
<1>1. a \in Nat /\ a < 256 /\ b \in Nat /\ b < 256
  BY SMT DEF Bytes
<1>2. /\ ((a * 65536) \div 64) % 64 = 0 /\ (a * 65536) % 64 = 0
      /\ (a * 65536 + b * 256) % 64 = 0
  BY <1>1, SMTT(30)
<1> QED
  BY <1>2, SMT DEF Sextet

(* ... and what a tail of two characters or three spells survives but for  *)
(* the bits that fill no byte.                                             *)
LEMMA TailOfSextets ==
    ASSUME NEW s \in Sextets, NEW t \in Sextets, NEW u \in Sextets,
           NEW x, x = s * 262144 + t * 4096 + u * 64
    PROVE  /\ Sextet(Byte(x, 0) * 65536, 0) = s
           /\ Sextet(Byte(x, 0) * 65536, 1) = (t \div 16) * 16
           /\ Sextet(Byte(x, 0) * 65536 + Byte(x, 1) * 256, 0) = s
           /\ Sextet(Byte(x, 0) * 65536 + Byte(x, 1) * 256, 1) = t
           /\ Sextet(Byte(x, 0) * 65536 + Byte(x, 1) * 256, 2) = (u \div 4) * 4
<1>1. s \in Nat /\ s < 64 /\ t \in Nat /\ t < 64 /\ u \in Nat /\ u < 64
  BY SMT DEF Sextets
<1>2. x \div 65536 = s * 4 + (t \div 16)
  BY <1>1, SMTT(60)
<1>3. (x \div 256) % 256 = (t % 16) * 16 + (u \div 4)
  BY <1>1, SMTT(60)
<1> DEFINE a == s * 4 + (t \div 16)
           b == (t % 16) * 16 + (u \div 4)
<1>4. /\ (a * 65536) \div 262144 = s
      /\ ((a * 65536) \div 4096) % 64 = (t \div 16) * 16
  BY <1>1, SMTT(60)
<1>5. /\ (a * 65536 + b * 256) \div 262144 = s
      /\ ((a * 65536 + b * 256) \div 4096) % 64 = t
      /\ ((a * 65536 + b * 256) \div 64) % 64 = (u \div 4) * 4
  BY <1>1, SMTT(60)
<1>6. Byte(x, 0) = a /\ Byte(x, 1) = b
  BY <1>2, <1>3, SMT DEF Byte
<1> HIDE DEF a, b
<1> QED
  BY <1>4, <1>5, <1>6, SMT DEF Sextet

-----------------------------------------------------------------------------
(* Positions.  Every place of a chunk is the j-th of group g.              *)

LEMMA PlaceOfSextet ==
    ASSUME NEW k \in Nat, k >= 1
    PROVE  /\ (k - 1) \div 4 \in Nat /\ (k - 1) % 4 \in 0..3
           /\ k = 4 * ((k - 1) \div 4) + ((k - 1) % 4) + 1
BY SMT

LEMMA PlaceOfByte ==
    ASSUME NEW k \in Nat, k >= 1
    PROVE  /\ (k - 1) \div 3 \in Nat /\ (k - 1) % 3 \in 0..2
           /\ k = 3 * ((k - 1) \div 3) + ((k - 1) % 3) + 1
BY SMT

LEMMA PlaceIsUnique ==
    ASSUME NEW g \in Nat, NEW j \in Nat
    PROVE  /\ j < 4 => (4*g + j) \div 4 = g /\ (4*g + j) % 4 = j
           /\ j < 3 => (3*g + j) \div 3 = g /\ (3*g + j) % 3 = j
BY SMT

LEMMA AtInRange ==
    ASSUME NEW S, 0 \in S, NEW s \in Seq(S), NEW i \in Nat, i >= 1
    PROVE  At(s, i) \in S /\ (i > Len(s) => At(s, i) = 0)
BY DEF At

LEMMA TripleBits ==
    ASSUME NEW d \in Seq(Bytes), NEW g \in Nat
    PROVE  /\ Triple(d, g) \in Group
           /\ Byte(Triple(d, g), 0) = At(d, 3*g + 1)
           /\ Byte(Triple(d, g), 1) = At(d, 3*g + 2)
           /\ Byte(Triple(d, g), 2) = At(d, 3*g + 3)
<1>1. 0 \in Bytes
  BY SMT DEF Bytes
<1>2. At(d, 3*g + 1) \in Bytes /\ At(d, 3*g + 2) \in Bytes /\ At(d, 3*g + 3) \in Bytes
  BY <1>1, AtInRange, SMT
<1> QED
  BY <1>2, BytesTogether, SMT DEF Triple

LEMMA QuadBits ==
    ASSUME NEW t \in Seq(Sextets), NEW g \in Nat
    PROVE  /\ Quad(t, g) \in Group
           /\ Sextet(Quad(t, g), 0) = At(t, 4*g + 1)
           /\ Sextet(Quad(t, g), 1) = At(t, 4*g + 2)
           /\ Sextet(Quad(t, g), 2) = At(t, 4*g + 3)
           /\ Sextet(Quad(t, g), 3) = At(t, 4*g + 4)
<1>1. 0 \in Sextets
  BY SMT DEF Sextets
<1>2. /\ At(t, 4*g + 1) \in Sextets /\ At(t, 4*g + 2) \in Sextets
      /\ At(t, 4*g + 3) \in Sextets /\ At(t, 4*g + 4) \in Sextets
  BY <1>1, AtInRange, SMT
<1> QED
  BY <1>2, SextetsTogether, SMT DEF Quad

-----------------------------------------------------------------------------
(* Chunks.                                                                 *)

LEMMA EncodedType ==
    ASSUME NEW d \in Seq(Bytes)
    PROVE  /\ base64url_encode(d) \in Seq(Sextets)
           /\ Len(base64url_encode(d)) = (4 * Len(d) + 2) \div 3
<1> DEFINE M == (4 * Len(d) + 2) \div 3
<1>1. M \in Nat
  BY SMT
<1>2. ASSUME NEW k \in 1..M
      PROVE  Sextet(Triple(d, (k - 1) \div 4), (k - 1) % 4) \in Sextets
  <2>1. (k - 1) \div 4 \in Nat /\ (k - 1) % 4 \in 0..3
    BY <1>1, PlaceOfSextet, SMT
  <2> QED
    <3> DEFINE g == (k - 1) \div 4
    <3> HIDE DEF g
    <3>1. Triple(d, g) \in Group
      BY <2>1, TripleBits DEF g
    <3> QED
      BY <2>1, <3>1, SextetType DEF g
<1> QED
  BY <1>1, <1>2 DEF base64url_encode

LEMMA DecodedType ==
    ASSUME NEW t \in Seq(Sextets)
    PROVE  /\ base64url_decode(t) \in Seq(Bytes)
           /\ Len(base64url_decode(t)) = (3 * Len(t)) \div 4
<1> DEFINE N == (3 * Len(t)) \div 4
<1>1. N \in Nat
  BY SMT
<1>2. ASSUME NEW k \in 1..N
      PROVE  Byte(Quad(t, (k - 1) \div 3), (k - 1) % 3) \in Bytes
  <2>1. (k - 1) \div 3 \in Nat /\ (k - 1) % 3 \in 0..2
    BY <1>1, PlaceOfByte, SMT
  <2> QED
    <3> DEFINE g == (k - 1) \div 3
    <3> HIDE DEF g
    <3>1. Quad(t, g) \in Group
      BY <2>1, QuadBits DEF g
    <3> QED
      BY <2>1, <3>1, ByteType DEF g
<1> QED
  BY <1>1, <1>2 DEF base64url_decode

(* Beyond the end of the text there would only be zeros.                   *)
LEMMA EncodedAt ==
    ASSUME NEW d \in Seq(Bytes), NEW g \in Nat, NEW j \in 0..3
    PROVE  At(base64url_encode(d), 4*g + j + 1) = Sextet(Triple(d, g), j)
<1> DEFINE t == base64url_encode(d)
           M == (4 * Len(d) + 2) \div 3
<1>1. t \in Seq(Sextets) /\ Len(t) = M /\ Len(d) \in Nat
  BY EncodedType
<1>2. CASE 4*g + j + 1 <= M
  <2>1. 4*g + j + 1 \in 1..M
    BY <1>2, <1>1, SMT
  <2>2. t[4*g + j + 1] = Sextet(Triple(d, (4*g + j + 1 - 1) \div 4), (4*g + j + 1 - 1) % 4)
    BY <2>1 DEF base64url_encode
  <2>3. (4*g + j + 1 - 1) \div 4 = g /\ (4*g + j + 1 - 1) % 4 = j
    BY PlaceIsUnique, SMT
  <2> HIDE DEF t, M
  <2>4. At(t, 4*g + j + 1) = t[4*g + j + 1]
    BY <1>1, <1>2 DEF At
  <2> QED
    BY <2>2, <2>3, <2>4 DEF t
<1>3. CASE 4*g + j + 1 > M
  <2>1. At(t, 4*g + j + 1) = 0
    <3> HIDE DEF t, M
    <3> QED
      BY <1>1, <1>3 DEF At
  <2> DEFINE a == At(d, 3*g + 1)
             b == At(d, 3*g + 2)
  <2>2. a \in Bytes /\ b \in Bytes
    <3>1. 0 \in Bytes
      BY SMT DEF Bytes
    <3> QED
      BY <3>1, AtInRange, SMT
  <2>3. \/ Len(d) <= 3*g
        \/ Len(d) = 3*g + 1 /\ j \in {2, 3}
        \/ Len(d) = 3*g + 2 /\ j = 3
    BY <1>1, <1>3, SMTT(30)
  <2>4. CASE Len(d) <= 3*g
    <3>1. a = 0 /\ b = 0 /\ At(d, 3*g + 3) = 0
      BY <1>1, <2>4, SMT DEF At
    <3>2. Triple(d, g) = 0
      BY <3>1, SMT DEF Triple
    <3>3. Sextet(0, j) = 0
      <4>1. /\ 0 \div 262144 = 0 /\ (0 \div 4096) % 64 = 0
            /\ (0 \div 64) % 64 = 0 /\ 0 % 64 = 0
        BY SMT
      <4>2. j = 0 \/ j = 1 \/ j = 2 \/ j = 3
        BY SMT
      <4> QED
        BY <4>1, <4>2, SMT DEF Sextet
    <3> QED
      BY <2>1, <3>2, <3>3, SMT
  <2>5. CASE Len(d) = 3*g + 1 /\ j \in {2, 3}
    <3>1. b = 0 /\ At(d, 3*g + 3) = 0
      BY <1>1, <2>5, SMT DEF At
    <3>2. Triple(d, g) = a * 65536
      <4>1. Triple(d, g) = a * 65536 + 0 * 256 + 0
        BY <3>1, SMT DEF Triple
      <4> HIDE DEF a, b, t, M
      <4>2. a \in Nat
        BY <2>2, SMT DEF Bytes
      <4> QED
        BY <4>1, <4>2, SMT
    <3>3. Sextet(a * 65536, 2) = 0 /\ Sextet(a * 65536, 3) = 0
      <4> HIDE DEF a, b
      <4> QED
        BY <2>2, TailOfBytes, SMT
    <3>4. j = 2 \/ j = 3
      BY <2>5
    <3> QED
      BY <2>1, <3>2, <3>3, <3>4, SMT
  <2>6. CASE Len(d) = 3*g + 2 /\ j = 3
    <3>1. At(d, 3*g + 3) = 0
      BY <1>1, <2>6, SMT DEF At
    <3>2. Triple(d, g) = a * 65536 + b * 256
      <4>1. Triple(d, g) = a * 65536 + b * 256 + 0
        BY <3>1, SMT DEF Triple
      <4> HIDE DEF a, b, t, M
      <4>2. a \in Nat /\ b \in Nat
        BY <2>2, SMT DEF Bytes
      <4> QED
        BY <4>1, <4>2, SMT
    <3>3. Sextet(a * 65536 + b * 256, 3) = 0
      <4> HIDE DEF a, b
      <4> QED
        BY <2>2, TailOfBytes, SMT
    <3> QED
      BY <2>1, <2>6, <3>2, <3>3, SMT
  <2> QED
    BY <2>3, <2>4, <2>5, <2>6
<1> QED
  BY <1>1, <1>2, <1>3, SMT

(* The four characters of a group hold the bits of its three bytes.        *)
LEMMA QuadOfSextets ==
    ASSUME NEW t, NEW g \in Nat, NEW x \in Nat, x < 16777216,
           At(t, 4*g + 1) = Sextet(x, 0), At(t, 4*g + 2) = Sextet(x, 1),
           At(t, 4*g + 3) = Sextet(x, 2), At(t, 4*g + 4) = Sextet(x, 3)
    PROVE  Quad(t, g) = x
<1>1. Sextet(x, 0) * 262144 + Sextet(x, 1) * 4096 + Sextet(x, 2) * 64 + Sextet(x, 3) = x
  BY SextetsOfBits, SMT
<1>2. /\ Sextet(x, 0) \in Nat /\ Sextet(x, 1) \in Nat
      /\ Sextet(x, 2) \in Nat /\ Sextet(x, 3) \in Nat
  <2>1. \A j \in 0..3 : Sextet(x, j) \in Sextets
    BY SextetsOfBits, SMT
  <2> QED
    BY <2>1, SMT DEF Sextets
<1>3. Quad(t, g) = At(t, 4*g + 1) * 262144 + At(t, 4*g + 2) * 4096
                   + At(t, 4*g + 3) * 64 + At(t, 4*g + 4)
  BY SMT DEF Quad
<1> DEFINE s0 == Sextet(x, 0)
           s1 == Sextet(x, 1)
           s2 == Sextet(x, 2)
           s3 == Sextet(x, 3)
<1>4. Quad(t, g) = s0 * 262144 + s1 * 4096 + s2 * 64 + s3
  BY <1>3, SMT
<1> QED
  BY <1>1, <1>4, SMT

LEMMA EncodedQuad ==
    ASSUME NEW d \in Seq(Bytes), NEW g \in Nat
    PROVE  Quad(base64url_encode(d), g) = Triple(d, g)
<1> DEFINE t == base64url_encode(d)
           x == Triple(d, g)
<1>1. x \in Nat /\ x < 16777216
  <2>1. x \in Group
    BY TripleBits
  <2> HIDE DEF x
  <2> QED
    BY <2>1, SMT DEF Group
<1>2. At(t, 4*g + 1) = Sextet(x, 0)
  <2>1. 4*g + 1 = 4*g + 0 + 1
    BY SMT
  <2> QED
    BY <2>1, EncodedAt, SMT
<1>3. At(t, 4*g + 2) = Sextet(x, 1)
  <2>1. 4*g + 2 = 4*g + 1 + 1
    BY SMT
  <2> QED
    BY <2>1, EncodedAt, SMT
<1>4. At(t, 4*g + 3) = Sextet(x, 2)
  <2>1. 4*g + 3 = 4*g + 2 + 1
    BY SMT
  <2> QED
    BY <2>1, EncodedAt, SMT
<1>5. At(t, 4*g + 4) = Sextet(x, 3)
  <2>1. 4*g + 4 = 4*g + 3 + 1
    BY SMT
  <2> QED
    BY <2>1, EncodedAt, SMT
<1> HIDE DEF t, x
<1> QED
  BY <1>1, <1>2, <1>3, <1>4, <1>5, QuadOfSextets, SMT DEF t, x

(* Byte j of a group, where there is one.                                  *)
LEMMA ByteOfTriple ==
    ASSUME NEW d \in Seq(Bytes), NEW g \in Nat, NEW j \in 0..2, 3*g + j + 1 <= Len(d)
    PROVE  Byte(Triple(d, g), j) = d[3*g + j + 1]
<1>1. At(d, 3*g + j + 1) = d[3*g + j + 1]
  BY DEF At
<1>2. j = 0 \/ j = 1 \/ j = 2
  BY SMT
<1>3. CASE j = 0
  <2>1. 3*g + j + 1 = 3*g + 1
    BY <1>3, SMT
  <2>2. Byte(Triple(d, g), 0) = At(d, 3*g + 1)
    BY TripleBits
  <2> QED
    BY <1>1, <1>3, <2>1, <2>2
<1>4. CASE j = 1
  <2>1. 3*g + j + 1 = 3*g + 2
    BY <1>4, SMT
  <2>2. Byte(Triple(d, g), 1) = At(d, 3*g + 2)
    BY TripleBits
  <2> QED
    BY <1>1, <1>4, <2>1, <2>2
<1>5. CASE j = 2
  <2>1. 3*g + j + 1 = 3*g + 3
    BY <1>5, SMT
  <2>2. Byte(Triple(d, g), 2) = At(d, 3*g + 3)
    BY TripleBits
  <2> QED
    BY <1>1, <1>5, <2>1, <2>2
<1> QED
  BY <1>2, <1>3, <1>4, <1>5

LEMMA RoundTrip ==
    ASSUME NEW d \in Seq(Bytes)
    PROVE  /\ ~refused(base64url_encode(d))
           /\ base64url_decode(base64url_encode(d)) = d
<1> DEFINE t == base64url_encode(d)
           N == Len(d)
<1>1. t \in Seq(Sextets) /\ Len(t) = (4 * N + 2) \div 3 /\ N \in Nat
  BY EncodedType
<1>2. ~refused(t)
  <2>1. ((4 * N + 2) \div 3) % 4 # 1
    BY <1>1, SMTT(30)
  <2> HIDE DEF t, N
  <2> QED
    BY <1>1, <2>1 DEF refused
<1>3. (3 * Len(t)) \div 4 = N
  <2>1. (3 * ((4 * N + 2) \div 3)) \div 4 = N
    BY <1>1, SMTT(30)
  <2> HIDE DEF t, N
  <2> QED
    BY <1>1, <2>1
<1>4. ASSUME NEW k \in 1..N
      PROVE  Byte(Quad(t, (k - 1) \div 3), (k - 1) % 3) = d[k]
  <2> DEFINE g == (k - 1) \div 3
             j == (k - 1) % 3
  <2>1. g \in Nat /\ j \in 0..2 /\ k = 3*g + j + 1
    BY <1>1, PlaceOfByte, SMT
  <2> HIDE DEF g, j
  <2>2. Quad(t, g) = Triple(d, g)
    BY <2>1, EncodedQuad
  <2>3. Byte(Triple(d, g), j) = d[k]
    <3>1. 3*g + j + 1 <= Len(d)
      BY <1>1, <2>1, SMT
    <3>2. Byte(Triple(d, g), j) = d[3*g + j + 1]
      BY <2>1, <3>1, ByteOfTriple
    <3> QED
      BY <2>1, <3>2
  <2> QED
    BY <2>2, <2>3 DEF g, j
<1>5. base64url_decode(t) = [k \in 1..N |-> d[k]]
  <2>1. base64url_decode(t) = [k \in 1..N |-> Byte(Quad(t, (k - 1) \div 3), (k - 1) % 3)]
    BY <1>3 DEF base64url_decode
  <2> HIDE DEF t, N
  <2> QED
    BY <1>4, <2>1
<1>6. d = [k \in 1..N |-> d[k]]
  OBVIOUS
<1> QED
  BY <1>2, <1>5, <1>6

-----------------------------------------------------------------------------
(* Back from the bytes of an accepted text to its characters.              *)

LEMMA DecodedAt ==
    ASSUME NEW t \in Seq(Sextets), NEW g \in Nat, NEW j \in 0..2,
           3*g + j + 1 <= (3 * Len(t)) \div 4
    PROVE  At(base64url_decode(t), 3*g + j + 1) = Byte(Quad(t, g), j)
<1> DEFINE d == base64url_decode(t)
           N == (3 * Len(t)) \div 4
<1>1. d \in Seq(Bytes) /\ Len(d) = N /\ Len(t) \in Nat /\ N \in Nat
  BY DecodedType, SMT
<1>2. 3*g + j + 1 \in 1..N
  BY <1>1, SMT
<1>3. d[3*g + j + 1] = Byte(Quad(t, (3*g + j + 1 - 1) \div 3), (3*g + j + 1 - 1) % 3)
  BY <1>2 DEF base64url_decode
<1>4. (3*g + j + 1 - 1) \div 3 = g /\ (3*g + j + 1 - 1) % 3 = j
  BY PlaceIsUnique, SMT
<1> HIDE DEF d, N
<1>5. At(d, 3*g + j + 1) = d[3*g + j + 1]
  BY <1>1, <1>2, SMT DEF At
<1> QED
  BY <1>3, <1>4, <1>5 DEF d

(* The three pieces of a group, zero where the bytes have ended.           *)
LEMMA DecodedTriple ==
    ASSUME NEW t \in Seq(Sextets), NEW g \in Nat
    PROVE  LET d == base64url_decode(t)
               N == (3 * Len(t)) \div 4
               x == Quad(t, g)
           IN  /\ At(d, 3*g + 1) = IF 3*g + 1 <= N THEN Byte(x, 0) ELSE 0
               /\ At(d, 3*g + 2) = IF 3*g + 2 <= N THEN Byte(x, 1) ELSE 0
               /\ At(d, 3*g + 3) = IF 3*g + 3 <= N THEN Byte(x, 2) ELSE 0
<1> DEFINE d == base64url_decode(t)
           N == (3 * Len(t)) \div 4
           x == Quad(t, g)
<1>1. Len(d) = N /\ N \in Nat
  BY DecodedType, SMT
<1>2. ASSUME NEW j \in 0..2
      PROVE  At(d, 3*g + j + 1) = IF 3*g + j + 1 <= N THEN Byte(x, j) ELSE 0
  <2>1. CASE 3*g + j + 1 <= N
    BY <2>1, DecodedAt
  <2>2. CASE ~(3*g + j + 1 <= N)
    <3>1. At(d, 3*g + j + 1) = 0
      <4> HIDE DEF d, N
      <4> QED
        BY <1>1, <2>2 DEF At
    <3> QED
      BY <2>2, <3>1
  <2> QED
    BY <2>1, <2>2
<1> HIDE DEF d, N, x
<1>3. 3*g + 0 + 1 = 3*g + 1 /\ 3*g + 1 + 1 = 3*g + 2 /\ 3*g + 2 + 1 = 3*g + 3
  BY SMT
<1>4. At(d, 3*g + 1) = IF 3*g + 1 <= N THEN Byte(x, 0) ELSE 0
  <2>1. At(d, 3*g + 0 + 1) = IF 3*g + 0 + 1 <= N THEN Byte(x, 0) ELSE 0
    BY <1>2, SMT
  <2> QED
    BY <1>3, <2>1
<1>5. At(d, 3*g + 2) = IF 3*g + 2 <= N THEN Byte(x, 1) ELSE 0
  <2>1. At(d, 3*g + 1 + 1) = IF 3*g + 1 + 1 <= N THEN Byte(x, 1) ELSE 0
    BY <1>2, SMT
  <2> QED
    BY <1>3, <2>1
<1>6. At(d, 3*g + 3) = IF 3*g + 3 <= N THEN Byte(x, 2) ELSE 0
  <2>1. At(d, 3*g + 2 + 1) = IF 3*g + 2 + 1 <= N THEN Byte(x, 2) ELSE 0
    BY <1>2, SMT
  <2> QED
    BY <1>3, <2>1
<1> QED
  BY <1>4, <1>5, <1>6 DEF d, N, x

(* Group g of the bytes, by how many characters it was decoded from.       *)
LEMMA TripleOfQuad ==
    ASSUME NEW t \in Seq(Sextets), NEW g \in Nat
    PROVE  LET d == base64url_decode(t)
               x == Quad(t, g)
           IN  /\ Len(t) >= 4*g + 4 => Triple(d, g) = x
               /\ Len(t) = 4*g + 2  => Triple(d, g) = Byte(x, 0) * 65536
               /\ Len(t) = 4*g + 3  => Triple(d, g) = Byte(x, 0) * 65536 + Byte(x, 1) * 256
<1> DEFINE d == base64url_decode(t)
           n == Len(t)
           N == (3 * Len(t)) \div 4
           x == Quad(t, g)
           a == At(d, 3*g + 1)
           b == At(d, 3*g + 2)
           c == At(d, 3*g + 3)
           p == Byte(x, 0)
           q == Byte(x, 1)
           r == Byte(x, 2)
<1>1. n \in Nat
  BY SMT
<1>2. /\ a = IF 3*g + 1 <= N THEN p ELSE 0
      /\ b = IF 3*g + 2 <= N THEN q ELSE 0
      /\ c = IF 3*g + 3 <= N THEN r ELSE 0
  BY DecodedTriple
<1>3. Triple(d, g) = a * 65536 + b * 256 + c
  BY SMT DEF Triple
<1>4. /\ n >= 4*g + 4 => 3*g + 3 <= N
      /\ n = 4*g + 2 => N = 3*g + 1
      /\ n = 4*g + 3 => N = 3*g + 2
  BY <1>1, SMTT(30)
<1>5. N \in Nat
  BY <1>1, SMT
<1>6. x \in Group
  BY QuadBits
<1>7. p \in Nat /\ q \in Nat /\ r \in Nat /\ p * 65536 + q * 256 + r = x
  <2> HIDE DEF x
  <2>1. /\ p \in Bytes /\ q \in Bytes /\ r \in Bytes
        /\ Byte(x, 0) * 65536 + Byte(x, 1) * 256 + Byte(x, 2) = x
    <3>1. x \in Nat /\ x < 16777216
      BY <1>6, SMT DEF Group
    <3> QED
      BY <3>1, BytesOfBits, SMT
  <2> HIDE DEF p, q, r
  <2>2. p * 65536 + q * 256 + r = x
    BY <2>1 DEF p, q, r
  <2> QED
    BY <2>1, <2>2, SMT DEF Bytes
<1> HIDE DEF d, n, N, x, a, b, c, p, q, r
<1>8. n >= 4*g + 4 => Triple(d, g) = x
  BY <1>1, <1>2, <1>3, <1>4, <1>5, <1>7, SMT
<1>9. n = 4*g + 2 => Triple(d, g) = p * 65536
  BY <1>1, <1>2, <1>3, <1>4, <1>5, <1>7, SMT
<1>10. n = 4*g + 3 => Triple(d, g) = p * 65536 + q * 256
  BY <1>1, <1>2, <1>3, <1>4, <1>5, <1>7, SMT
<1> QED
  BY <1>8, <1>9, <1>10 DEF d, n, x, p, q

LEMMA RespeltAt ==
    ASSUME NEW t \in Seq(Sextets), Len(t) % 4 # 1, NEW g \in Nat, NEW j \in 0..3,
           4*g + j + 1 <= Len(t)
    PROVE  Sextet(Triple(base64url_decode(t), g), j) = Canonical(t)[4*g + j + 1]
<1> DEFINE d == base64url_decode(t)
           n == Len(t)
           k == 4*g + j + 1
           x == Quad(t, g)
           s == At(t, 4*g + 1)
           u == At(t, 4*g + 2)
           v == At(t, 4*g + 3)
           w == At(t, 4*g + 4)
<1>1. n \in Nat /\ k \in 1..n
  BY SMT
<1>2. j = 0 \/ j = 1 \/ j = 2 \/ j = 3
  BY SMT
<1>3. s \in Sextets /\ u \in Sextets /\ v \in Sextets /\ w \in Sextets
  <2>1. 0 \in Sextets
    BY SMT DEF Sextets
  <2> QED
    BY <2>1, AtInRange, SMT
<1>4. t[k] = At(t, k)
  <2> HIDE DEF k
  <2> QED
    BY <1>1, SMT DEF At
<1>5. /\ j = 0 => t[k] = s
      /\ j = 1 => t[k] = u
      /\ j = 2 => t[k] = v
      /\ j = 3 => t[k] = w
  BY <1>4, SMT
<1>6. Canonical(t)[k] = CASE k = n /\ n % 4 = 2 -> (t[k] \div 16) * 16
                          [] k = n /\ n % 4 = 3 -> (t[k] \div 4) * 4
                          [] OTHER              -> t[k]
  <2> HIDE DEF k
  <2> QED
    BY <1>1 DEF Canonical
<1>7. \/ n >= 4*g + 4
      \/ n = 4*g + 2 /\ n % 4 = 2
      \/ n = 4*g + 3 /\ n % 4 = 3
  BY <1>1, SMTT(30)
<1>8. /\ n >= 4*g + 4 => Triple(d, g) = x
      /\ n = 4*g + 2  => Triple(d, g) = Byte(x, 0) * 65536
      /\ n = 4*g + 3  => Triple(d, g) = Byte(x, 0) * 65536 + Byte(x, 1) * 256
  BY TripleOfQuad
<1>9. CASE n >= 4*g + 4
  <2>1. Sextet(x, j) = t[k]
    <3>1. Sextet(x, 0) = s /\ Sextet(x, 1) = u /\ Sextet(x, 2) = v /\ Sextet(x, 3) = w
      BY QuadBits
    <3> HIDE DEF x, s, u, v, w, k
    <3> QED
      BY <1>2, <1>5, <3>1
  <2>2. k = n => n % 4 = 0
    BY <1>1, <1>9, SMTT(30)
  <2>3. Canonical(t)[k] = t[k]
    <3>1. ~(k = n /\ n % 4 = 2) /\ ~(k = n /\ n % 4 = 3)
      BY <2>2, SMT
    <3> HIDE DEF k, n
    <3> QED
      BY <1>6, <3>1, SMT
  <2> QED
    BY <1>8, <1>9, <2>1, <2>3
<1>10. CASE n = 4*g + 2 /\ n % 4 = 2
  <2>1. j = 0 \/ j = 1
    BY <1>10, <1>2, SMT
  <2>2. x = s * 262144 + u * 4096 + 0 * 64
    <3>1. v = 0 /\ w = 0
      BY <1>10, SMT DEF At
    <3>2. x = s * 262144 + u * 4096 + v * 64 + w
      BY SMT DEF Quad
    <3> HIDE DEF x, s, u, v, w
    <3> QED
      BY <1>3, <3>1, <3>2, SMT DEF Sextets
  <2>3. /\ Sextet(Byte(x, 0) * 65536, 0) = s
        /\ Sextet(Byte(x, 0) * 65536, 1) = (u \div 16) * 16
    <3>1. 0 \in Sextets
      BY SMT DEF Sextets
    <3> HIDE DEF x, s, u, v, w
    <3> QED
      BY <1>3, <2>2, <3>1, TailOfSextets, SMT
  <2>4. /\ j = 0 => k # n
        /\ j = 1 => k = n
    BY <1>10, <1>1, SMT
  <2> HIDE DEF x, s, u, v, w, k, n, d
  <2>5. Canonical(t)[k] = IF j = 1 THEN (t[k] \div 16) * 16 ELSE t[k]
    BY <1>6, <1>10, <2>1, <2>4, SMT
  <2> QED
    <3>1. Triple(d, g) = Byte(x, 0) * 65536
      BY <1>8, <1>10
    <3> QED
      BY <1>5, <2>1, <2>3, <2>5, <3>1, SMT DEF d, k
<1>11. CASE n = 4*g + 3 /\ n % 4 = 3
  <2>1. j = 0 \/ j = 1 \/ j = 2
    BY <1>11, <1>2, SMT
  <2>2. x = s * 262144 + u * 4096 + v * 64
    <3>1. w = 0
      BY <1>11, SMT DEF At
    <3>2. x = s * 262144 + u * 4096 + v * 64 + w
      BY SMT DEF Quad
    <3> HIDE DEF x, s, u, v, w
    <3> QED
      BY <1>3, <3>1, <3>2, SMT DEF Sextets
  <2>3. /\ Sextet(Byte(x, 0) * 65536 + Byte(x, 1) * 256, 0) = s
        /\ Sextet(Byte(x, 0) * 65536 + Byte(x, 1) * 256, 1) = u
        /\ Sextet(Byte(x, 0) * 65536 + Byte(x, 1) * 256, 2) = (v \div 4) * 4
    <3> HIDE DEF x, s, u, v, w
    <3> QED
      BY <1>3, <2>2, TailOfSextets, SMT
  <2>4. /\ j = 0 => k # n
        /\ j = 1 => k # n
        /\ j = 2 => k = n
    BY <1>11, <1>1, SMT
  <2> HIDE DEF x, s, u, v, w, k, n, d
  <2>5. Canonical(t)[k] = IF j = 2 THEN (t[k] \div 4) * 4 ELSE t[k]
    BY <1>6, <1>11, <2>1, <2>4, SMT
  <2> QED
    <3>1. Triple(d, g) = Byte(x, 0) * 65536 + Byte(x, 1) * 256
      BY <1>8, <1>11
    <3> QED
      BY <1>5, <2>1, <2>3, <2>5, <3>1, SMT DEF d, k
<1> QED
  BY <1>7, <1>9, <1>10, <1>11

LEMMA Respelt ==
    ASSUME NEW t \in Seq(Sextets), Len(t) % 4 # 1
    PROVE  base64url_encode(base64url_decode(t)) = Canonical(t)
<1> DEFINE d == base64url_decode(t)
           n == Len(t)
<1>1. n \in Nat /\ Len(d) = (3 * n) \div 4 /\ n % 4 # 1
  BY DecodedType
<1>2. (4 * Len(d) + 2) \div 3 = n
  <2>1. (4 * ((3 * n) \div 4) + 2) \div 3 = n
    BY <1>1, SMTT(60)
  <2> HIDE DEF d, n
  <2> QED
    BY <1>1, <2>1
<1>3. base64url_encode(d) = [k \in 1..n |-> Sextet(Triple(d, (k - 1) \div 4), (k - 1) % 4)]
  <2> HIDE DEF d, n
  <2> QED
    BY <1>2 DEF base64url_encode
<1>4. ASSUME NEW k \in 1..n
      PROVE  Sextet(Triple(d, (k - 1) \div 4), (k - 1) % 4) = Canonical(t)[k]
  <2> DEFINE g == (k - 1) \div 4
             j == (k - 1) % 4
  <2>1. g \in Nat /\ j \in 0..3 /\ k = 4*g + j + 1
    BY <1>1, PlaceOfSextet, SMT
  <2> HIDE DEF g, j
  <2>2. 4*g + j + 1 <= n
    BY <1>1, <2>1, SMT
  <2>3. Sextet(Triple(d, g), j) = Canonical(t)[4*g + j + 1]
    BY <1>1, <2>1, <2>2, RespeltAt
  <2> QED
    BY <2>1, <2>3 DEF g, j
<1>5. Canonical(t) = [k \in 1..n |-> Canonical(t)[k]]
  BY DEF Canonical
<1> HIDE DEF d, n
<1>6. base64url_encode(d) = [k \in 1..n |-> Canonical(t)[k]]
  BY <1>3, <1>4
<1> QED
  BY <1>5, <1>6 DEF d

-----------------------------------------------------------------------------
(* The chunk and its text are never anything but bytes and characters.     *)
THEOREM TypeCorrect == Spec => []TypeOK
<1>1. Init => TypeOK
  BY Base64Assumption, SMT DEF Init, TypeOK
<1>2. TypeOK /\ [Next]_vars => TypeOK'
  <2> SUFFICES ASSUME TypeOK, [Next]_vars PROVE TypeOK'
    OBVIOUS
  <2> USE DEF TypeOK
  <2>0. MaxChanges \in Nat /\ InputBytes \subseteq Bytes /\ InputChars \subseteq Chars
    BY Base64Assumption
  <2>1. ASSUME NEW b \in InputBytes, Encode(b) PROVE TypeOK'
    <3>1. Append(data, b) \in Seq(Bytes)
      BY <2>0
    <3>2. base64url_encode(Append(data, b)) \in Seq(Sextets)
      BY <3>1, EncodedType
    <3>3. \A q \in Seq(Sextets) : q \in Seq(Chars)
      <4>1. Sextets \subseteq Chars
        BY SMT DEF Sextets, Chars
      <4> HIDE DEF TypeOK
      <4> QED
        BY <4>1
    <3> QED
      BY <2>1, <3>1, <3>2, <3>3 DEF Encode
  <2>2. Change => changes' \in 0..MaxChanges /\ data' \in Seq(Bytes)
    BY <2>0, SMT DEF Change
  <2>3. ASSUME NEW i \in DOMAIN text, NEW c \in InputChars, Respell(i, c) PROVE TypeOK'
    <3>1. c \in Chars
      BY <2>0
    <3>2. [text EXCEPT ![i] = c] \in Seq(Chars)
      BY <3>1
    <3> QED
      BY <2>2, <2>3, <3>2 DEF Respell
  <2>4. CASE Cut
    <3>1. SubSeq(text, 1, Len(text) - 1) \in Seq(Chars)
      BY <2>4, SMT DEF Cut
    <3> QED
      BY <2>2, <2>4, <3>1 DEF Cut
  <2>5. ASSUME NEW c \in InputChars, Extend(c) PROVE TypeOK'
    <3>1. Append(text, c) \in Seq(Chars)
      BY <2>0
    <3> QED
      BY <2>2, <2>5, <3>1 DEF Extend
  <2>6. CASE Begin
    BY <2>0, <2>6, SMT DEF Begin
  <2>7. CASE UNCHANGED vars
    BY <2>7 DEF vars
  <2> QED
    BY <2>1, <2>3, <2>4, <2>5, <2>6, <2>7 DEF Next
<1> QED
  BY <1>1, <1>2, PTL DEF Spec

(* Whatever bytes a chunk has, encoding and decoding gives them back; the  *)
(* decoder never refuses what the encoder writes.                          *)
THEOREM EncodedIsDecoded == Spec => []DecodeInvertsEncode
<1>1. TypeOK => DecodeInvertsEncode
  BY RoundTrip DEF TypeOK, DecodeInvertsEncode
<1> QED
  BY <1>1, TypeCorrect, PTL

(* Different bytes are never spelled alike.                                *)
THEOREM EncodingIsInjective ==
    ASSUME NEW a \in Seq(Bytes), NEW b \in Seq(Bytes), base64url_encode(a) = base64url_encode(b)
    PROVE  a = b
BY RoundTrip

(* What the decoder accepts is a sequence of sextets, ...                  *)
LEMMA AcceptedText ==
    ASSUME NEW t \in Seq(Chars), ~refused(t)
    PROVE  t \in Seq(Sextets) /\ Len(t) % 4 # 1
<1>1. Len(t) % 4 # 1 /\ \A i \in DOMAIN t : t[i] \in Sextets
  BY DEF refused
<1>2. Len(t) \in Nat /\ t = [i \in 1..Len(t) |-> t[i]]
  OBVIOUS
<1>3. \A i \in 1..Len(t) : t[i] \in Sextets
  BY <1>1
<1> QED
  BY <1>1, <1>2, <1>3

(* ... and so is what differs from an encoding in left-over bits only.     *)
LEMMA RespeltIsAccepted ==
    ASSUME NEW t \in Seq(Chars), NEW d \in Seq(Bytes), Canonical(t) = base64url_encode(d)
    PROVE  ~refused(t)
<1> DEFINE n == Len(t)
           s == base64url_encode(d)
<1>1. s \in Seq(Sextets) /\ Len(s) = (4 * Len(d) + 2) \div 3 /\ Len(d) \in Nat /\ n \in Nat
  BY EncodedType
<1>2. n = Len(s)
  <2>1. DOMAIN Canonical(t) = 1..n
    BY DEF Canonical
  <2>2. DOMAIN s = 1..Len(s) /\ Len(s) \in Nat
    BY <1>1
  <2> QED
    BY <1>1, <2>1, <2>2
<1>3. n % 4 # 1
  BY <1>1, <1>2, SMT
<1>4. ASSUME NEW i \in 1..n PROVE t[i] \in Sextets
  <2>1. Canonical(t)[i] \in Sextets
    BY <1>1, <1>2
  <2>2. t[i] \in Chars
    OBVIOUS
  <2>3. \/ Canonical(t)[i] = (t[i] \div 16) * 16
        \/ Canonical(t)[i] = (t[i] \div 4) * 4
        \/ Canonical(t)[i] = t[i]
    BY DEF Canonical
  <2>4. ASSUME NEW c \in Chars, (c \div 16) * 16 \in Sextets \/ (c \div 4) * 4 \in Sextets
        PROVE  c \in Sextets
    BY <2>4, SMT DEF Chars, Sextets
  <2> QED
    BY <2>1, <2>2, <2>3, <2>4
<1> QED
  BY <1>3, <1>4 DEF refused

(* Whatever was done to a text, it is read as what was sent exactly if     *)
(* nothing of it was touched but bits that stand for no byte.              *)
THEOREM OnlyRespeltIsReadAsSent == Spec => []ReadAsSent
<1>1. ASSUME TypeOK, ~refused(text), base64url_decode(text) = data
      PROVE  Canonical(text) = base64url_encode(data)
  BY <1>1, AcceptedText, Respelt DEF TypeOK
<1>2. ASSUME TypeOK, Canonical(text) = base64url_encode(data)
      PROVE  ~refused(text) /\ base64url_decode(text) = data
  <2>1. ~refused(text)
    BY <1>2, RespeltIsAccepted DEF TypeOK
  <2>2. text \in Seq(Sextets) /\ Len(text) % 4 # 1
    BY <1>2, <2>1, AcceptedText DEF TypeOK
  <2>3. base64url_encode(base64url_decode(text)) = base64url_encode(data)
    BY <1>2, <2>2, Respelt
  <2> QED
    BY <1>2, <2>1, <2>2, <2>3, DecodedType, EncodingIsInjective DEF TypeOK
<1>3. TypeOK => ReadAsSent
  BY <1>1, <1>2 DEF ReadAsSent
<1> QED
  BY <1>3, TypeCorrect, PTL

-----------------------------------------------------------------------------
(* Two texts that are accepted and decode to the same bytes have the same  *)
(* length and the same characters up to the last; and the last as well     *)
(* when all its bits stand for bytes (base64url.cpp: "exactly one valid    *)
(* spelling", as far as it goes).                                          *)
THEOREM SpellingsDifferInTheLast ==
    ASSUME NEW s \in Seq(Sextets), NEW t \in Seq(Sextets), ~refused(s), ~refused(t),
           base64url_decode(s) = base64url_decode(t)
    PROVE  /\ Len(s) = Len(t)
           /\ \A i \in 1..(Len(s) - 1) : s[i] = t[i]
           /\ Len(s) % 4 = 0 => s = t
<1>1. Len(s) % 4 # 1 /\ Len(t) % 4 # 1
  BY DEF refused
<1>2. Canonical(s) = Canonical(t)
  BY <1>1, Respelt
<1>3. Len(s) \in Nat /\ Len(t) \in Nat
  OBVIOUS
<1>4. DOMAIN Canonical(s) = 1..Len(s) /\ DOMAIN Canonical(t) = 1..Len(t)
  BY DEF Canonical
<1>5. Len(s) = Len(t)
  BY <1>2, <1>3, <1>4
<1>6. ASSUME NEW i \in 1..Len(s), i # Len(s) \/ Len(s) % 4 = 0 PROVE s[i] = t[i]
  <2>1. Canonical(s)[i] = s[i]
    BY <1>3, <1>6 DEF Canonical
  <2>2. Canonical(t)[i] = t[i]
    BY <1>3, <1>5, <1>6 DEF Canonical
  <2> QED
    BY <1>2, <2>1, <2>2
<1>7. \A i \in 1..(Len(s) - 1) : s[i] = t[i]
  BY <1>3, <1>6
<1>8. ASSUME Len(s) % 4 = 0 PROVE s = t
  <2>1. \A i \in 1..Len(s) : s[i] = t[i]
    BY <1>6, <1>8
  <2>2. s = [i \in 1..Len(s) |-> s[i]] /\ t = [i \in 1..Len(t) |-> t[i]]
    OBVIOUS
  <2> QED
    BY <1>5, <2>1, <2>2
<1> QED
  BY <1>5, <1>7, <1>8

=============================================================================
