------------------------------ MODULE Base64Url ------------------------------
(***************************************************************************)
(* The chunks of a token as text.  A character is the number it stands for *)
(* in the alphabet, or one that is not in it; padding is one of those.     *)
(* Some bytes are encoded, and the text may be changed on the way to the   *)
(* decoder: cut, padded, or respelt character by character.                *)
(***************************************************************************)
EXTENDS Naturals, Sequences

CONSTANTS InputBytes, InputChars,  \* the bytes that are encoded, the characters changed to
          MaxBytes, MaxChanges     \* bounds: how many bytes, how many changes of the text

Bytes   == 0..255
Sextets == 0..63
Padding == 64       \* the character =
Chars   == 0..65    \* 65 stands for all others

ASSUME Base64Assumption == /\ InputBytes \subseteq Bytes
                           /\ InputChars \subseteq Chars
                           /\ MaxBytes \in Nat /\ MaxChanges \in Nat

(* Element i of a chunk, and what the shifts put where there is none.      *)
At(s, i) == IF i <= Len(s) THEN s[i] ELSE 0

(* The 24 bits of group g, and its j-th piece when cut into four or three. *)
Triple(data, g) == At(data, 3*g + 1) * 65536 + At(data, 3*g + 2) * 256 + At(data, 3*g + 3)

Quad(text, g) == At(text, 4*g + 1) * 262144 + At(text, 4*g + 2) * 4096
                 + At(text, 4*g + 3) * 64 + At(text, 4*g + 4)

Sextet(bits, j) == CASE j = 0 -> bits \div 262144
                     [] j = 1 -> (bits \div 4096) % 64
                     [] j = 2 -> (bits \div 64) % 64
                     [] j = 3 -> bits % 64

Byte(bits, j) == CASE j = 0 -> bits \div 65536
                   [] j = 1 -> (bits \div 256) % 256
                   [] j = 2 -> bits % 256

(* Mutant of base64url_encode: the last sextet of a group is not masked.   *)
EncodeUnmasked(data) ==
    [k \in 1..((4 * Len(data) + 2) \div 3) |->
        LET bits == Triple(data, (k - 1) \div 4)
        IN  IF (k - 1) % 4 = 3 THEN bits ELSE Sextet(bits, (k - 1) % 4)]

(* Mutant of base64url_encode: a tail of two bytes written like one of one.*)
EncodeShortTail(data) ==
    [k \in 1..((4 * Len(data)) \div 3 + (IF Len(data) % 3 = 1 THEN 1 ELSE 0)) |->
        Sextet(Triple(data, (k - 1) \div 4), (k - 1) % 4)]

(* Groups of three bytes, then two or three characters for what is left.   *)
base64url_encode(data) ==
    [k \in 1..((4 * Len(data) + 2) \div 3) |->
        Sextet(Triple(data, (k - 1) \div 4), (k - 1) % 4)]

(* Mutant of refused: a character left alone at the end is passed over.    *)
RefusedCharacters(text) == \E i \in DOMAIN text : text[i] \notin Sextets

(* A character that is not in the alphabet, or one left alone at the end.  *)
refused(text) == Len(text) % 4 = 1 \/ \E i \in DOMAIN text : text[i] \notin Sextets

(* Of what is left after groups of four only whole bytes are kept; whether *)
(* the other bits are zero is not asked.                                   *)
base64url_decode(text) ==
    [k \in 1..((3 * Len(text)) \div 4) |->
        Byte(Quad(text, (k - 1) \div 3), (k - 1) % 3)]

-----------------------------------------------------------------------------
VARIABLES data,     \* the bytes of a chunk,
          text,     \* and its text in the reader's hands
          changes

vars == <<data, text, changes>>

Init == data = <<>> /\ text = <<>> /\ changes = 0

Encode(b) == /\ Len(data) < MaxBytes
             /\ data' = Append(data, b)
             /\ text' = base64url_encode(Append(data, b))
             /\ UNCHANGED changes

Change == changes < MaxChanges /\ changes' = changes + 1 /\ UNCHANGED data

Respell(i, c) == Change /\ text' = [text EXCEPT ![i] = c]

Cut == Change /\ text # <<>> /\ text' = SubSeq(text, 1, Len(text) - 1)

Extend(c) == Change /\ text' = Append(text, c)

(* The next chunk.                                                         *)
Begin == data' = <<>> /\ text' = <<>> /\ changes' = 0

Next == \/ \E b \in InputBytes : Encode(b)
        \/ \E i \in DOMAIN text, c \in InputChars : Respell(i, c)
        \/ Cut
        \/ \E c \in InputChars : Extend(c)
        \/ Begin

Spec == Init /\ [][Next]_vars

-----------------------------------------------------------------------------
TypeOK == data \in Seq(Bytes) /\ text \in Seq(Chars) /\ changes \in 0..MaxChanges

(* What is encoded is read, and read as the same bytes.                    *)
DecodeInvertsEncode ==
    LET chunk == base64url_encode(data)
    IN  ~refused(chunk) /\ base64url_decode(chunk) = data

(* The text with the bits of its last character that stand for no byte     *)
(* cleared.                                                                *)
Canonical(t) ==
    LET n == Len(t)
    IN  [i \in 1..n |-> CASE i = n /\ n % 4 = 2 -> (t[i] \div 16) * 16
                          [] i = n /\ n % 4 = 3 -> (t[i] \div 4) * 4
                          [] OTHER              -> t[i]]

(* Whatever was changed in a text on its way, it is read as the bytes that *)
(* were sent exactly if it is their encoding up to the bits of the last    *)
(* character that stand for no byte; anything else is refused or gives     *)
(* other bytes.  base64url.cpp:21-24 wants more, "exactly one valid         *)
(* spelling", and the decoder does not give it: it asks for no value of    *)
(* those bits (:125-133), so that a signature, 64 bytes, has 16 spellings. *)
ReadAsSent ==
    (~refused(text) /\ base64url_decode(text) = data)
        <=> Canonical(text) = base64url_encode(data)

==============================================================================
