---------------------------- MODULE MCBase64Url ----------------------------
(***************************************************************************)
(* Up to four bytes, so that there is a full group and each kind of tail;  *)
(* characters with each of the bits that a tail may leave over.            *)
(***************************************************************************)
EXTENDS Base64Url

MCBytes == {0, 1, 128, 255}
MCChars == {0, 1, 4, 16, 63, Padding, 65}
============================================================================
