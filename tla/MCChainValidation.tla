-------------------------- MODULE MCChainValidation --------------------------
(***************************************************************************)
(* Chains of up to three tokens out of an operator and its signing key,    *)
(* another operator's token, accounts issued by either key or by           *)
(* themselves, users of them, and the other tokens that may stand in their *)
(* place: an activation, a callout response, generic claims about an       *)
(* account key and about a word that only starts like one, a token whose   *)
(* payload is not the one that was signed.                                 *)
(***************************************************************************)
EXTENDS ChainValidation

MCNames == {"op", "opsk", "acc", "accsk", "acc2", "usr", "Anna", "nobody"}
MCKindOf == [op |-> "O", opsk |-> "O", acc |-> "A", accsk |-> "A", acc2 |-> "A",
             usr |-> "U", Anna |-> "-", nobody |-> "-"]
MCPrefix == [MCKindOf EXCEPT !["Anna"] = "A"]

MCMaxInt == 1000

Claims(type, sub, iss) ==
    [form |-> "ok", top |-> Absent, nats |-> type, ver |-> 2, iss |-> iss, sub |-> sub,
     exp |-> 0, nbf |-> 0, keys |-> {}, scoped |-> {}, issuerAccount |-> None,
     permissions |-> FALSE, sound |-> TRUE]

Operator == [Claims("operator", "op", "op") EXCEPT !.keys = {"opsk"}]
Account == [Claims("account", "acc", "opsk") EXCEPT !.keys = {"accsk"}, !.scoped = {"accsk"}]
User == Claims("user", "usr", "accsk")

(* Tokens of this library and, signing the payload alone, of an older one. *)
Signed(p) == [whole |-> TRUE, head |-> "ed25519-nkey", payload |-> p,
              sig |-> [by |-> p.iss, over |-> [head |-> "ed25519-nkey", payload |-> p]]]
SignedAsV1(p) == [whole |-> TRUE, head |-> "ed25519", payload |-> p,
                  sig |-> [by |-> p.iss, over |-> [head |-> "none", payload |-> p]]]

MCWire ==
    [op           |-> Signed(Operator),
     opBySk       |-> Signed(Claims("operator", "op", "opsk")),
     otherOp      |-> Signed(Claims("operator", "opsk", "op")),
     acc          |-> Signed(Account),
     accBrief     |-> SignedAsV1([Account EXCEPT !.iss = "op", !.scoped = {}, !.exp = 1,
                                                 !.top = "account", !.nats = Untyped, !.ver = 0]),
     accSelf      |-> Signed([Account EXCEPT !.iss = "acc", !.nbf = 1]),
     accFar       |-> Signed([Account EXCEPT !.nbf = MCMaxInt]),
     accUnsound   |-> Signed([Account EXCEPT !.sound = FALSE]),
     usr          |-> Signed(User),
     usrScoped    |-> Signed([User EXCEPT !.permissions = TRUE, !.exp = 1]),
     usrLate      |-> Signed([User EXCEPT !.iss = "acc", !.permissions = TRUE, !.nbf = 2]),
     usrElsewhere |-> Signed([User EXCEPT !.issuerAccount = "acc2"]),
     usrMixedUp   |-> [Signed(User) EXCEPT !.payload.issuerAccount = "acc"],
     activation   |-> Signed([Claims("activation", "acc", "op") EXCEPT !.exp = MCMaxInt]),
     response     |-> Signed([Claims("authorization_response", "usr", "acc")
                              EXCEPT !.issuerAccount = "acc"]),
     generic      |-> SignedAsV1(Claims("custom", "acc", "op")),
     word         |-> Signed(Claims("custom", "Anna", "op"))]

MCJwts == DOMAIN MCWire

Default == [checkExpiration |-> TRUE, checkNotBefore |-> FALSE, checkSignature |-> TRUE,
            checkIssuerChain |-> FALSE, clockSkewSeconds |-> 0]
Strict == [Default EXCEPT !.checkNotBefore = TRUE, !.checkIssuerChain = TRUE]
Tolerant == [Strict EXCEPT !.checkSignature = FALSE, !.clockSkewSeconds = 1]
Permissive == [Default EXCEPT !.checkExpiration = FALSE, !.checkSignature = FALSE,
                              !.clockSkewSeconds = 300]
Hasty == [Strict EXCEPT !.clockSkewSeconds = -1]

MCSettings == {Default, Strict, Tolerant, Permissive, Hasty}
=============================================================================
