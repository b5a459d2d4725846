---------------------------- MODULE ReadingProofs ---------------------------
(***************************************************************************)
(* Proofs about Reading for any keys, names and payloads, and any damage   *)
(* on the way.  What each reader has established when it answers "ok" is   *)
(* read off its list of checks; the properties follow from how the readers *)
(* choose the type, the version and the signed bytes.                      *)
(***************************************************************************)
EXTENDS Reading, TokenProofs

-----------------------------------------------------------------------------
(* Typing, and where signatures come from.                                 *)

(* A signature is one that a key holder made, or it names no key.          *)
SignatureIsMade == token.sig.by = Empty \/ token.sig \in signed

LEMMA ReadingInvariant == Spec => [](TypeOK /\ SignatureIsMade)
<1>1. Init => TypeOK /\ SignatureIsMade
  <2> SUFFICES ASSUME Init PROVE TypeOK /\ SignatureIsMade
    OBVIOUS
  <2> DEFINE blank == [form |-> "json", top |-> Absent, nats |-> Absent, ver |-> 0,
                       iss |-> Empty, sub |-> Empty]
  <2>1. blank \in WirePayloads
    BY NamesAssumption DEF WirePayloads, PayloadForms, Versions
  <2>2. NoToken \in WireTokens /\ NoToken.sig.by = Empty
    BY <2>1, NamesAssumption DEF NoToken, WireTokens, Heads, SignedBytes
  <2> QED
    BY <2>2 DEF Init, TypeOK, SignatureIsMade
<1>2. TypeOK /\ SignatureIsMade /\ [Next]_vars => TypeOK' /\ SignatureIsMade'
  <2> SUFFICES ASSUME TypeOK, SignatureIsMade, [Next]_vars PROVE TypeOK' /\ SignatureIsMade'
    OBVIOUS
  <2> USE DEF TypeOK, SignatureIsMade
  <2>1. ASSUME NEW k \in Keys, NEW h \in {"ed25519", "ed25519-nkey"}, NEW p \in Signable,
               Sign(k, h, p)
        PROVE  TypeOK' /\ SignatureIsMade'
    <3>1. PICK over \in {PayloadOnly([whole |-> TRUE, head |-> h, payload |-> p]),
                         HeaderAndPayload([whole |-> TRUE, head |-> h, payload |-> p])} :
              /\ signed' = signed \cup {[by |-> k, over |-> over]}
              /\ token' = [whole |-> TRUE, head |-> h, payload |-> p,
                           sig |-> [by |-> k, over |-> over]]
      BY <2>1 DEF Sign
    <3>2. p \in WirePayloads /\ h \in Heads /\ k \in Names
      BY ReadingAssumption DEF Heads, Keys
    <3>3. over \in SignedBytes
      BY <3>2 DEF SignedBytes, PayloadOnly, HeaderAndPayload
    <3> QED
      BY <3>1, <3>2, <3>3 DEF WireTokens
  <2>2. ASSUME NEW h \in Heads, RewriteHead(h) PROVE TypeOK' /\ SignatureIsMade'
    BY <2>2 DEF RewriteHead, WireTokens
  <2>3. ASSUME NEW n \in Names, MixPayload(n) PROVE TypeOK' /\ SignatureIsMade'
    BY <2>3 DEF MixPayload, WireTokens, WirePayloads
  <2>4. ASSUME GarbleSignature PROVE TypeOK' /\ SignatureIsMade'
    BY <2>4, NamesAssumption DEF GarbleSignature, WireTokens
  <2>5. ASSUME Cut PROVE TypeOK' /\ SignatureIsMade'
    BY <2>5 DEF Cut, WireTokens
  <2>6. ASSUME UNCHANGED vars PROVE TypeOK' /\ SignatureIsMade'
    BY <2>6 DEF vars
  <2> QED
    BY <2>1, <2>2, <2>3, <2>4, <2>5, <2>6 DEF Next
<1> QED
  BY <1>1, <1>2, PTL DEF Spec

(* Tokens stay tokens, whatever happens to them on the way.                *)
THEOREM TypeCorrect == Spec => []TypeOK
BY ReadingInvariant, PTL

-----------------------------------------------------------------------------
(* The properties.                                                         *)

LEMMA TypedIsAType == \A p : DecodedAs(p) # "generic" => DecodedAs(p) \in TypedClaims
BY DEF DecodedAs

(* What decode() returns, the key it names as issuer signed, as the        *)
(* version, or for a generic claim the header, prescribes, and the claims  *)
(* have the structure of their type (decodeEnvelope, decodeGeneric).       *)
THEOREM DecodedTokensAreSigned == Spec => []DecodedIsSigned
<1>1. TypeOK /\ SignatureIsMade => DecodedIsSigned
  <2> SUFFICES ASSUME TypeOK, SignatureIsMade, decode(token) = "ok" PROVE DecodedIsSigned
    BY DEF DecodedIsSigned
  <2> DEFINE p == token.payload
  <2>1. ASSUME NEW over, Verifies(p.iss, over, token.sig)
        PROVE  token.sig \in signed /\ token.sig.by = p.iss /\ token.sig.over = over
    BY <2>1, NamesAssumption DEF Verifies, SignatureIsMade, Keys
  <2>2. CASE DecodedAs(p) = "generic"
    <3>1. Verifies(p.iss, GenericInput(token), token.sig) /\ checkStructure("generic", p.sub, p.iss)
      BY <2>2, DecodeAccepts, GenericAccepts
    <3>2. token.sig.over = IF token.head = "ed25519" THEN PayloadOnly(token)
                                                      ELSE HeaderAndPayload(token)
      BY <2>1, <3>1 DEF GenericInput
    <3> QED
      BY <2>1, <2>2, <3>1, <3>2 DEF DecodedIsSigned, PayloadOnly, HeaderAndPayload
  <2>3. CASE DecodedAs(p) # "generic"
    <3>1. decodeEnvelope(token) = "ok" /\ checkStructure(DecodedAs(p), p.sub, p.iss)
      BY <2>3, DecodeAccepts, TypedAccepts
    <3>2. /\ EnvelopeVersion(p) \in {1, 2}
          /\ Verifies(p.iss, EnvelopeInput(token), token.sig)
      BY <3>1, EnvelopeAccepts DEF JWT_VERSION
    <3>3. token.sig.over = IF EnvelopeVersion(p) = 1 THEN PayloadOnly(token)
                                                     ELSE HeaderAndPayload(token)
      BY <2>1, <3>2 DEF EnvelopeInput
    <3> QED
      BY <2>1, <2>3, <3>1, <3>2, <3>3 DEF DecodedIsSigned, PayloadOnly, HeaderAndPayload
  <2> QED
    BY <2>2, <2>3
<1> QED
  BY <1>1, ReadingInvariant, PTL

(* The header may be rewritten: no two headers under which decode() takes  *)
(* the same signed payload make different claim types of it (decodeGeneric *)
(* copies the top-level type only under a version 1 header).               *)
THEOREM HeadersDecideNothing == Spec => []HeaderDecidesNothing
<1>1. TypeOK => HeaderDecidesNothing
  <2> SUFFICES ASSUME TypeOK, NEW h \in Heads,
                      decode(token) = "ok", decode([token EXCEPT !.head = h]) = "ok",
                      DecodedAs(token.payload) = "generic"
               PROVE  claimType([token EXCEPT !.head = h]) = claimType(token)
    BY DEF HeaderDecidesNothing, TypeOK, WireTokens
  <2> DEFINE t == [token EXCEPT !.head = h]
  <2>1. /\ t.payload = token.payload /\ t.sig = token.sig /\ t.head = h
        /\ token.head \in Heads
    BY DEF TypeOK, WireTokens
  <2>2. decodeGeneric(token) = "ok" /\ decodeGeneric(t) = "ok"
    BY <2>1, DecodeAccepts
  <2>3. GenericInput(token) = GenericInput(t)
    BY <2>1, <2>2, GenericAccepts DEF Verifies
  <2>4. token.head = "ed25519" <=> t.head = "ed25519"
    <3>1. GenericInput(token).head = IF token.head = "ed25519" THEN "none" ELSE token.head
      BY DEF GenericInput, PayloadOnly, HeaderAndPayload
    <3>2. GenericInput(t).head = IF t.head = "ed25519" THEN "none" ELSE t.head
      BY DEF GenericInput, PayloadOnly, HeaderAndPayload
    <3>3. token.head # "none" /\ t.head # "none"
      BY <2>1 DEF Heads
    <3> QED
      BY <2>3, <3>1, <3>2, <3>3
  <2>5. (IF t.head = "ed25519" /\ v1Layout(t.payload) THEN t.payload.top ELSE t.payload.nats) =
        (IF token.head = "ed25519" /\ v1Layout(token.payload)
         THEN token.payload.top ELSE token.payload.nats)
    BY <2>1, <2>4
  <2> QED
    BY <2>5, Zenon DEF claimType
<1> QED
  BY <1>1, TypeCorrect, PTL

(* decode() accepts as a type exactly what the decoder of that type        *)
(* accepts, although it reads the type before anything is authenticated.   *)
THEOREM DispatchStaysFaithful == Spec => []DispatchIsFaithful
<1>1. TypeOK => DispatchIsFaithful
  <2> SUFFICES ASSUME NEW type \in TypedClaims
               PROVE  decodeTyped(token, type) = "ok" <=>
                          decode(token) = "ok" /\ DecodedAs(token.payload) = type
    BY DEF DispatchIsFaithful
  <2> DEFINE p == token.payload
  <2>1. type # "generic" /\ type \notin {"", Absent, Untyped} \cup UnsupportedClaims
    BY DEF TypedClaims, Absent, Untyped, UnsupportedClaims
  <2>2. ASSUME decodeTyped(token, type) = "ok"
        PROVE  decode(token) = "ok" /\ DecodedAs(p) = type
    <3>1. /\ token.whole /\ p.form \notin {"json", "typestr"} /\ MigratedType(p) = type
          /\ EnvelopeVersion(p) \in {1, 2}
      BY <2>2, TypedAccepts, EnvelopeAccepts DEF JWT_VERSION
    <3>2. DispatchType(p) = type
      <4>1. CASE EnvelopeVersion(p) = 1
        <5>1. p.top = type
          BY <3>1, <4>1 DEF MigratedType
        <5>2. v1Layout(p)
          BY <2>1, <5>1 DEF v1Layout
        <5> QED
          BY <5>1, <5>2 DEF DispatchType
      <4>2. CASE EnvelopeVersion(p) = 2
        <5>1. p.nats = type
          BY <3>1, <4>2 DEF MigratedType
        <5>2. ~v1Layout(p)
          BY <4>2 DEF EnvelopeVersion
        <5>3. p.nats \notin {Absent, Untyped}
          BY <2>1, <5>1
        <5> QED
          BY <5>1, <5>2, <5>3 DEF DispatchType
      <4> QED
        BY <3>1, <4>1, <4>2
    <3>3. DecodedAs(p) = type
      BY <3>2 DEF DecodedAs
    <3> QED
      BY <2>1, <2>2, <3>1, <3>2, <3>3, DecodeAccepts
  <2>3. ASSUME decode(token) = "ok", DecodedAs(p) = type
        PROVE  decodeTyped(token, type) = "ok"
    BY <2>1, <2>3, DecodeAccepts
  <2> QED
    BY <2>2, <2>3
<1> QED
  BY <1>1, TypeCorrect, PTL

(* A typed token that decodes also verifies: for those the standalone      *)
(* verify() of validate(jwt) is as redundant as its documentation says.    *)
THEOREM TypedTokensVerify == Spec => []TypedVerify
<1>1. TypeOK => TypedVerify
  BY DecodeAccepts, TypedAccepts DEF TypedVerify, verify
<1> QED
  BY <1>1, TypeCorrect, PTL

-----------------------------------------------------------------------------
(* Where the two promises that a run refutes end.                          *)

(* The exception of another library that decode() lets out is the one of   *)
(* the migration: only a token that names a claim type inside nats, says   *)
(* version 1 and has no top-level type causes it, and only when the issuer *)
(* it names has signed it; nobody else can (jwt_utils.cpp:460).            *)
THEOREM OnlyOneOtherError ==
    Spec => [](~OnlyJwtErrors =>
                   /\ token.payload.top = Absent /\ token.payload.nats \in TypedClaims
                   /\ token.payload.ver = 1
                   /\ token.sig \in signed
                   /\ token.sig.by = token.payload.iss /\ token.sig.over = PayloadOnly(token))
<1>1. TypeOK /\ SignatureIsMade =>
          (~OnlyJwtErrors =>
               /\ token.payload.top = Absent /\ token.payload.nats \in TypedClaims
               /\ token.payload.ver = 1
               /\ token.sig \in signed
               /\ token.sig.by = token.payload.iss /\ token.sig.over = PayloadOnly(token))
  <2> SUFFICES ASSUME TypeOK, SignatureIsMade, ~OnlyJwtErrors
               PROVE  /\ token.payload.top = Absent /\ token.payload.nats \in TypedClaims
                      /\ token.payload.ver = 1
                      /\ token.sig \in signed
                      /\ token.sig.by = token.payload.iss /\ token.sig.over = PayloadOnly(token)
    OBVIOUS
  <2> DEFINE p == token.payload
  <2>1. DecodedAs(p) # "generic" /\ decodeEnvelope(token) \notin JwtErrors \cup {"ok"}
    BY DecodeThrows DEF OnlyJwtErrors
  <2>2. /\ Verifies(p.iss, EnvelopeInput(token), token.sig)
        /\ EnvelopeVersion(p) = 1 /\ p.top = Absent
    BY <2>1, EnvelopeThrows
  <2>3. ~v1Layout(p)
    BY <2>2 DEF v1Layout
  <2>4. p.nats # Absent /\ p.ver = 1
    BY <2>2, <2>3 DEF EnvelopeVersion
  <2>5. DispatchType(p) \in TypedClaims
    BY <2>1 DEF DecodedAs
  <2>6. p.nats \in TypedClaims
    BY <2>3, <2>5 DEF DispatchType, TypedClaims
  <2>7. EnvelopeInput(token) = PayloadOnly(token)
    BY <2>2 DEF EnvelopeInput
  <2>8. token.sig \in signed /\ token.sig.by = p.iss /\ token.sig.over = PayloadOnly(token)
    BY <2>2, <2>7, NamesAssumption DEF Verifies, SignatureIsMade, Keys
  <2> QED
    BY <2>2, <2>4, <2>6, <2>8
<1> QED
  BY <1>1, ReadingInvariant, PTL

(* verify() and decode() differ on generic tokens alone, and there exactly *)
(* when the version in the payload is none that verify() knows, or is not  *)
(* the one the header's alg stands for, or the migration fails             *)
(* (generic_claims.cpp:136-141, jwt_utils.cpp:426-454).                    *)
THEOREM VerifyDiffersOnVersions ==
    Spec => [](decode(token) = "ok" =>
                   (verify(token) <=>
                        \/ DecodedAs(token.payload) # "generic"
                        \/ /\ EnvelopeVersion(token.payload) =
                                  IF token.head = "ed25519" THEN 1 ELSE JWT_VERSION
                           /\ token.head = "ed25519" => token.payload.top # Absent))
<1>1. TypeOK =>
          (decode(token) = "ok" =>
               (verify(token) <=>
                    \/ DecodedAs(token.payload) # "generic"
                    \/ /\ EnvelopeVersion(token.payload) =
                              IF token.head = "ed25519" THEN 1 ELSE JWT_VERSION
                       /\ token.head = "ed25519" => token.payload.top # Absent))
  <2> SUFFICES ASSUME TypeOK, decode(token) = "ok"
               PROVE  verify(token) <=>
                          \/ DecodedAs(token.payload) # "generic"
                          \/ /\ EnvelopeVersion(token.payload) =
                                    IF token.head = "ed25519" THEN 1 ELSE JWT_VERSION
                             /\ token.head = "ed25519" => token.payload.top # Absent
    OBVIOUS
  <2> DEFINE p == token.payload
             v == EnvelopeVersion(p)
  <2>1. CASE DecodedAs(p) # "generic"
    BY <2>1, DecodeAccepts, TypedAccepts DEF verify
  <2>2. CASE DecodedAs(p) = "generic"
    <3>1. /\ token.whole /\ token.head # "malformed" /\ token.head # "other"
          /\ p.form \notin {"json", "typestr", "names", "fields"}
          /\ Verifies(p.iss, GenericInput(token), token.sig)
      BY <2>2, DecodeAccepts, GenericAccepts
    <3>2. verify(token) <=> /\ v \in {1, 2}
                            /\ Verifies(p.iss, EnvelopeInput(token), token.sig)
                            /\ ~(v = 1 /\ p.top = Absent)
      BY <3>1, EnvelopeAccepts DEF verify, JWT_VERSION
    <3>3. Verifies(p.iss, EnvelopeInput(token), token.sig)
              <=> EnvelopeInput(token) = GenericInput(token)
      BY <3>1 DEF Verifies
    <3>4. PayloadOnly(token) # HeaderAndPayload(token)
      <4>1. PayloadOnly(token).head = "none" /\ HeaderAndPayload(token).head = token.head
        BY DEF PayloadOnly, HeaderAndPayload
      <4>2. token.head # "none"
        BY DEF TypeOK, WireTokens, Heads
      <4> QED
        BY <4>1, <4>2
    <3>5. EnvelopeInput(token) = GenericInput(token) <=> (v <= 1 <=> token.head = "ed25519")
      BY <3>4 DEF EnvelopeInput, GenericInput
    <3> HIDE DEF v
    <3> QED
      BY <2>2, <3>2, <3>3, <3>5 DEF JWT_VERSION, v
  <2> QED
    BY <2>1, <2>2
<1> QED
  BY <1>1, TypeCorrect, PTL

=============================================================================
