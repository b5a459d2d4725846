----------------------------- MODULE TokenProofs ----------------------------
(***************************************************************************)
(* What the lists of checks in Tokens and the modules above it answer: the *)
(* error of the first check that fails, or "ok" when none does; and from   *)
(* that, what the decoders have established when they return.              *)
(***************************************************************************)
EXTENDS Tokens, TLAPS

(* Short lists, spelled out.                                               *)
LEMMA TwoChecks ==
    ASSUME NEW P1 \in BOOLEAN, NEW P2 \in BOOLEAN,
           NEW e1, NEW e2
    PROVE  FirstFailure(<<<<P1, e1>>, <<P2, e2>>>>) =
           IF P1 THEN e1 ELSE IF P2 THEN e2 ELSE "ok"
BY DEF FirstFailure

LEMMA ThreeChecks ==
    ASSUME NEW P1 \in BOOLEAN, NEW P2 \in BOOLEAN, NEW P3 \in BOOLEAN,
           NEW e1, NEW e2, NEW e3
    PROVE  FirstFailure(<<<<P1, e1>>, <<P2, e2>>, <<P3, e3>>>>) =
           IF P1 THEN e1 ELSE IF P2 THEN e2 ELSE IF P3 THEN e3 ELSE "ok"
BY DEF FirstFailure

LEMMA FourChecks ==
    ASSUME NEW P1 \in BOOLEAN, NEW P2 \in BOOLEAN, NEW P3 \in BOOLEAN,
           NEW P4 \in BOOLEAN,
           NEW e1, NEW e2, NEW e3, NEW e4
    PROVE  FirstFailure(<<<<P1, e1>>, <<P2, e2>>, <<P3, e3>>, <<P4, e4>>>>) =
           IF P1 THEN e1 ELSE IF P2 THEN e2 ELSE IF P3 THEN e3 ELSE
           IF P4 THEN e4 ELSE "ok"
BY DEF FirstFailure

LEMMA SixChecks ==
    ASSUME NEW P1 \in BOOLEAN, NEW P2 \in BOOLEAN, NEW P3 \in BOOLEAN,
           NEW P4 \in BOOLEAN, NEW P5 \in BOOLEAN, NEW P6 \in BOOLEAN,
           NEW e1, NEW e2, NEW e3, NEW e4, NEW e5, NEW e6
    PROVE  FirstFailure(<<<<P1, e1>>, <<P2, e2>>, <<P3, e3>>, <<P4, e4>>,
                         <<P5, e5>>, <<P6, e6>>>>) =
           IF P1 THEN e1 ELSE IF P2 THEN e2 ELSE IF P3 THEN e3 ELSE
           IF P4 THEN e4 ELSE IF P5 THEN e5 ELSE IF P6 THEN e6 ELSE "ok"
BY SMTT(30) DEF FirstFailure

(* The first check that fails decides, whatever stands behind it.          *)
LEMMA FirstDecides ==
    ASSUME NEW checks, NEW n \in Nat, DOMAIN checks = 1..n,
           NEW i \in 1..n, checks[i][1], \A j \in 1..(i-1) : ~checks[j][1]
    PROVE  FirstFailure(checks) = checks[i][2]
<1> DEFINE failing == {j \in DOMAIN checks : checks[j][1]}
<1>1. i \in failing /\ \A j \in failing : i <= j
  OBVIOUS
<1>2. \A k \in failing : (\A j \in failing : k <= j) => k = i
  BY <1>1
<1>3. (CHOOSE k \in failing : \A j \in failing : k <= j) = i
  BY <1>1, <1>2
<1>4. failing # {}
  BY <1>1
<1> HIDE DEF failing
<1> QED
  BY <1>3, <1>4 DEF FirstFailure, failing

(* Of at most seven checks, one fails first.                               *)
LEMMA FirstFailing ==
    ASSUME NEW checks, NEW n \in 0..7, \E i \in 1..n : checks[i][1]
    PROVE  \E i \in 1..n : checks[i][1] /\ \A j \in 1..(i-1) : ~checks[j][1]
<1> DEFINE C(j) == checks[j][1]
<1>1. \E i \in 1..n : C(i)
  OBVIOUS
<1> HIDE DEF C
<1>2. \E i \in 1..n : C(i) /\ \A j \in 1..(i-1) : ~C(j)
  <2>1. \A i \in 1..n : i \in {1,2,3,4,5,6,7}
    OBVIOUS
  <2> SUFFICES ASSUME \A i \in 1..n : C(i) => \E j \in 1..(i-1) : C(j)
               PROVE FALSE
    OBVIOUS
  <2>2. 1 \in 1..n => ~C(1)
    OBVIOUS
  <2>3. 2 \in 1..n => ~C(2)
    BY <2>2
  <2>4. 3 \in 1..n => ~C(3)
    BY <2>2, <2>3
  <2>5. 4 \in 1..n => ~C(4)
    BY <2>2, <2>3, <2>4
  <2>6. 5 \in 1..n => ~C(5)
    BY <2>2, <2>3, <2>4, <2>5
  <2>7. 6 \in 1..n => ~C(6)
    BY <2>2, <2>3, <2>4, <2>5, <2>6
  <2>8. 7 \in 1..n => ~C(7)
    BY <2>2, <2>3, <2>4, <2>5, <2>6, <2>7
  <2> QED
    BY <1>1, <2>1, <2>2, <2>3, <2>4, <2>5, <2>6, <2>7, <2>8
<1> QED
  BY <1>2 DEF C

(* What such a list throws is the error of a check that fails, and none    *)
(* before it does.                                                         *)
LEMMA FailsAtFirst ==
    ASSUME NEW checks, NEW n \in 0..7, DOMAIN checks = 1..n, FirstFailure(checks) # "ok"
    PROVE  \E i \in 1..n : /\ checks[i][1] /\ FirstFailure(checks) = checks[i][2]
                           /\ \A j \in 1..(i-1) : ~checks[j][1]
<1>1. \E i \in 1..n : checks[i][1]
  BY DEF FirstFailure
<1>2. PICK i \in 1..n : checks[i][1] /\ \A j \in 1..(i-1) : ~checks[j][1]
  BY <1>1, FirstFailing
<1>3. FirstFailure(checks) = checks[i][2]
  BY <1>2, FirstDecides
<1> QED
  BY <1>2, <1>3

(* A list of at most seven checks whose errors are errors passes exactly   *)
(* when no check fails.                                                    *)
LEMMA PassesOrFails ==
    ASSUME NEW checks, NEW n \in 0..7, DOMAIN checks = 1..n,
           \A i \in 1..n : checks[i][2] # "ok"
    PROVE  FirstFailure(checks) = "ok" <=> \A i \in 1..n : ~checks[i][1]
<1>1. CASE \A i \in 1..n : ~checks[i][1]
  BY <1>1 DEF FirstFailure
<1>2. CASE \E i \in 1..n : checks[i][1]
  <2>1. PICK i \in 1..n : checks[i][1] /\ \A j \in 1..(i-1) : ~checks[j][1]
    BY <1>2, FirstFailing
  <2>2. FirstFailure(checks) = checks[i][2]
    BY <2>1, FirstDecides
  <2> QED
    BY <1>2, <2>2
<1> QED
  BY <1>1, <1>2

-----------------------------------------------------------------------------
(* What each reader of Tokens has established when it answers "ok".        *)

LEMMA EnvelopeAccepts ==
    ASSUME NEW t
    PROVE  decodeEnvelope(t) = "ok" <=>
               /\ t.whole /\ t.head # "malformed" /\ t.head # "other"
               /\ t.payload.form \notin {"json", "typestr", "names"}
               /\ EnvelopeVersion(t.payload) \in {1, JWT_VERSION}
               /\ Verifies(t.payload.iss, EnvelopeInput(t), t.sig)
               /\ ~(EnvelopeVersion(t.payload) = 1 /\ t.payload.top = Absent)
<1> DEFINE p       == t.payload
           broken  == ~t.whole \/ t.head = "malformed"
           header  == t.head = "other"
           json    == p.form \in {"json", "typestr"}
           version == EnvelopeVersion(p) \notin {1, JWT_VERSION}
           names   == p.form = "names"
           forged  == ~Verifies(p.iss, EnvelopeInput(t), t.sig)
           untyped == EnvelopeVersion(p) = 1 /\ p.top = Absent
           checks  == <<<<broken, "MalformedTokenError">>, <<header, "InvalidClaimsError">>,
                        <<json, "MalformedTokenError">>, <<version, "InvalidClaimsError">>,
                        <<names, "MalformedTokenError">>, <<forged, "SignatureError">>,
                        <<untyped, "json::type_error">>>>
<1>1. decodeEnvelope(t) = FirstFailure(checks)
  BY DEF decodeEnvelope
<1>2. decodeEnvelope(t) = "ok" <=> \A i \in 1..7 : ~checks[i][1]
  <2> HIDE DEF broken, header, json, version, names, forged, untyped
  <2>1. DOMAIN checks = 1..7 /\ \A i \in 1..7 : checks[i][2] # "ok"
    OBVIOUS
  <2> QED
    BY <1>1, <2>1, PassesOrFails
<1>3. (\A i \in 1..7 : ~checks[i][1]) <=>
          ~broken /\ ~header /\ ~json /\ ~version /\ ~names /\ ~forged /\ ~untyped
  <2> HIDE DEF broken, header, json, version, names, forged, untyped
  <2> QED
    OBVIOUS
<1> QED
  BY <1>2, <1>3

LEMMA TypedAccepts ==
    ASSUME NEW t, NEW type
    PROVE  decodeTyped(t, type) = "ok" <=>
               /\ decodeEnvelope(t) = "ok"
               /\ MigratedType(t.payload) = type
               /\ t.payload.form \notin {"fields", "body"}
               /\ checkStructure(type, t.payload.sub, t.payload.iss)
<1> DEFINE p         == t.payload
           envelope  == decodeEnvelope(t) # "ok"
           other     == MigratedType(p) # type
           fields    == p.form \in {"fields", "body"}
           structure == ~checkStructure(type, p.sub, p.iss)
<1>1. decodeTyped(t, type) = FirstFailure(<<<<envelope, decodeEnvelope(t)>>,
          <<other, "InvalidClaimsError">>, <<fields, "MalformedTokenError">>,
          <<structure, "InvalidClaimsError">>>>)
  BY DEF decodeTyped
<1>2. /\ envelope \in BOOLEAN /\ other \in BOOLEAN /\ fields \in BOOLEAN
      /\ structure \in BOOLEAN
  OBVIOUS
<1>3. envelope => decodeEnvelope(t) # "ok"
  OBVIOUS
<1>4. decodeTyped(t, type) = "ok" <=> ~envelope /\ ~other /\ ~fields /\ ~structure
  <2> HIDE DEF envelope, other, fields, structure
  <2> QED
    BY <1>1, <1>2, <1>3, FourChecks
<1> QED
  BY <1>4

LEMMA GenericAccepts ==
    ASSUME NEW t
    PROVE  decodeGeneric(t) = "ok" <=>
               /\ t.whole /\ t.head # "malformed" /\ t.head # "other"
               /\ t.payload.form \notin {"json", "names", "fields"}
               /\ Verifies(t.payload.iss, GenericInput(t), t.sig)
               /\ checkStructure("generic", t.payload.sub, t.payload.iss)
<1> DEFINE p         == t.payload
           broken    == ~t.whole \/ t.head = "malformed"
           header    == t.head = "other"
           json      == p.form \in {"json", "names"}
           forged    == ~Verifies(p.iss, GenericInput(t), t.sig)
           fields    == p.form = "fields"
           structure == ~checkStructure("generic", p.sub, p.iss)
           checks    == <<<<broken, "MalformedTokenError">>, <<header, "InvalidClaimsError">>,
                          <<json, "MalformedTokenError">>, <<forged, "SignatureError">>,
                          <<fields, "MalformedTokenError">>,
                          <<structure, "InvalidClaimsError">>>>
<1>1. decodeGeneric(t) = FirstFailure(checks)
  BY DEF decodeGeneric
<1>2. decodeGeneric(t) = "ok" <=> \A i \in 1..6 : ~checks[i][1]
  <2> HIDE DEF broken, header, json, forged, fields, structure
  <2>1. DOMAIN checks = 1..6 /\ \A i \in 1..6 : checks[i][2] # "ok"
    OBVIOUS
  <2> QED
    BY <1>1, <2>1, PassesOrFails
<1>3. (\A i \in 1..6 : ~checks[i][1]) <=>
          ~broken /\ ~header /\ ~json /\ ~forged /\ ~fields /\ ~structure
  <2> HIDE DEF broken, header, json, forged, fields, structure
  <2> QED
    OBVIOUS
<1> QED
  BY <1>2, <1>3

(* decode() is the decoder of the type it reads, unless that is refused.   *)
LEMMA DecodeAccepts ==
    ASSUME NEW t
    PROVE  decode(t) = "ok" <=>
               /\ t.whole /\ t.payload.form \notin {"json", "typestr"}
               /\ DispatchType(t.payload) \notin UnsupportedClaims
               /\ (IF DecodedAs(t.payload) = "generic"
                   THEN decodeGeneric(t) ELSE decodeTyped(t, DecodedAs(t.payload))) = "ok"
<1> DEFINE p           == t.payload
           broken      == ~t.whole \/ p.form \in {"json", "typestr"}
           unsupported == DispatchType(p) \in UnsupportedClaims
           answer      == IF DecodedAs(p) = "generic"
                          THEN decodeGeneric(t) ELSE decodeTyped(t, DecodedAs(p))
           checks      == <<<<broken, "MalformedTokenError">>,
                            <<unsupported, "InvalidClaimsError">>, <<TRUE, answer>>>>
<1>1. decode(t) = FirstFailure(checks)
  BY DEF decode
<1>2. /\ broken => decode(t) = "MalformedTokenError"
      /\ ~broken /\ unsupported => decode(t) = "InvalidClaimsError"
      /\ ~broken /\ ~unsupported => decode(t) = answer
  <2> HIDE DEF broken, unsupported, answer
  <2>1. /\ DOMAIN checks = 1..3
        /\ checks[1][1] <=> broken
        /\ checks[2][1] <=> unsupported
        /\ checks[3][1] <=> TRUE
        /\ checks[1][2] = "MalformedTokenError"
        /\ checks[2][2] = "InvalidClaimsError"
        /\ checks[3][2] = answer
    OBVIOUS
  <2> HIDE DEF checks
  <2>2. ASSUME broken PROVE decode(t) = "MalformedTokenError"
    <3>1. 1 \in 1..3 /\ checks[1][1] /\ \A j \in 1..(1-1) : ~checks[j][1]
      BY <2>1, <2>2
    <3> QED
      BY <1>1, <2>1, <3>1, FirstDecides
  <2>3. ASSUME ~broken, unsupported PROVE decode(t) = "InvalidClaimsError"
    <3>1. 2 \in 1..3 /\ checks[2][1] /\ \A j \in 1..(2-1) : ~checks[j][1]
      BY <2>1, <2>3
    <3> QED
      BY <1>1, <2>1, <3>1, FirstDecides
  <2>4. ASSUME ~broken, ~unsupported PROVE decode(t) = answer
    <3>1. 3 \in 1..3 /\ checks[3][1] /\ \A j \in 1..(3-1) : ~checks[j][1]
      BY <2>1, <2>4
    <3> QED
      BY <1>1, <2>1, <3>1, FirstDecides
  <2> QED
    BY <2>2, <2>3, <2>4
<1> QED
  BY <1>2

-----------------------------------------------------------------------------
(* What the readers throw.  Everything derives from jwt::Error but the one *)
(* exception of the migration, which only follows when the rest has passed.*)

LEMMA EnvelopeThrows ==
    ASSUME NEW t, decodeEnvelope(t) \notin JwtErrors \cup {"ok"}
    PROVE  /\ t.whole /\ t.head # "malformed" /\ t.head # "other"
           /\ Verifies(t.payload.iss, EnvelopeInput(t), t.sig)
           /\ EnvelopeVersion(t.payload) = 1 /\ t.payload.top = Absent
<1> DEFINE p       == t.payload
           broken  == ~t.whole \/ t.head = "malformed"
           header  == t.head = "other"
           json    == p.form \in {"json", "typestr"}
           version == EnvelopeVersion(p) \notin {1, JWT_VERSION}
           names   == p.form = "names"
           forged  == ~Verifies(p.iss, EnvelopeInput(t), t.sig)
           untyped == EnvelopeVersion(p) = 1 /\ p.top = Absent
           checks  == <<<<broken, "MalformedTokenError">>, <<header, "InvalidClaimsError">>,
                        <<json, "MalformedTokenError">>, <<version, "InvalidClaimsError">>,
                        <<names, "MalformedTokenError">>, <<forged, "SignatureError">>,
                        <<untyped, "json::type_error">>>>
<1>1. decodeEnvelope(t) = FirstFailure(checks)
  BY DEF decodeEnvelope
<1>2. ~broken /\ ~header /\ ~forged /\ untyped
  <2> HIDE DEF broken, header, json, version, names, forged, untyped
  <2>1. PICK i \in 1..7 : /\ checks[i][1] /\ decodeEnvelope(t) = checks[i][2]
                          /\ \A j \in 1..(i-1) : ~checks[j][1]
    BY <1>1, FailsAtFirst
  <2>2. \A j \in 1..6 : checks[j][2] \in JwtErrors
    BY DEF JwtErrors
  <2>3. i = 7
    BY <2>1, <2>2
  <2>4. (checks[1][1] <=> broken) /\ (checks[2][1] <=> header) /\ (checks[6][1] <=> forged)
        /\ (checks[7][1] <=> untyped)
    OBVIOUS
  <2> QED
    BY <2>1, <2>3, <2>4
<1> QED
  BY <1>2

LEMMA TypedThrows ==
    ASSUME NEW t, NEW type, decodeTyped(t, type) \notin JwtErrors \cup {"ok"}
    PROVE  decodeEnvelope(t) \notin JwtErrors \cup {"ok"}
<1> DEFINE p         == t.payload
           envelope  == decodeEnvelope(t) # "ok"
           error     == decodeEnvelope(t)
           other     == MigratedType(p) # type
           fields    == p.form \in {"fields", "body"}
           structure == ~checkStructure(type, p.sub, p.iss)
<1>1. decodeTyped(t, type) = FirstFailure(<<<<envelope, error>>,
          <<other, "InvalidClaimsError">>, <<fields, "MalformedTokenError">>,
          <<structure, "InvalidClaimsError">>>>)
  BY DEF decodeTyped
<1>2. /\ envelope \in BOOLEAN /\ other \in BOOLEAN /\ fields \in BOOLEAN
      /\ structure \in BOOLEAN
  OBVIOUS
<1>3. envelope /\ decodeTyped(t, type) = error
  <2> HIDE DEF envelope, error, other, fields, structure
  <2> QED
    BY <1>1, <1>2, FourChecks DEF JwtErrors
<1> QED
  BY <1>3

LEMMA GenericThrows == ASSUME NEW t PROVE decodeGeneric(t) \in JwtErrors \cup {"ok"}
<1> DEFINE p         == t.payload
           broken    == ~t.whole \/ t.head = "malformed"
           header    == t.head = "other"
           json      == p.form \in {"json", "names"}
           forged    == ~Verifies(p.iss, GenericInput(t), t.sig)
           fields    == p.form = "fields"
           structure == ~checkStructure("generic", p.sub, p.iss)
           checks    == <<<<broken, "MalformedTokenError">>, <<header, "InvalidClaimsError">>,
                          <<json, "MalformedTokenError">>, <<forged, "SignatureError">>,
                          <<fields, "MalformedTokenError">>,
                          <<structure, "InvalidClaimsError">>>>
<1>1. decodeGeneric(t) = FirstFailure(checks)
  BY DEF decodeGeneric
<1> HIDE DEF broken, header, json, forged, fields, structure
<1>2. DOMAIN checks = 1..6 /\ \A i \in 1..6 : checks[i][2] \in JwtErrors
  BY DEF JwtErrors
<1> HIDE DEF checks
<1> QED
  BY <1>1, <1>2, FailsAtFirst

LEMMA DecodeThrows ==
    ASSUME NEW t, decode(t) \notin JwtErrors \cup {"ok"}
    PROVE  /\ DecodedAs(t.payload) # "generic"
           /\ decodeEnvelope(t) \notin JwtErrors \cup {"ok"}
<1> DEFINE p           == t.payload
           broken      == ~t.whole \/ p.form \in {"json", "typestr"}
           unsupported == DispatchType(p) \in UnsupportedClaims
           answer      == IF DecodedAs(p) = "generic"
                          THEN decodeGeneric(t) ELSE decodeTyped(t, DecodedAs(p))
           always      == TRUE
<1>1. decode(t) = FirstFailure(<<<<broken, "MalformedTokenError">>,
                                 <<unsupported, "InvalidClaimsError">>, <<always, answer>>>>)
  BY DEF decode
<1>2. broken \in BOOLEAN /\ unsupported \in BOOLEAN /\ always \in BOOLEAN
  OBVIOUS
<1>3. decode(t) = answer
  <2> HIDE DEF broken, unsupported, answer, always
  <2> QED
    BY <1>1, <1>2, ThreeChecks DEF JwtErrors
<1> QED
  BY <1>3, GenericThrows, TypedThrows

-----------------------------------------------------------------------------
(* Writing and reading: a token as encode lays it out, of a type, a        *)
(* subject and an issuer that go together, is read as that type.           *)
LEMMA WrittenIsRead ==
    ASSUME NEW t, NEW type \in TypedClaims,
           t.whole, t.head = "ed25519-nkey", t.payload.form = "ok",
           t.payload.top = Absent, t.payload.nats = type, t.payload.ver = JWT_VERSION,
           checkStructure(type, t.payload.sub, t.payload.iss),
           Verifies(t.payload.iss, HeaderAndPayload(t), t.sig)
    PROVE  decode(t) = "ok" /\ verify(t) /\ DecodedAs(t.payload) = type
<1>1. type \notin {Absent, Untyped} \cup UnsupportedClaims /\ type # "generic"
  BY DEF TypedClaims, Absent, Untyped, UnsupportedClaims
<1>2. ~v1Layout(t.payload) /\ EnvelopeVersion(t.payload) = 2
  BY <1>1 DEF v1Layout, EnvelopeVersion, JWT_VERSION
<1>3. EnvelopeInput(t) = HeaderAndPayload(t)
  BY <1>2 DEF EnvelopeInput
<1>4. decodeEnvelope(t) = "ok"
  <2>1. EnvelopeVersion(t.payload) \in {1, JWT_VERSION} /\ EnvelopeVersion(t.payload) # 1
    BY <1>2 DEF JWT_VERSION
  <2> QED
    BY <1>3, <2>1, EnvelopeAccepts
<1>5. DispatchType(t.payload) = type /\ DecodedAs(t.payload) = type
  BY <1>1, <1>2 DEF DispatchType, DecodedAs
<1>6. MigratedType(t.payload) = type
  BY <1>2 DEF MigratedType
<1>7. decodeTyped(t, type) = "ok"
  BY <1>4, <1>6, TypedAccepts
<1> QED
  BY <1>1, <1>4, <1>5, <1>7, DecodeAccepts DEF verify

=============================================================================
