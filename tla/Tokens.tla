------------------------------- MODULE Tokens -------------------------------
(***************************************************************************)
(* NATS tokens as the library reads them once base64url and JSON are       *)
(* peeled off, and the pure functions that judge one: the issuer and       *)
(* subject rules, the authenticated envelope, the typed decoders, the      *)
(* generic decoder, decode() and verify().                                 *)
(*                                                                         *)
(* A name is any string that stands as `sub' or `iss'.  KindOf gives the   *)
(* nkeys role of a name, "-" when it is not a valid public key: that is    *)
(* what nkeys::IsValidPublic*Key answers.  Signatures are ideal: s is      *)
(* [by, over], the key that made it and the bytes it covers.               *)
(***************************************************************************)
EXTENDS Naturals, Sequences

CONSTANTS Names,   \* strings used as subject or issuer
          KindOf,  \* the nkeys role of each of them
          Empty    \* the empty string, one of them

KeyKinds == {"O", "A", "U", "N", "X"}

ASSUME NamesAssumption == /\ KindOf \in [Names -> KeyKinds \cup {"-"}]
                          /\ Empty \in Names
                          /\ KindOf[Empty] = "-"

Keys == {n \in Names : KindOf[n] # "-"}

(* Mutant of Verifies: whatever was signed.                                *)
VerifiesSigner(k, data, s) == k \in Keys /\ s.by = k

(* nkeys::FromPublicKey(k)->verify(data, s): a name that is not a key, or  *)
(* a signature by another key or over other bytes, does not verify.        *)
Verifies(k, data, s) == k \in Keys /\ s.by = k /\ s.over = data

-----------------------------------------------------------------------------
(* Claim types and who may issue and hold them.                            *)

TypedClaims == {"operator", "account", "user", "activation",
                "authorization_request", "authorization_response"}

UnsupportedClaims == {"cluster", "server"}

(* Strings in a type field: the known types, a type this library has no    *)
(* struct for, and the empty string.                                       *)
TypeFields == TypedClaims \cup UnsupportedClaims \cup {"custom", ""}

IssuerKinds == [operator               |-> {"O"},
                account                |-> {"O", "A"},
                user                   |-> {"A"},
                activation             |-> {"A", "O"},
                authorization_request  |-> {"N"},
                authorization_response |-> {"A"},
                generic                |-> KeyKinds]

(* A type without a subject rule takes any non-empty subject.              *)
SubjectKinds == [operator               |-> {"O"},
                 account                |-> {"A"},
                 user                   |-> {"U"},
                 activation             |-> {"A"},
                 authorization_request  |-> KeyKinds \cup {"-"},
                 authorization_response |-> KeyKinds \cup {"-"},
                 generic                |-> KeyKinds \cup {"-"}]

checkIssuerKind(type, iss) == KindOf[iss] \in IssuerKinds[type]

checkSubjectKind(type, sub) == KindOf[sub] \in SubjectKinds[type]

(* checkStructure(): run by encode and by the typed decoder of each type.  *)
(* The generic one asks for a subject only.                                *)
checkStructure(type, sub, iss) ==
    /\ sub # Empty
    /\ checkSubjectKind(type, sub)
    /\ type # "generic" => checkIssuerKind(type, iss)

-----------------------------------------------------------------------------
(* A wire token is [whole, head, payload, sig].                            *)
(*   whole    it fits MAX_JWT_SIZE and has three non-empty chunks          *)
(*   head     the header's alg, lower-cased; "other" for any other alg or  *)
(*            typ, "malformed" when it is not an object of strings         *)
(*   payload  [form, top, nats, ver, iss, sub]                             *)
(*   sig      [by, over]                                                   *)
(* In a payload, form is the first thing wrong with its JSON:              *)
(*   json     not an object            typestr  a type that is no string   *)
(*   names    no string iss and sub    fields   a claim of the wrong type  *)
(*   body     a claim inside nats that is of the wrong type or out of      *)
(*            range, for the decoder of its type: no other one reads it    *)
(* top is the top-level type, Absent when there is none; nats the type     *)
(* inside the nats object, Untyped when that has no type, Absent when      *)
(* there is no such object; ver its nats.version, 0 when absent.           *)

Heads == {"ed25519", "ed25519-nkey", "other", "malformed"}
PayloadForms == {"ok", "json", "typestr", "names", "fields", "body"}
Absent == "absent"
Untyped == "untyped"
Versions == 0..3
JWT_VERSION == 2

WirePayloads == [form : PayloadForms, top : TypeFields \cup {Absent},
                 nats : TypeFields \cup {Absent, Untyped}, ver : Versions, iss : Names, sub : Names]

(* The bytes a signature may cover: the payload chunk, or header.payload.  *)
PayloadOnly(t) == [head |-> "none", payload |-> t.payload]
HeaderAndPayload(t) == [head |-> t.head, payload |-> t.payload]

SignedBytes == [head : Heads \cup {"none"}, payload : WirePayloads]
WireTokens == [whole : BOOLEAN, head : Heads, payload : WirePayloads,
               sig : [by : Names, over : SignedBytes]]

(* Everything the decoders throw that derives from jwt::Error.             *)
JwtErrors == {"MalformedTokenError", "InvalidClaimsError", "SignatureError"}

(* What a sequence of <<condition, error>> checks throws: the error of the *)
(* first condition that holds, "ok" when none does.                        *)
FirstFailure(checks) ==
    LET failing == {i \in DOMAIN checks : checks[i][1]}
    IN  IF failing = {} THEN "ok"
        ELSE checks[CHOOSE i \in failing : \A j \in failing : i <= j][2]

v1Layout(p) == p.top \notin {"", Absent}

EnvelopeVersion(p) == IF v1Layout(p) THEN 1 ELSE IF p.nats = Absent THEN 0 ELSE p.ver

(* Mutant of EnvelopeInput: the rule follows the header's alg.             *)
EnvelopeInputByAlg(t) == IF t.head = "ed25519" THEN PayloadOnly(t) ELSE HeaderAndPayload(t)

(* Version 1 signed the payload alone; the rule follows the payload.       *)
EnvelopeInput(t) == IF EnvelopeVersion(t.payload) <= 1 THEN PayloadOnly(t)
                                                       ELSE HeaderAndPayload(t)

(* decodeEnvelope, its checks in the order of the code.  The last one is   *)
(* the migration of a version 1 payload, which reads the top-level type as *)
(* a string whether or not the payload has one.                            *)
decodeEnvelope(t) ==
    LET p == t.payload
    IN  FirstFailure(<<
            <<~t.whole \/ t.head = "malformed",               "MalformedTokenError">>,
            <<t.head = "other",                               "InvalidClaimsError">>,
            <<p.form \in {"json", "typestr"},                 "MalformedTokenError">>,
            <<EnvelopeVersion(p) \notin {1, JWT_VERSION},     "InvalidClaimsError">>,
            <<p.form = "names",                               "MalformedTokenError">>,
            <<~Verifies(p.iss, EnvelopeInput(t), t.sig),      "SignatureError">>,
            <<EnvelopeVersion(p) = 1 /\ p.top = Absent,       "json::type_error">>
        >>)

(* nats.type after the migration: version 1 takes the top-level type.      *)
MigratedType(p) == IF EnvelopeVersion(p) = 1 THEN p.top ELSE p.nats

(* decodeOperatorClaims .. decodeAuthorizationResponseClaims.              *)
decodeTyped(t, type) ==
    LET p == t.payload
    IN  FirstFailure(<<
            <<decodeEnvelope(t) # "ok",              decodeEnvelope(t)>>,
            <<MigratedType(p) # type,                "InvalidClaimsError">>,
            <<p.form \in {"fields", "body"},          "MalformedTokenError">>,
            <<~checkStructure(type, p.sub, p.iss),   "InvalidClaimsError">>
        >>)

(* Mutant of GenericInput: the rule of the typed envelope.                 *)
GenericInputByVersion(t) == EnvelopeInput(t)

(* decodeGeneric has no version and no issuer rule, and its signature rule *)
(* follows the header's alg.                                               *)
GenericInput(t) == IF t.head = "ed25519" THEN PayloadOnly(t) ELSE HeaderAndPayload(t)

decodeGeneric(t) ==
    LET p == t.payload
    IN  FirstFailure(<<
            <<~t.whole \/ t.head = "malformed",              "MalformedTokenError">>,
            <<t.head = "other",                              "InvalidClaimsError">>,
            <<p.form \in {"json", "names"},                  "MalformedTokenError">>,
            <<~Verifies(p.iss, GenericInput(t), t.sig),      "SignatureError">>,
            <<p.form = "fields",                             "MalformedTokenError">>,
            <<~checkStructure("generic", p.sub, p.iss),      "InvalidClaimsError">>
        >>)

(* Mutant of DispatchType: the type inside nats wins.                      *)
DispatchTypeNatsFirst(p) == IF p.nats \notin {Absent, Untyped, ""} THEN p.nats
                            ELSE IF v1Layout(p) THEN p.top ELSE ""

(* decode() reads the type before anything is authenticated...             *)
DispatchType(p) == IF v1Layout(p) THEN p.top
                   ELSE IF p.nats \in {Absent, Untyped} THEN "" ELSE p.nats

(* ... and hands the token to the decoder of that type.                    *)
DecodedAs(p) == IF DispatchType(p) \in TypedClaims THEN DispatchType(p) ELSE "generic"

decode(t) ==
    LET p == t.payload
    IN  FirstFailure(<<
            <<~t.whole \/ p.form \in {"json", "typestr"},    "MalformedTokenError">>,
            <<DispatchType(p) \in UnsupportedClaims,         "InvalidClaimsError">>,
            <<TRUE, IF DecodedAs(p) = "generic" THEN decodeGeneric(t)
                                                ELSE decodeTyped(t, DecodedAs(p))>>
        >>)

(* GenericClaims::claimType(): a version 1 header makes decodeGeneric copy *)
(* the top-level type into the data.                                       *)
claimType(t) ==
    LET type == IF t.head = "ed25519" /\ v1Layout(t.payload) THEN t.payload.top
                                                            ELSE t.payload.nats
    IN  CASE type \in {Absent, Untyped} -> ""
          [] type \in TypedClaims       -> type
          [] OTHER                      -> "generic"

(* Mutant of verify: a signature over header.payload, whatever the version. *)
VerifyHeaderAndPayload(t) == t.whole /\ Verifies(t.payload.iss, HeaderAndPayload(t), t.sig)

verify(t) == decodeEnvelope(t) = "ok"

=============================================================================
