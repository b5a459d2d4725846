------------------------------- MODULE Reading ------------------------------
(***************************************************************************)
(* Tokens on their way to a reader.  Key holders sign payloads the way     *)
(* some library version does (v1: the payload chunk, v2: header.payload),  *)
(* the token may arrive with its header rewritten or its payload mixed up, *)
(* and a reader calls decode(), a typed decoder, decodeGeneric() or        *)
(* verify() on what it holds.  The readers are pure functions of the token *)
(* (module Tokens); signed is what key holders really signed.              *)
(***************************************************************************)
EXTENDS Tokens

CONSTANTS Signable   \* the payloads key holders are asked to sign

ASSUME ReadingAssumption == Signable \subseteq WirePayloads

VARIABLES token,   \* the token in the reader's hands
          signed   \* every [by, over] a key holder produced

vars == <<token, signed>>

(* Before anything arrives: a string that is no token.                     *)
NoToken == [whole |-> FALSE, head |-> "malformed",
            payload |-> [form |-> "json", top |-> Absent, nats |-> Absent, ver |-> 0,
                         iss |-> Empty, sub |-> Empty],
            sig |-> [by |-> Empty,
                     over |-> [head |-> "none",
                               payload |-> [form |-> "json", top |-> Absent, nats |-> Absent,
                                            ver |-> 0, iss |-> Empty, sub |-> Empty]]]]

Init == token = NoToken /\ signed = {}

(* Mutant of Sign: a signer that does not say which key it used.           *)
SignUnnamed(k, h, p) ==
    \E over \in {PayloadOnly([head |-> h, payload |-> p]),
                 HeaderAndPayload([head |-> h, payload |-> p])} :
        /\ signed' = signed \cup {over}
        /\ token' = [whole |-> TRUE, head |-> h, payload |-> p, sig |-> [over |-> over]]

(* A holder of key k signs payload p under header h, over the payload      *)
(* chunk or over both.                                                     *)
Sign(k, h, p) ==
    LET t == [whole |-> TRUE, head |-> h, payload |-> p]
    IN  \E over \in {PayloadOnly(t), HeaderAndPayload(t)} :
            /\ signed' = signed \cup {[by |-> k, over |-> over]}
            /\ token' = [whole |-> TRUE, head |-> h, payload |-> p,
                         sig |-> [by |-> k, over |-> over]]

(* The header chunk of a token is replaced.                                *)
RewriteHead(h) ==
    /\ token # NoToken
    /\ token' = [token EXCEPT !.head = h]
    /\ UNCHANGED signed

(* The payload chunk is another than the one that was signed: the same     *)
(* claims about someone else.                                              *)
MixPayload(n) ==
    /\ token # NoToken
    /\ token' = [token EXCEPT !.payload.sub = n]
    /\ UNCHANGED signed

GarbleSignature ==
    /\ token # NoToken
    /\ token' = [token EXCEPT !.sig.by = Empty]
    /\ UNCHANGED signed

Cut == /\ token.whole
       /\ token' = [token EXCEPT !.whole = FALSE]
       /\ UNCHANGED signed

Next == \/ /\ token = NoToken
           /\ \E k \in Keys, h \in {"ed25519", "ed25519-nkey"}, p \in Signable : Sign(k, h, p)
        \/ \E h \in Heads : RewriteHead(h)
        \/ \E n \in Names : MixPayload(n)
        \/ GarbleSignature
        \/ Cut

Spec == Init /\ [][Next]_vars

-----------------------------------------------------------------------------
TypeOK == token \in WireTokens /\ signed \subseteq [by : Names, over : SignedBytes]

(* SECURITY.md, Signature Verification: whatever decode() returns, the key *)
(* it names as issuer signed this very payload, as the version of the      *)
(* payload (for a generic claim: the header) prescribes, and for a typed   *)
(* claim the issuer and the subject are of the kinds the type allows.      *)
DecodedIsSigned ==
    decode(token) = "ok" =>
        LET p == token.payload
        IN  /\ \E s \in signed :
                  /\ s.by = p.iss
                  /\ s.over.payload = p
                  /\ \/ s.over.head = token.head
                     \/ /\ s.over.head = "none"
                        /\ IF DecodedAs(p) = "generic" THEN token.head = "ed25519"
                                                       ELSE EnvelopeVersion(p) = 1
            /\ checkStructure(DecodedAs(p), p.sub, p.iss)

(* What a v1 signature leaves uncovered decides nothing: of all headers a  *)
(* token may arrive with, those under which decode() accepts it give the   *)
(* same class of claims and the same claim type.                           *)
HeaderDecidesNothing ==
    \A h \in Heads :
        LET t == [token EXCEPT !.head = h]
        IN  decode(token) = "ok" /\ decode(t) = "ok" =>
                DecodedAs(t.payload) # "generic" \/ claimType(t) = claimType(token)

(* decode() picks a decoder by a type it reads before authentication; that *)
(* never differs from the type the authenticated envelope shows: it        *)
(* accepts exactly what the decoder of the type it reports accepts.        *)
DispatchIsFaithful ==
    \A type \in TypedClaims :
        decodeTyped(token, type) = "ok" <=>
            decode(token) = "ok" /\ DecodedAs(token.payload) = type

(* A typed token that decodes also verifies, so the standalone verify() of *)
(* validate(jwt) never turns a decoded one away.                           *)
TypedVerify ==
    decode(token) = "ok" /\ DecodedAs(token.payload) # "generic" => verify(token)

(* validation.hpp: checkSignature "only controls the redundant standalone  *)
(* verify()", which jwt.cpp calls "the same authenticated envelope         *)
(* decode() uses".                                                         *)
VerifyIsRedundant == decode(token) = "ok" => verify(token)

(* SECURITY.md, Input Validation: "Invalid input results in a jwt::Error". *)
OnlyJwtErrors == decode(token) \in JwtErrors \cup {"ok"}

=============================================================================
