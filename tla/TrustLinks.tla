----------------------------- MODULE TrustLinks ------------------------------
(***************************************************************************)
(* The pure half of chain validation: what validateChain sees of a token,  *)
(* the two clock rules and the two rules between neighbours in a chain.    *)
(***************************************************************************)
EXTENDS Tokens, Integers

CONSTANTS Prefix,  \* the first character of a name, "-" for any other letter
          MaxInt   \* the largest integer of 64 bits

ASSUME PrefixAssumption ==
    /\ Prefix \in [Names -> KeyKinds \cup {"-"}]
    /\ \A n \in Keys : Prefix[n] = KindOf[n]

ASSUME IntAssumption == MaxInt \in Nat

Int64 == (-MaxInt - 1)..MaxInt

None == "none"

(* Wire tokens whose payload also has the claims a chain looks at.         *)
(*   keys, scoped   signing keys of an operator or account, and those with *)
(*                  a scope (setScope adds its key to the signing keys)    *)
(*   issuerAccount  of a user or a callout response, None when absent      *)
(*   permissions    of a user: it has some of its own                      *)
(*   sound          the claims have no blocking issue                      *)
ChainPayloads == [form : PayloadForms, top : TypeFields \cup {Absent},
                  nats : TypeFields \cup {Absent, Untyped}, ver : Versions,
                  iss : Names, sub : Names,
                  exp : Int64, nbf : Int64, keys : SUBSET Names, scoped : SUBSET Names,
                  issuerAccount : Names \cup {None}, permissions : BOOLEAN, sound : BOOLEAN]

ChainTokens == [whole : BOOLEAN, head : Heads, payload : ChainPayloads,
                sig : [by : Names, over : [head : Heads \cup {"none"}, payload : ChainPayloads]]]

(* A token as the chain reads it: what decode() and verify() say of it,    *)
(* and its claims.                                                         *)
Certificates == [decodes : BOOLEAN, verifies : BOOLEAN, sound : BOOLEAN,
                 type : TypedClaims \cup {"generic"}, sub : Names, iss : Names,
                 exp : Int64, nbf : Int64, keys : SUBSET Names, scoped : SUBSET Names,
                 issuerAccount : Names \cup {None}, permissions : BOOLEAN]

Certificate(t) ==
    LET p == t.payload
    IN  [decodes |-> decode(t) = "ok", verifies |-> verify(t), sound |-> p.sound,
         type |-> DecodedAs(p), sub |-> p.sub, iss |-> p.iss, exp |-> p.exp, nbf |-> p.nbf,
         keys |-> p.keys, scoped |-> p.scoped, issuerAccount |-> p.issuerAccount,
         permissions |-> p.permissions]

(* ValidationOptions.                                                      *)
Options == [checkExpiration : BOOLEAN, checkNotBefore : BOOLEAN, checkSignature : BOOLEAN,
            checkIssuerChain : BOOLEAN, clockSkewSeconds : Int64]

-----------------------------------------------------------------------------
(* What a sum of two integers may come to.  Overflow is undefined, exact   *)
(* in a wider register or, in practice, wrapped.                           *)
Wrapped(n) == IF n > MaxInt THEN n - 2 * (MaxInt + 1)
              ELSE IF n < -MaxInt - 1 THEN n + 2 * (MaxInt + 1)
              ELSE n

Computed(n) == {n, Wrapped(n)}

(* Mutant of validateExpiration: the second exp names is already too late. *)
validateExpirationExclusive(c, skew, t) ==
    {c.exp <= 0 \/ t < expiresWithSkew : expiresWithSkew \in Computed(c.exp + skew)}

(* What the two clock rules may return at time t.                          *)
validateExpiration(c, skew, t) ==
    {c.exp <= 0 \/ t <= expiresWithSkew : expiresWithSkew \in Computed(c.exp + skew)}

validateNotBefore(c, skew, t) ==
    {c.nbf <= 0 \/ least <= t : least \in Computed(c.nbf - skew)}

signingKeys(c) == IF c.type \in {"operator", "account"} THEN c.keys ELSE {}

(* Mutant of validateIssuerChain: issuer_account, when there, replaces the *)
(* search among the parent's keys.                                         *)
validateIssuerAccountOnly(child, parent) ==
    IF child.issuerAccount # None THEN child.issuerAccount = parent.sub
                                  ELSE child.iss \in {parent.sub} \cup signingKeys(parent)

(* validateIssuerChain: the parent or one of its signing keys issued the   *)
(* child, an issuer_account names the parent, and a scoped signing key     *)
(* issues no user with permissions of its own.                             *)
validateIssuerChain(child, parent) ==
    /\ child.iss # Empty /\ parent.sub # Empty
    /\ child.iss = parent.sub \/ child.iss \in signingKeys(parent)
    /\ child.type \in {"user", "authorization_response"} /\ child.issuerAccount # None =>
           child.issuerAccount = parent.sub
    /\ ~(/\ child.type = "user" /\ parent.type = "account"
         /\ child.iss \in parent.scoped /\ child.permissions)

(* Mutant of validateKeyHierarchy: the issuer's kind alone is compared.    *)
validateIssuerKindOnly(child, parent) == Prefix[child.iss] = Prefix[parent.sub]

(* validateKeyHierarchy: it looks at first characters, not at claim types. *)
validateKeyHierarchy(child, parent) ==
    /\ Empty \notin {child.sub, child.iss, parent.sub}
    /\ Prefix[child.iss] = Prefix[parent.sub]
    /\ \/ Prefix[child.sub] = "O" /\ Prefix[parent.sub] = "O" /\ child.sub = parent.sub
       \/ Prefix[child.sub] = "A" /\ Prefix[parent.sub] = "O"
       \/ Prefix[child.sub] = "U" /\ Prefix[parent.sub] = "A"

=============================================================================
