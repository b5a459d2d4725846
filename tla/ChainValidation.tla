--------------------------- MODULE ChainValidation ---------------------------
(***************************************************************************)
(* validateChain and the validate() it calls for each token, step by step: *)
(* token by token decode, verify, not-before, expiration, structure and    *)
(* decode again, then the links from the root down.  The clock runs        *)
(* between any two steps, and each time check reads it anew.               *)
(***************************************************************************)
EXTENDS TrustLinks

CONSTANTS Jwts,       \* the tokens a caller may hold
          Wire,       \* what each of them is on the wire
          Settings,   \* the options it may ask with
          MaxChain,   \* bound: tokens in a chain
          MaxTime     \* bound: the clock

ASSUME ChainAssumption ==
    /\ Wire \in [Jwts -> ChainTokens]
    /\ Settings \subseteq Options
    /\ MaxChain \in Nat
    /\ MaxTime \in Nat

VARIABLES now,
          chain, opts,   \* the arguments of the call
          since,         \* when it was made
          pc,
          at             \* the token, or the child of the link, under check

vars == <<now, chain, opts, since, pc, at>>

(* What the tokens read as, whenever they are read.                        *)
Decoded == [t \in Jwts |-> Certificate(Wire[t])]

(* The claims of the i-th token.                                           *)
claims(i) == Decoded[chain[i]]

Chains == UNION {[1..n -> Jwts] : n \in 0..MaxChain}

Init == /\ now = 0 /\ since = 0
        /\ chain = <<>>
        /\ opts \in Settings
        /\ pc = "idle" /\ at = 1

(* A check of the token or link under check: the call goes on, or returns. *)
Check(label, holds, next) ==
    /\ pc = label
    /\ pc' = IF holds THEN next ELSE "invalid"
    /\ UNCHANGED <<now, chain, opts, since, at>>

-----------------------------------------------------------------------------
validateChain(c, o) ==
    /\ pc = "idle"
    /\ chain' = c /\ opts' = o /\ since' = now /\ at' = 1
    /\ pc' = "called"
    /\ UNCHANGED now

Nonempty == Check("called", chain # <<>>, "decode")

(* validate(jwt)                                                           *)
Decode == Check("decode", claims(at).decodes, "verify")

Verify == Check("verify", opts.checkSignature => claims(at).verifies, "not before")

(* validateTiming: the not-before rule comes first.                        *)
NotBefore ==
    /\ pc = "not before"
    /\ \E inTime \in validateNotBefore(claims(at), opts.clockSkewSeconds, now) :
           Check("not before", opts.checkNotBefore => inTime, "expiration")

(* Mutant of Expiration: only the last token, the one presented, matters.  *)
ExpirationOfLeaf ==
    /\ pc = "expiration"
    /\ \E inTime \in validateExpiration(claims(at), opts.clockSkewSeconds, now) :
           Check("expiration", opts.checkExpiration /\ at = Len(chain) => inTime, "structure")

Expiration ==
    /\ pc = "expiration"
    /\ \E inTime \in validateExpiration(claims(at), opts.clockSkewSeconds, now) :
           Check("expiration", opts.checkExpiration => inTime, "structure")

(* claims->validate(): structure and blocking issues, never the time.      *)
Structure == Check("structure",
                   checkStructure(claims(at).type, claims(at).sub, claims(at).iss)
                       /\ claims(at).sound,
                   "decode again")

(* Mutant of DecodeAgain: the loop ends one token early.                   *)
DecodeAgainShort ==
    /\ pc = "decode again"
    /\ IF at + 1 < Len(chain) THEN at' = at + 1 /\ pc' = "decode"
       ELSE IF opts.checkIssuerChain /\ Len(chain) > 1 THEN at' = 2 /\ pc' = "issuer"
       ELSE at' = at /\ pc' = "valid"
    /\ UNCHANGED <<now, chain, opts, since>>

(* Mutant of DecodeAgain: the loop ends one token late.                    *)
DecodeAgainLong ==
    /\ pc = "decode again"
    /\ IF at <= Len(chain) THEN at' = at + 1 /\ pc' = "decode"
       ELSE at' = at /\ pc' = "valid"
    /\ UNCHANGED <<now, chain, opts, since>>

(* The end of the first loop's body, and of the loop.                      *)
DecodeAgain ==
    /\ pc = "decode again"
    /\ IF ~claims(at).decodes THEN at' = at /\ pc' = "invalid"
       ELSE IF at < Len(chain) THEN at' = at + 1 /\ pc' = "decode"
       ELSE IF opts.checkIssuerChain /\ Len(chain) > 1 THEN at' = 2 /\ pc' = "issuer"
       ELSE at' = at /\ pc' = "valid"
    /\ UNCHANGED <<now, chain, opts, since>>

Issuer == Check("issuer", validateIssuerChain(claims(at), claims(at - 1)), "hierarchy")

(* The end of the second loop's body.                                      *)
Hierarchy ==
    /\ pc = "hierarchy"
    /\ IF ~validateKeyHierarchy(claims(at), claims(at - 1)) THEN at' = at /\ pc' = "invalid"
       ELSE IF at < Len(chain) THEN at' = at + 1 /\ pc' = "issuer"
       ELSE at' = at /\ pc' = "valid"
    /\ UNCHANGED <<now, chain, opts, since>>

(* The caller has its ValidationResult.                                    *)
Return ==
    /\ pc \in {"valid", "invalid"}
    /\ pc' = "idle" /\ chain' = <<>> /\ since' = 0 /\ at' = 1
    /\ UNCHANGED <<now, opts>>

Tick == /\ now < MaxTime
        /\ now' = now + 1
        /\ UNCHANGED <<chain, opts, since, pc, at>>

Next == \/ pc = "idle" /\ \E c \in Chains, o \in Settings : validateChain(c, o)
        \/ Nonempty \/ Decode \/ Verify \/ NotBefore \/ Expiration \/ Structure \/ DecodeAgain
        \/ Issuer \/ Hierarchy \/ Return
        \/ Tick

Spec == Init /\ [][Next]_vars

-----------------------------------------------------------------------------
TokenPhase == {"decode", "verify", "not before", "expiration", "structure", "decode again"}
LinkPhase == {"issuer", "hierarchy"}
PCs == {"idle", "called", "valid", "invalid"} \cup TokenPhase \cup LinkPhase

TypeOK ==
    /\ now \in Nat /\ since \in 0..now
    /\ chain \in Seq(Jwts)
    /\ opts \in Settings
    /\ pc \in PCs
    /\ at \in Nat \ {0}
    /\ at = 1 \/ at <= Len(chain)

Abstract == INSTANCE TrustChain
    WITH question <- [chain |-> [i \in DOMAIN chain |-> claims(i)], opts |-> opts, since |-> since],
         answer   <- CASE pc = "idle"    -> "none"
                       [] pc = "valid"   -> "valid"
                       [] pc = "invalid" -> "invalid"
                       [] OTHER          -> "pending"

(* validateChain answers what TrustChain says it may: it accepts a chain   *)
(* only when every token passed at some moment of the call and every link  *)
(* is vouched for, and refuses one only for a check that fails.            *)
ImplementsTrust == Abstract!Spec

Level(i) == Prefix[claims(i).sub]

(* Operators among the first n tokens stand in front and are all the same. *)
SameOperator(n) ==
    \A i, j \in 1..n : i < j /\ Level(j) = "O" => claims(i).sub = claims(j).sub

(* SECURITY.md, Trust Hierarchy: "Each level can only sign JWTs for the    *)
(* level below".  The rules compare neighbours; in an accepted chain they  *)
(* add up to a descent: copies of one operator, then at most one account,  *)
(* then at most one user, each issued by a key of the level above it.      *)
AcceptedDescends ==
    pc = "valid" /\ opts.checkIssuerChain /\ Len(chain) > 1 =>
        LET N == Len(chain)
        IN  /\ SameOperator(N)
            /\ \A i \in 1..N : Level(i) \in {"O", "A", "U"}
            /\ \A i, j \in 1..N : i < j /\ Level(i) = "A" => j = N /\ Level(j) = "U"
            /\ \A i \in 1..N : Level(i) = "U" => i = N
            /\ \A i \in 2..N : Prefix[claims(i).iss] = Level(i - 1)

(* An accepted chain had no token expired when the call was made, and none *)
(* whose time had not come when it returned, give or take the tolerance;   *)
(* in a call within one second, no token in either state at all.  For an   *)
(* exp so late that the sum overflows this still holds; for an nbf that a  *)
(* negative tolerance carries beyond 64 bits it need not.                  *)
AcceptedInTime ==
    pc = "valid" =>
        \A i \in DOMAIN chain :
            LET c == claims(i)
                skew == opts.clockSkewSeconds
            IN  /\ opts.checkExpiration /\ c.exp > 0 => since <= c.exp + skew
                /\ opts.checkNotBefore /\ c.nbf > 0 /\ c.nbf - skew <= MaxInt =>
                       c.nbf - skew <= now

(* validation.hpp: checkSignature off "cannot make an unverified token     *)
(* pass".  Every token of an accepted chain carries a signature over its   *)
(* own payload by the issuer it names; where the links are checked that is *)
(* its parent or one of the parent's signing keys.                         *)
AcceptedIsSigned ==
    pc = "valid" =>
        \A i \in DOMAIN chain :
            LET t == Wire[chain[i]]
            IN  /\ t.sig.over.payload = t.payload
                /\ t.sig.by = t.payload.iss
                /\ opts.checkIssuerChain /\ i > 1 =>
                       t.sig.by \in {claims(i - 1).sub} \cup signingKeys(claims(i - 1))

(* Why the above hold, as an inductive invariant.  The token under check   *)
(* has passed what it was asked so far, the tokens before it everything... *)
NotYet(labels) == pc \in TokenPhase \ labels

MayBegin(t) == opts.checkNotBefore =>
                   TRUE \in validateNotBefore(claims(at), opts.clockSkewSeconds, t)

MayLast(t) == opts.checkExpiration =>
                  TRUE \in validateExpiration(claims(at), opts.clockSkewSeconds, t)

TokenInvariant ==
    LET c == claims(at)
    IN  /\ pc = "called" => at = 1
        /\ pc \in TokenPhase => at \in DOMAIN chain
        /\ NotYet({"decode"}) => c.decodes
        /\ NotYet({"decode", "verify"}) /\ opts.checkSignature => c.verifies
        /\ pc = "expiration" => MayBegin(now)
        /\ pc \in {"structure", "decode again"} => \E t \in since..now : MayBegin(t) /\ MayLast(t)
        /\ pc = "decode again" => c.sound

Passed(i) == \E t \in since..now : Abstract!Passes(claims(i), opts, t)

EarlierPassed ==
    /\ pc \in TokenPhase => \A i \in 1..(at - 1) : Passed(i)
    /\ pc \in LinkPhase \cup {"valid"} => chain # <<>> /\ \A i \in DOMAIN chain : Passed(i)

(* ... and the links above the one under check hold.                       *)
Link(i) == Abstract!Vouched(claims(i), claims(i - 1))

LinksHold ==
    /\ pc \in LinkPhase => at \in 2..Len(chain) /\ opts.checkIssuerChain
    /\ pc \in LinkPhase => SameOperator(at - 1) /\ \A i \in 2..(at - 1) : Link(i)
    /\ pc = "hierarchy" => validateIssuerChain(claims(at), claims(at - 1))
    /\ pc = "valid" /\ opts.checkIssuerChain =>
           SameOperator(Len(chain)) /\ \A i \in 2..Len(chain) : Link(i)

IInv == TypeOK /\ TokenInvariant /\ EarlierPassed /\ LinksHold

(* The answer is not "invalid" for want of a better one either: a chain    *)
(* whose tokens decode, are sound and stay in time from the call to now,   *)
(* to the last second of their exp and from the first of their nbf, and    *)
(* whose links are vouched for, is not refused, under any tolerance that   *)
(* the sums have room for.                                                 *)
StaysInTime(c) ==
    LET skew == opts.clockSkewSeconds
    IN  /\ opts.checkExpiration /\ c.exp > 0 => c.exp + skew \in now..MaxInt
        /\ opts.checkNotBefore /\ c.nbf > 0 => c.nbf - skew <= since /\ c.nbf - skew <= MaxInt

Rightful ==
    /\ chain # <<>>
    /\ \A i \in DOMAIN chain :
           /\ claims(i).decodes /\ claims(i).sound
           /\ opts.checkSignature => claims(i).verifies
           /\ StaysInTime(claims(i))
    /\ opts.checkIssuerChain => \A i \in 2..Len(chain) : Link(i)

RightfulIsNotRefused == Rightful => pc # "invalid"

=============================================================================
