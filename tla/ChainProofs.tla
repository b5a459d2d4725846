---------------------------- MODULE ChainProofs ------------------------------
(***************************************************************************)
(* Proofs about ChainValidation for every set of tokens, every option and  *)
(* chains of any length: the inductive invariant IInv, what an accepted    *)
(* chain is worth, and that the stepwise validation implements TrustChain. *)
(***************************************************************************)
EXTENDS ChainValidation, SequenceTheorems, TokenProofs

(* What decode() has shown of a token it accepts.                          *)
Decodable(c) == /\ c.iss \in Keys
                /\ checkStructure(c.type, c.sub, c.iss)
                /\ c.type # "generic" => c.verifies

LEMMA DecodeShows ==
    ASSUME NEW t, decode(t) = "ok"
    PROVE  Decodable(Certificate(t)) /\ t.sig.by = t.payload.iss /\ t.sig.over.payload = t.payload
<1> DEFINE p == t.payload
<1>c. LET c == Certificate(t)
      IN  c.iss = p.iss /\ c.sub = p.sub /\ c.type = DecodedAs(p) /\ c.verifies = verify(t)
  BY DEF Certificate
<1>1. CASE DecodedAs(p) = "generic"
  <2>1. decodeGeneric(t) = "ok"
    BY <1>1, DecodeAccepts
  <2>2. Verifies(p.iss, GenericInput(t), t.sig) /\ checkStructure("generic", p.sub, p.iss)
    BY <2>1, GenericAccepts
  <2>3. GenericInput(t).payload = p
    BY DEF GenericInput, PayloadOnly, HeaderAndPayload
  <2> QED
    BY <1>1, <1>c, <2>2, <2>3 DEF Verifies, Decodable
<1>2. CASE DecodedAs(p) # "generic"
  <2>1. decodeTyped(t, DecodedAs(p)) = "ok"
    BY <1>2, DecodeAccepts
  <2>2. decodeEnvelope(t) = "ok" /\ checkStructure(DecodedAs(p), p.sub, p.iss)
    BY <2>1, TypedAccepts
  <2>3. Verifies(p.iss, EnvelopeInput(t), t.sig)
    BY <2>2, EnvelopeAccepts
  <2>4. EnvelopeInput(t).payload = p
    BY DEF EnvelopeInput, PayloadOnly, HeaderAndPayload
  <2> QED
    BY <1>c, <2>2, <2>3, <2>4 DEF Verifies, Decodable, verify
<1> QED
  BY <1>1, <1>2

(* A token of the chain is a certificate, and decodable when it decodes.   *)
LEMMA ClaimsType ==
    ASSUME TypeOK, NEW i \in DOMAIN chain
    PROVE  /\ claims(i) \in Certificates
           /\ claims(i).decodes => Decodable(claims(i))
<1>1. chain[i] \in Jwts
  BY ElementOfSeq, LenProperties DEF TypeOK
<1> DEFINE t == Wire[chain[i]]
<1>2. claims(i) = Certificate(t) /\ t \in ChainTokens
  BY <1>1, ChainAssumption DEF claims, Decoded
<1>3. Certificate(t) \in Certificates
  <2>1. t.payload \in ChainPayloads /\ DecodedAs(t.payload) \in TypedClaims \cup {"generic"}
    BY <1>2 DEF ChainTokens, DecodedAs
  <2>2. verify(t) \in BOOLEAN
    BY DEF verify
  <2> HIDE DEF t
  <2> QED
    BY <2>1, <2>2 DEF Certificate, Certificates, ChainPayloads
<1>4. Certificate(t).decodes => decode(t) = "ok"
  BY DEF Certificate
<1> QED
  BY <1>2, <1>3, <1>4, DecodeShows

(* A decodable token names a subject and an issuer.                        *)
LEMMA NamesGiven ==
    ASSUME NEW c \in Certificates, Decodable(c)
    PROVE  c.sub # Empty /\ c.iss # Empty
BY NamesAssumption DEF Decodable, checkStructure, Keys

(* The two rules of the code together say what TrustChain asks of a link.  *)
LEMMA RulesVouch ==
    ASSUME NEW child \in Certificates, NEW parent \in Certificates,
           Decodable(child), Decodable(parent)
    PROVE  validateIssuerChain(child, parent) /\ validateKeyHierarchy(child, parent)
               <=> Abstract!Vouched(child, parent)
<1>1. child.sub # Empty /\ child.iss # Empty /\ parent.sub # Empty
  BY NamesGiven
<1>2. signingKeys(parent) = Abstract!signingKeys(parent)
  BY DEF signingKeys, Abstract!signingKeys
<1>3. validateKeyHierarchy(child, parent) <=>
          /\ <<Prefix[child.iss], Prefix[child.sub]>> \in Abstract!Above
          /\ Prefix[parent.sub] = Prefix[child.iss]
          /\ Prefix[child.sub] = "O" => child.sub = parent.sub
  BY <1>1 DEF validateKeyHierarchy, Abstract!Above
<1> QED
  BY <1>1, <1>2, <1>3 DEF validateIssuerChain, Abstract!Vouched, None, Abstract!None

LEMMA EitherWay ==
    ASSUME NEW A \in BOOLEAN, NEW B \in BOOLEAN
    PROVE  (TRUE \in {A, B} <=> A \/ B) /\ (FALSE \in {A, B} <=> ~A \/ ~B)
OBVIOUS

(* What the two clock rules may return, overflow included.                 *)
LEMMA ExpirationReturns ==
    ASSUME NEW c \in Certificates, NEW skew \in Int64, NEW t \in Nat
    PROVE  /\ TRUE \in validateExpiration(c, skew, t) <=> (c.exp > 0 => t - skew <= c.exp)
           /\ FALSE \in validateExpiration(c, skew, t) =>
                  ~(c.exp > 0 => t - skew <= c.exp) \/ (c.exp > 0 /\ c.exp + skew > MaxInt)
<1>1. c.exp \in Int /\ skew \in Int /\ MaxInt \in Nat /\ c.exp <= MaxInt /\ skew <= MaxInt
      /\ skew >= -MaxInt - 1
  BY IntAssumption DEF Certificates, Int64
<1> DEFINE w == Wrapped(c.exp + skew)
<1>2. validateExpiration(c, skew, t) = {c.exp <= 0 \/ t <= c.exp + skew, c.exp <= 0 \/ t <= w}
  BY DEF validateExpiration, Computed
<1>3. c.exp > 0 /\ c.exp + skew > MaxInt => w < 0
  BY <1>1 DEF Wrapped
<1>4. c.exp > 0 /\ c.exp + skew <= MaxInt => w = c.exp + skew
  BY <1>1 DEF Wrapped
<1>5. w \in Int
  BY <1>1 DEF Wrapped
<1> HIDE DEF w
<1>6. /\ c.exp <= 0 \/ t <= w => c.exp <= 0 \/ t <= c.exp + skew
      /\ (c.exp <= 0 \/ t <= c.exp + skew) <=> (c.exp > 0 => t - skew <= c.exp)
      /\ ~(c.exp <= 0 \/ t <= w) =>
             ~(c.exp > 0 => t - skew <= c.exp) \/ (c.exp > 0 /\ c.exp + skew > MaxInt)
  BY <1>1, <1>3, <1>4, <1>5
<1> QED
  BY <1>2, <1>6, EitherWay

LEMMA NotBeforeReturns ==
    ASSUME NEW c \in Certificates, NEW skew \in Int64, NEW t \in Nat
    PROVE  /\ TRUE \in validateNotBefore(c, skew, t) <=>
                  (c.nbf > 0 /\ c.nbf - skew <= MaxInt => c.nbf <= t + skew)
           /\ FALSE \in validateNotBefore(c, skew, t) =>
                  \/ ~(c.nbf > 0 /\ c.nbf - skew <= MaxInt => c.nbf <= t + skew)
                  \/ c.nbf > 0 /\ c.nbf - skew > MaxInt
<1>1. c.nbf \in Int /\ skew \in Int /\ MaxInt \in Nat /\ c.nbf <= MaxInt /\ skew <= MaxInt
      /\ skew >= -MaxInt - 1
  BY IntAssumption DEF Certificates, Int64
<1> DEFINE w == Wrapped(c.nbf - skew)
<1>2. validateNotBefore(c, skew, t) = {c.nbf <= 0 \/ c.nbf - skew <= t, c.nbf <= 0 \/ w <= t}
  BY DEF validateNotBefore, Computed
<1>3. c.nbf > 0 /\ c.nbf - skew > MaxInt => w < 0
  BY <1>1 DEF Wrapped
<1>4. c.nbf > 0 /\ c.nbf - skew <= MaxInt => w = c.nbf - skew
  BY <1>1 DEF Wrapped
<1>5. w \in Int
  BY <1>1 DEF Wrapped
<1> HIDE DEF w
<1>6. /\ (c.nbf <= 0 \/ c.nbf - skew <= t) \/ (c.nbf <= 0 \/ w <= t) <=>
             (c.nbf > 0 /\ c.nbf - skew <= MaxInt => c.nbf <= t + skew)
      /\ ~(c.nbf <= 0 \/ c.nbf - skew <= t) \/ ~(c.nbf <= 0 \/ w <= t) =>
             \/ ~(c.nbf > 0 /\ c.nbf - skew <= MaxInt => c.nbf <= t + skew)
             \/ c.nbf > 0 /\ c.nbf - skew > MaxInt
  BY <1>1, <1>3, <1>4, <1>5
<1> QED
  BY <1>2, <1>6, EitherWay

(* A token passes at a moment when each check may.                         *)
LEMMA PassesWhen ==
    ASSUME NEW c \in Certificates, NEW o \in Options, NEW t \in Nat
    PROVE  Abstract!Passes(c, o, t) <=>
               /\ c.decodes /\ c.sound
               /\ o.checkSignature => c.verifies
               /\ o.checkNotBefore => TRUE \in validateNotBefore(c, o.clockSkewSeconds, t)
               /\ o.checkExpiration => TRUE \in validateExpiration(c, o.clockSkewSeconds, t)
<1>1. o.clockSkewSeconds \in Int64
  BY DEF Options
<1> QED
  BY <1>1, ExpirationReturns, NotBeforeReturns DEF Abstract!Passes

(* A clock rule that may fail does so by the clock or for an overflow.     *)
LEMMA FailsWhen ==
    ASSUME NEW c \in Certificates, NEW o \in Options, NEW t \in Nat,
           \/ o.checkNotBefore /\ FALSE \in validateNotBefore(c, o.clockSkewSeconds, t)
           \/ o.checkExpiration /\ FALSE \in validateExpiration(c, o.clockSkewSeconds, t)
    PROVE  ~Abstract!Passes(c, o, t) \/ Abstract!Overflows(c, o)
<1>1. o.clockSkewSeconds \in Int64
  BY DEF Options
<1> QED
  BY <1>1, ExpirationReturns, NotBeforeReturns DEF Abstract!Passes, Abstract!Overflows

LEMMA TypeStep == TypeOK /\ [Next]_vars => TypeOK'
<1> SUFFICES ASSUME TypeOK, [Next]_vars PROVE TypeOK'
  OBVIOUS
<1>t. now \in Nat /\ since \in 0..now /\ chain \in Seq(Jwts) /\ opts \in Settings
      /\ pc \in PCs /\ at \in Nat \ {0} /\ (at = 1 \/ at <= Len(chain))
  BY DEF TypeOK
<1>n. Len(chain) \in Nat
  BY <1>t, LenProperties
<1>p. pc' \in PCs
  <2>1. CASE Next
    BY <2>1 DEF Next, validateChain, Nonempty, Decode, Verify, NotBefore, Expiration, Structure,
                DecodeAgain, Issuer, Hierarchy, Return, Tick, Check, PCs, TokenPhase, LinkPhase,
                TypeOK
  <2> QED
    BY <2>1, <1>t DEF vars
<1>c. ASSUME NEW c \in Chains, NEW o \in Settings, validateChain(c, o) PROVE TypeOK'
  <2>1. c \in Seq(Jwts)
    BY ChainAssumption, SeqDef DEF Chains
  <2> QED
    BY <1>c, <1>t, <1>p, <2>1 DEF validateChain, TypeOK
<1>1. ASSUME NEW label, NEW holds, NEW next, Check(label, holds, next) PROVE TypeOK'
  BY <1>1, <1>t, <1>p DEF Check, TypeOK
<1>2. CASE Nonempty \/ Decode \/ Verify \/ NotBefore \/ Expiration \/ Structure \/ Issuer
  BY <1>2, <1>1 DEF Nonempty, Decode, Verify, NotBefore, Expiration, Structure, Issuer
<1>3. CASE DecodeAgain
  <2>1. at' \in Nat \ {0} /\ (at' = 1 \/ at' <= Len(chain))
    <3>1. at' = at \/ (at < Len(chain) /\ at' = at + 1) \/ (Len(chain) > 1 /\ at' = 2)
      BY <1>3 DEF DecodeAgain
    <3> QED
      BY <3>1, <1>t, <1>n
  <2> QED
    BY <1>3, <2>1, <1>t, <1>p DEF DecodeAgain, TypeOK
<1>4. CASE Hierarchy
  <2>1. at' \in Nat \ {0} /\ (at' = 1 \/ at' <= Len(chain))
    BY <1>4, <1>t, <1>n DEF Hierarchy
  <2> QED
    BY <1>4, <2>1, <1>t, <1>p DEF Hierarchy, TypeOK
<1>5. CASE Return
  <2>1. <<>> \in Seq(Jwts)
    BY EmptySeq
  <2> QED
    BY <1>5, <1>t, <1>p, <2>1 DEF Return, TypeOK
<1>6. CASE Tick
  BY <1>6, <1>t, <1>p DEF Tick, TypeOK
<1>7. CASE UNCHANGED vars
  BY <1>7, <1>t DEF vars, TypeOK
<1> QED
  BY <1>c, <1>2, <1>3, <1>4, <1>5, <1>6, <1>7 DEF Next

(* Type correctness.                                                       *)
THEOREM TypeCorrect == Spec => []TypeOK
<1>1. Init => TypeOK
  BY EmptySeq DEF Init, TypeOK, PCs
<1> QED
  BY <1>1, TypeStep, PTL DEF Spec

-----------------------------------------------------------------------------
(* What a step leaves alone when it leaves the arguments of the call and   *)
(* only lets time pass.                                                    *)
LEMMA PassedStays ==
    ASSUME UNCHANGED <<chain, opts, since>>, now \in Nat, now' \in Nat, since \in Nat, now <= now'
    PROVE  \A i : Passed(i) => Passed(i)'
BY DEF Passed, claims, Abstract!Passes

LEMMA LinksStay ==
    ASSUME UNCHANGED chain
    PROVE  /\ \A i : Link(i) => Link(i)'
           /\ \A n : SameOperator(n) => SameOperator(n)'
<1>1. \A i : Link(i) => Link(i)'
  BY DEF Link, claims, Abstract!Vouched, Abstract!Above, Abstract!signingKeys, Abstract!None
<1>2. \A n : SameOperator(n) => SameOperator(n)'
  BY DEF SameOperator, Level, claims
<1> QED
  BY <1>1, <1>2

(* The verdicts of the clock rules depend on the token and the options.    *)
LEMMA ClocksStay ==
    ASSUME UNCHANGED <<chain, opts, at>>
    PROVE  /\ \A t : MayBegin(t) => MayBegin(t)'
           /\ \A t : MayLast(t) => MayLast(t)'
           /\ UNCHANGED now => (MayBegin(now) => MayBegin(now)')
BY DEF MayBegin, MayLast, claims, validateNotBefore, validateExpiration, Computed, Wrapped

(* Outside a call, and once it has failed, nothing is claimed.             *)
LEMMA Outside ==
    ASSUME pc \in {"idle", "invalid"}
    PROVE  TokenInvariant /\ EarlierPassed /\ LinksHold
BY DEF TokenInvariant, EarlierPassed, LinksHold, NotYet, TokenPhase, LinkPhase

LEMMA OutsideNext ==
    ASSUME pc' \in {"idle", "invalid"}
    PROVE  TokenInvariant' /\ EarlierPassed' /\ LinksHold'
BY DEF TokenInvariant, EarlierPassed, LinksHold, NotYet, TokenPhase, LinkPhase

(* One step within a token: what was established stays, and the check that *)
(* held is added to it.                                                    *)
LEMMA TokenStep ==
    ASSUME IInv, Nonempty \/ Decode \/ Verify \/ NotBefore \/ Expiration \/ Structure
    PROVE  TokenInvariant' /\ EarlierPassed' /\ LinksHold'
<1>t. TypeOK /\ TokenInvariant /\ EarlierPassed
  BY DEF IInv
<1>n. now \in Nat /\ since \in 0..now /\ since \in Nat /\ at \in Nat \ {0}
  BY <1>t DEF TypeOK
<1>u. UNCHANGED <<now, chain, opts, since, at>>
  BY DEF Nonempty, Decode, Verify, NotBefore, Expiration, Structure, Check
<1>s. /\ \A t : MayBegin(t) => MayBegin(t)'
      /\ \A t : MayLast(t) => MayLast(t)'
      /\ MayBegin(now) => MayBegin(now)'
  BY <1>u, ClocksStay
<1>c. claims(at)' = claims(at)
  BY <1>u DEF claims
<1>p. \A i : Passed(i) => Passed(i)'
  BY PassedStays, <1>n, <1>u
<1>e. ASSUME pc' \in TokenPhase, \A i \in 1..(at - 1) : Passed(i)
      PROVE  EarlierPassed' /\ LinksHold'
  BY <1>e, <1>p, <1>u DEF EarlierPassed, LinksHold, TokenPhase, LinkPhase
<1>b. pc \in TokenPhase => at \in DOMAIN chain /\ \A i \in 1..(at - 1) : Passed(i)
  BY <1>t DEF TokenInvariant, EarlierPassed
<1>1. CASE pc' = "invalid"
  BY <1>1, OutsideNext
<1>2. CASE Nonempty /\ pc' = "decode"
  <2>1. at = 1 /\ at \in DOMAIN chain
    BY <1>2, <1>t, EmptySeq, LenProperties DEF TokenInvariant, Nonempty, Check, TypeOK
  <2> QED
    BY <2>1, <1>2, <1>e, <1>u DEF TokenInvariant, NotYet, TokenPhase
<1>3. CASE Decode /\ pc' = "verify"
  BY <1>3, <1>e, <1>b, <1>c, <1>u DEF TokenInvariant, NotYet, TokenPhase, Decode, Check
<1>4. CASE Verify /\ pc' = "not before"
  <2>1. claims(at).decodes
    BY <1>4, <1>t DEF TokenInvariant, NotYet, TokenPhase, Verify, Check
  <2> QED
    BY <2>1, <1>4, <1>e, <1>b, <1>c, <1>u DEF TokenInvariant, NotYet, TokenPhase, Verify, Check
<1>5. CASE NotBefore /\ pc' = "expiration"
  <2>1. claims(at).decodes /\ (opts.checkSignature => claims(at).verifies)
    BY <1>5, <1>t DEF TokenInvariant, NotYet, TokenPhase, NotBefore, Check
  <2>2. MayBegin(now)
    BY <1>5 DEF NotBefore, Check, MayBegin
  <2> QED
    BY <2>1, <2>2, <1>5, <1>e, <1>b, <1>c, <1>s, <1>u
    DEF TokenInvariant, NotYet, TokenPhase, NotBefore, Check
<1>6. CASE Expiration /\ pc' = "structure"
  <2>1. claims(at).decodes /\ (opts.checkSignature => claims(at).verifies) /\ MayBegin(now)
    BY <1>6, <1>t DEF TokenInvariant, NotYet, TokenPhase, Expiration
  <2>2. MayLast(now)
    BY <1>6 DEF Expiration, Check, MayLast
  <2>3. now \in (since..now)'
    BY <1>n, <1>u
  <2>4. (\E t \in since..now : MayBegin(t) /\ MayLast(t))'
    BY <2>1, <2>2, <2>3, <1>s
  <2> QED
    BY <2>1, <2>4, <1>6, <1>e, <1>b, <1>c, <1>u
    DEF TokenInvariant, NotYet, TokenPhase, Expiration, Check
<1>7. CASE Structure /\ pc' = "decode again"
  <2>1. claims(at).decodes /\ (opts.checkSignature => claims(at).verifies)
    BY <1>7, <1>t DEF TokenInvariant, NotYet, TokenPhase, Structure, Check
  <2>2. \E t \in since..now : MayBegin(t) /\ MayLast(t)
    BY <1>7, <1>t DEF TokenInvariant, Structure, Check
  <2>3. claims(at).sound
    BY <1>7 DEF Structure, Check
  <2>4. (\E t \in since..now : MayBegin(t) /\ MayLast(t))'
    BY <2>2, <1>s, <1>u
  <2> QED
    BY <2>1, <2>3, <2>4, <1>7, <1>e, <1>b, <1>c, <1>u
    DEF TokenInvariant, NotYet, TokenPhase, Structure, Check
<1> QED
  BY <1>1, <1>2, <1>3, <1>4, <1>5, <1>6, <1>7
  DEF Nonempty, Decode, Verify, NotBefore, Expiration, Structure, Check

(* The end of the loop's body: the token under check has passed.           *)
LEMMA DecodeAgainStep ==
    ASSUME IInv, DecodeAgain
    PROVE  TokenInvariant' /\ EarlierPassed' /\ LinksHold'
<1>t. TypeOK /\ TokenInvariant /\ EarlierPassed
  BY DEF IInv
<1>n. now \in Nat /\ since \in 0..now /\ since \in Nat /\ at \in Nat \ {0}
  BY <1>t DEF TypeOK
<1>o. opts \in Options
  BY <1>t, ChainAssumption DEF TypeOK
<1>l. DOMAIN chain = 1..Len(chain) /\ Len(chain) \in Nat
  BY <1>t, LenProperties DEF TypeOK
<1>u. UNCHANGED <<now, chain, opts, since>>
  BY DEF DecodeAgain
<1>p. \A i : Passed(i) => Passed(i)'
  BY PassedStays, <1>n, <1>u
<1>q. \A n : SameOperator(n) => SameOperator(n)'
  BY LinksStay, <1>u
<1>a. at \in DOMAIN chain /\ pc = "decode again"
  BY <1>t DEF TokenInvariant, DecodeAgain, TokenPhase
<1>m. at \in 1..Len(chain)
  BY <1>a, <1>l
<1>1. Passed(at)
  <2>1. claims(at).decodes /\ claims(at).sound /\ (opts.checkSignature => claims(at).verifies)
    BY <1>a, <1>t DEF TokenInvariant, NotYet, TokenPhase
  <2>2. PICK t \in since..now : MayBegin(t) /\ MayLast(t)
    BY <1>a, <1>t DEF TokenInvariant
  <2>3. t \in Nat
    BY <2>2, <1>n
  <2>4. claims(at) \in Certificates
    BY <1>a, <1>t, ClaimsType
  <2> QED
    BY <2>1, <2>2, <2>3, <2>4, <1>o, PassesWhen DEF Passed, MayBegin, MayLast
<1>2. \A i \in 1..at : Passed(i)
  <2>1. \A i \in 1..(at - 1) : Passed(i)
    BY <1>a, <1>t DEF EarlierPassed, TokenPhase
  <2> QED
    BY <1>1, <2>1, <1>n
<1>3. CASE pc' = "invalid"
  BY <1>3, OutsideNext
<1>4. CASE at < Len(chain) /\ at' = at + 1 /\ pc' = "decode"
  <2>1. at' \in DOMAIN chain /\ at' - 1 = at
    BY <1>4, <1>l, <1>n
  <2> QED
    BY <2>1, <1>4, <1>2, <1>p, <1>u
    DEF TokenInvariant, NotYet, EarlierPassed, LinksHold, TokenPhase, LinkPhase
<1>5. ASSUME at >= Len(chain)
      PROVE  at = Len(chain) /\ chain # <<>> /\ \A i \in DOMAIN chain : Passed(i)
  <2>1. at = Len(chain) /\ Len(chain) # 0
    BY <1>5, <1>m, Len(chain) \in Nat, <1>n
  <2>2. Len(<<>>) = 0
    BY EmptySeq
  <2> QED
    BY <2>1, <2>2, <1>2, <1>l
<1>6. CASE at >= Len(chain) /\ opts.checkIssuerChain /\ Len(chain) > 1 /\ at' = 2 /\ pc' = "issuer"
  <2>1. at' \in 2..Len(chain) /\ at' - 1 = 1
    BY <1>6, <1>l
  <2>2. SameOperator(1)
    BY DEF SameOperator
  <2>3. TokenInvariant' /\ EarlierPassed'
    BY <1>5, <1>6, <1>p, <1>u DEF TokenInvariant, NotYet, EarlierPassed, TokenPhase, LinkPhase
  <2>4. LinksHold'
    <3>1. SameOperator(1)'
      BY <2>2, <1>q
    <3>2. SameOperator(at - 1)'
      BY <3>1, <2>1 DEF SameOperator
    <3>3. 2..(at' - 1) = {}
      BY <2>1
    <3> QED
      BY <2>1, <3>2, <3>3, <1>6, <1>u DEF LinksHold, LinkPhase
  <2> QED
    BY <2>3, <2>4
<1>7. CASE at >= Len(chain) /\ ~(opts.checkIssuerChain /\ Len(chain) > 1) /\ pc' = "valid"
  <2>1. opts.checkIssuerChain => Len(chain) = 1
    BY <1>7, <1>5, <1>l, <1>n
  <2>2. TokenInvariant' /\ EarlierPassed'
    BY <1>5, <1>7, <1>p, <1>u DEF TokenInvariant, NotYet, EarlierPassed, TokenPhase, LinkPhase
  <2>3. LinksHold'
    BY <2>1, <1>7, <1>u DEF LinksHold, LinkPhase, SameOperator
  <2> QED
    BY <2>2, <2>3
<1>8. at < Len(chain) \/ at >= Len(chain)
  BY <1>n, <1>l
<1> QED
  BY <1>3, <1>4, <1>6, <1>7, <1>8 DEF DecodeAgain

(* Every token of a chain in its link phase is decodable.                  *)
LEMMA AllDecodable ==
    ASSUME TypeOK, EarlierPassed, pc \in LinkPhase, NEW i \in 1..Len(chain)
    PROVE  claims(i) \in Certificates /\ Decodable(claims(i)) /\ Passed(i)
<1>1. i \in DOMAIN chain
  BY LenProperties DEF TypeOK
<1>2. Passed(i)
  BY <1>1 DEF EarlierPassed
<1>3. claims(i).decodes
  BY <1>2 DEF Passed, Abstract!Passes
<1> QED
  BY <1>1, <1>2, <1>3, ClaimsType

(* A link that holds carries "the same operator" one token further down.   *)
LEMMA SameOperatorGrows ==
    ASSUME NEW n \in Nat \ {0}, SameOperator(n), Link(n + 1)
    PROVE  SameOperator(n + 1)
<1> SUFFICES ASSUME NEW i \in 1..(n + 1), NEW j \in 1..(n + 1), i < j, Level(j) = "O"
             PROVE  claims(i).sub = claims(j).sub
  BY DEF SameOperator
<1>1. CASE j \in 1..n
  <2>1. i \in 1..n
    BY <1>1
  <2> QED
    BY <1>1, <2>1 DEF SameOperator
<1>2. CASE j = n + 1
  <2>1. n + 1 - 1 = n /\ i \in 1..n
    BY <1>2
  <2>2. claims(n + 1).sub = claims(n).sub
    BY <1>2, <2>1 DEF Link, Level, Abstract!Vouched
  <2>3. Level(n) = "O"
    BY <1>2, <2>2 DEF Level
  <2>4. claims(i).sub = claims(n).sub
    <3>1. CASE i = n
      BY <3>1
    <3>2. CASE i # n
      BY <3>2, <2>1, <2>3 DEF SameOperator
    <3> QED
      BY <3>1, <3>2
  <2> QED
    BY <1>2, <2>2, <2>4
<1> QED
  BY <1>1, <1>2

LEMMA IssuerStep ==
    ASSUME IInv, Issuer
    PROVE  TokenInvariant' /\ EarlierPassed' /\ LinksHold'
<1>t. TypeOK /\ EarlierPassed /\ LinksHold
  BY DEF IInv
<1>n. now \in Nat /\ since \in Nat
  BY <1>t DEF TypeOK
<1>u. UNCHANGED <<now, chain, opts, since, at>>
  BY DEF Issuer, Check
<1>p. \A i : Passed(i) => Passed(i)'
  BY PassedStays, <1>n, <1>u
<1>q. (\A i : Link(i) => Link(i)') /\ (\A n : SameOperator(n) => SameOperator(n)')
  BY LinksStay, <1>u
<1>1. CASE pc' = "invalid"
  BY <1>1, OutsideNext
<1>2. CASE pc = "issuer" /\ pc' = "hierarchy" /\ validateIssuerChain(claims(at), claims(at - 1))
  <2>1. TokenInvariant'
    BY <1>2 DEF TokenInvariant, NotYet, TokenPhase
  <2>2. EarlierPassed'
    BY <1>2, <1>t, <1>p, <1>u DEF EarlierPassed, TokenPhase, LinkPhase
  <2>3. at \in 2..Len(chain) /\ opts.checkIssuerChain /\ SameOperator(at - 1)
        /\ \A i \in 2..(at - 1) : Link(i)
    BY <1>2, <1>t DEF LinksHold, LinkPhase
  <2>4. SameOperator(at - 1)' /\ \A i \in 2..(at' - 1) : Link(i)'
    <3>1. SameOperator(at - 1)'
      BY <2>3, <1>u DEF SameOperator, Level, claims
    <3> QED
      BY <3>1, <2>3, <1>q, <1>u
  <2>5. validateIssuerChain(claims(at), claims(at - 1))'
    BY <1>2, <1>u DEF claims, validateIssuerChain, signingKeys, None
  <2>6. LinksHold'
    BY <1>2, <2>3, <2>4, <2>5, <1>u DEF LinksHold, LinkPhase
  <2> QED
    BY <2>1, <2>2, <2>6
<1> QED
  BY <1>1, <1>2 DEF Issuer, Check

LEMMA HierarchyStep ==
    ASSUME IInv, Hierarchy
    PROVE  TokenInvariant' /\ EarlierPassed' /\ LinksHold'
<1>t. TypeOK /\ EarlierPassed /\ LinksHold
  BY DEF IInv
<1>n. now \in Nat /\ since \in Nat
  BY <1>t DEF TypeOK
<1>u. UNCHANGED <<now, chain, opts, since>> /\ pc = "hierarchy"
  BY DEF Hierarchy
<1>p. \A i : Passed(i) => Passed(i)'
  BY PassedStays, <1>n, <1>u
<1>q. (\A i : Link(i) => Link(i)') /\ (\A n : SameOperator(n) => SameOperator(n)')
  BY LinksStay, <1>u
<1>a. /\ at \in 2..Len(chain) /\ opts.checkIssuerChain /\ SameOperator(at - 1)
      /\ \A i \in 2..(at - 1) : Link(i)
      /\ validateIssuerChain(claims(at), claims(at - 1))
  BY <1>u, <1>t DEF LinksHold, LinkPhase
<1>l. Len(chain) \in Nat
  BY <1>t, LenProperties DEF TypeOK
<1>m. at \in Nat /\ at >= 2 /\ at <= Len(chain) /\ at - 1 \in Nat \ {0} /\ (at - 1) + 1 = at
  BY <1>a, <1>l
<1>d. ASSUME NEW i \in 1..Len(chain) PROVE claims(i) \in Certificates /\ Decodable(claims(i))
  BY <1>d, <1>t, <1>u, AllDecodable DEF LinkPhase
<1>1. CASE ~validateKeyHierarchy(claims(at), claims(at - 1))
  BY <1>1, OutsideNext DEF Hierarchy
<1>2. ASSUME validateKeyHierarchy(claims(at), claims(at - 1))
      PROVE  /\ SameOperator(at)
             /\ \A i \in 2..at : Link(i)
  <2>1. Link(at)
    <3>1. at \in 1..Len(chain) /\ at - 1 \in 1..Len(chain)
      BY <1>m, <1>l
    <3> QED
      BY <3>1, <1>2, <1>a, <1>d, RulesVouch DEF Link
  <2>2. SameOperator(at)
    <3>1. SameOperator((at - 1) + 1)
      BY <2>1, <1>m, <1>a, SameOperatorGrows
    <3> QED
      BY <3>1, <1>m
  <2>3. \A i \in 2..at : i = at \/ i \in 2..(at - 1)
    BY <1>m
  <2> QED
    BY <2>1, <2>2, <2>3, <1>a
<1>3. CASE at < Len(chain) /\ at' = at + 1 /\ pc' = "issuer"
             /\ validateKeyHierarchy(claims(at), claims(at - 1))
  <2>1. TokenInvariant' /\ EarlierPassed'
    BY <1>3, <1>t, <1>p, <1>u
    DEF TokenInvariant, NotYet, EarlierPassed, TokenPhase, LinkPhase
  <2>2. at' - 1 = at /\ at' \in 2..Len(chain)
    BY <1>3, <1>m, <1>l
  <2>3. SameOperator(at - 1)'
    BY <1>3, <1>2, <1>u, <2>2 DEF SameOperator, Level, claims
  <2>4. \A i \in 2..(at' - 1) : Link(i)'
    BY <1>3, <1>2, <2>2, <1>q
  <2> QED
    BY <2>1, <2>2, <2>3, <2>4, <1>3, <1>a, <1>u DEF LinksHold, LinkPhase
<1>4. CASE at >= Len(chain) /\ pc' = "valid"
             /\ validateKeyHierarchy(claims(at), claims(at - 1))
  <2>1. TokenInvariant' /\ EarlierPassed'
    BY <1>4, <1>t, <1>p, <1>u
    DEF TokenInvariant, NotYet, EarlierPassed, TokenPhase, LinkPhase
  <2>2. at = Len(chain)
    BY <1>4, <1>m, <1>l
  <2>3. SameOperator(Len(chain))'
    BY <1>4, <1>2, <1>u, <2>2 DEF SameOperator, Level, claims
  <2>4. \A i \in 2..Len(chain) : Link(i)'
    BY <1>4, <1>2, <2>2, <1>q
  <2> QED
    BY <2>1, <2>3, <2>4, <1>4, <1>u DEF LinksHold, LinkPhase
<1>5. at < Len(chain) \/ at >= Len(chain)
  BY <1>m, <1>l
<1> QED
  BY <1>1, <1>3, <1>4, <1>5 DEF Hierarchy

(* Nothing established in a call is lost while the clock runs.             *)
LEMMA TimePasses ==
    ASSUME IInv, UNCHANGED <<chain, opts, since, pc, at>>, now' \in Nat, now <= now'
    PROVE  TokenInvariant' /\ EarlierPassed' /\ LinksHold'
<1>t. TypeOK /\ TokenInvariant /\ EarlierPassed /\ LinksHold
  BY DEF IInv
<1>n. now \in Nat /\ since \in Nat /\ since..now \subseteq since..now'
  BY <1>t DEF TypeOK
<1>p. \A i : Passed(i) => Passed(i)'
  BY PassedStays, <1>n
<1>1. EarlierPassed'
  BY <1>t, <1>p DEF EarlierPassed
<1>2. LinksHold'
  <2>1. \A i : Link(i) => Link(i)'
    BY LinksStay
  <2>2. (SameOperator(at - 1) => SameOperator(at - 1)')
        /\ (SameOperator(Len(chain)) => SameOperator(Len(chain))')
    BY DEF SameOperator, Level, claims
  <2>3. validateIssuerChain(claims(at), claims(at - 1)) =>
            validateIssuerChain(claims(at), claims(at - 1))'
    BY DEF claims, validateIssuerChain, signingKeys, None
  <2> QED
    BY <1>t, <2>1, <2>2, <2>3 DEF LinksHold
<1>3. TokenInvariant'
  <2>c. claims(at)' = claims(at)
    BY DEF claims
  <2>1. pc = "expiration" => MayBegin(now)'
    <3> SUFFICES ASSUME pc = "expiration" PROVE MayBegin(now)'
      OBVIOUS
    <3>1. MayBegin(now) /\ at \in DOMAIN chain
      BY <1>t DEF TokenInvariant, TokenPhase
    <3>2. claims(at) \in Certificates /\ opts.clockSkewSeconds \in Int64
      BY <3>1, <1>t, ClaimsType, ChainAssumption DEF Options, TypeOK
    <3>3. claims(at).nbf \in Int /\ opts.clockSkewSeconds \in Int
      BY <3>2, IntAssumption DEF Certificates, Int64
    <3> DEFINE c    == claims(at)
               skew == opts.clockSkewSeconds
    <3>a. opts.checkNotBefore => (c.nbf > 0 /\ c.nbf - skew <= MaxInt => c.nbf <= now + skew)
      BY <3>1, <3>2, <1>n, NotBeforeReturns DEF MayBegin
    <3>b. opts.checkNotBefore => (c.nbf > 0 /\ c.nbf - skew <= MaxInt => c.nbf <= now' + skew)
      BY <3>a, <3>3, <1>n
    <3>d. TRUE \in validateNotBefore(c, skew, now') <=>
              (c.nbf > 0 /\ c.nbf - skew <= MaxInt => c.nbf <= now' + skew)
      BY <3>2, NotBeforeReturns
    <3>4. MayBegin(now')
      BY <3>b, <3>d DEF MayBegin
    <3> QED
      BY <3>4, <2>c DEF MayBegin
  <2>2. pc \in {"structure", "decode again"} => (\E t \in since..now : MayBegin(t) /\ MayLast(t))'
    BY <1>t, <1>n, ClocksStay DEF TokenInvariant
  <2>3. /\ pc = "called" => at = 1
        /\ pc \in TokenPhase => at \in DOMAIN chain
        /\ NotYet({"decode"}) => claims(at).decodes
        /\ NotYet({"decode", "verify"}) /\ opts.checkSignature => claims(at).verifies
        /\ pc = "decode again" => claims(at).sound
    BY <1>t DEF TokenInvariant
  <2> QED
    BY <2>1, <2>2, <2>3, <2>c DEF TokenInvariant, NotYet
<1> QED
  BY <1>1, <1>2, <1>3

LEMMA IInvInit == Init => IInv
BY Outside, EmptySeq DEF Init, IInv, TypeOK, PCs

LEMMA IInvStep == IInv /\ [Next]_vars => IInv'
<1> SUFFICES ASSUME IInv, [Next]_vars PROVE IInv'
  OBVIOUS
<1>t. TypeOK'
  BY TypeStep DEF IInv
<1>n. now \in Nat /\ now' \in Nat
  BY <1>t DEF IInv, TypeOK
<1>1. CASE \E c \in Chains, o \in Settings : validateChain(c, o)
  BY <1>1, <1>t DEF validateChain, IInv, TokenInvariant, EarlierPassed, LinksHold, NotYet,
                    TokenPhase, LinkPhase
<1>2. CASE Nonempty \/ Decode \/ Verify \/ NotBefore \/ Expiration \/ Structure
  BY <1>2, <1>t, TokenStep DEF IInv
<1>3. CASE DecodeAgain
  BY <1>3, <1>t, DecodeAgainStep DEF IInv
<1>4. CASE Issuer
  BY <1>4, <1>t, IssuerStep DEF IInv
<1>5. CASE Hierarchy
  BY <1>5, <1>t, HierarchyStep DEF IInv
<1>6. CASE Return
  BY <1>6, <1>t, OutsideNext DEF IInv, Return
<1>7. CASE Tick \/ UNCHANGED vars
  <2>1. UNCHANGED <<chain, opts, since, pc, at>> /\ now <= now'
    BY <1>7, <1>n DEF Tick, vars
  <2> QED
    BY <2>1, <1>t, <1>n, TimePasses DEF IInv
<1> QED
  BY <1>1, <1>2, <1>3, <1>4, <1>5, <1>6, <1>7 DEF Next

(* What the loops of validateChain establish, step by step, for chains of  *)
(* any length.                                                             *)
THEOREM ChainInvariant == Spec => []IInv
BY IInvInit, IInvStep, PTL DEF Spec

(* No token of an accepted chain had expired when the call was made, and   *)
(* none was still to become valid when it returned.                        *)
THEOREM AcceptedChainInTime == Spec => []AcceptedInTime
<1>1. IInv => AcceptedInTime
  <2> SUFFICES ASSUME IInv, pc = "valid", NEW i \in DOMAIN chain
               PROVE  /\ opts.checkExpiration /\ claims(i).exp > 0 =>
                             since <= claims(i).exp + opts.clockSkewSeconds
                      /\ /\ opts.checkNotBefore /\ claims(i).nbf > 0
                         /\ claims(i).nbf - opts.clockSkewSeconds <= MaxInt
                         => claims(i).nbf - opts.clockSkewSeconds <= now
    BY DEF AcceptedInTime
  <2>1. PICK t \in since..now : Abstract!Passes(claims(i), opts, t)
    BY DEF IInv, EarlierPassed, Passed
  <2>2. t \in Int /\ since \in Int /\ now \in Int /\ since <= t /\ t <= now
    BY <2>1 DEF IInv, TypeOK
  <2>3. claims(i).exp \in Int /\ claims(i).nbf \in Int /\ opts.clockSkewSeconds \in Int
    BY ClaimsType, ChainAssumption, IntAssumption
    DEF IInv, TypeOK, Certificates, Options, Int64
  <2> QED
    BY <2>1, <2>2, <2>3 DEF Abstract!Passes
<1> QED
  BY <1>1, ChainInvariant, PTL

(* A chain is accepted only if every token was signed, as it stands, by    *)
(* the issuer it names, and below the first by its parent.                 *)
THEOREM AcceptedChainIsSigned == Spec => []AcceptedIsSigned
<1>1. IInv => AcceptedIsSigned
  <2> SUFFICES ASSUME IInv, pc = "valid", NEW i \in DOMAIN chain
               PROVE  LET t == Wire[chain[i]]
                      IN  /\ t.sig.over.payload = t.payload
                          /\ t.sig.by = t.payload.iss
                          /\ opts.checkIssuerChain /\ i > 1 =>
                                 t.sig.by \in {claims(i - 1).sub} \cup signingKeys(claims(i - 1))
    BY DEF AcceptedIsSigned
  <2> DEFINE t == Wire[chain[i]]
  <2>1. claims(i) = Certificate(t)
    <3>1. chain[i] \in Jwts
      BY ElementOfSeq, LenProperties DEF IInv, TypeOK
    <3> QED
      BY <3>1 DEF claims, Decoded
  <2>2. claims(i).decodes
    BY DEF IInv, EarlierPassed, Passed, Abstract!Passes
  <2>3. decode(t) = "ok" /\ claims(i).iss = t.payload.iss
    <3>1. Certificate(t).decodes
      BY <2>1, <2>2
    <3>2. Certificate(t).decodes => decode(t) = "ok"
      BY DEF Certificate
    <3>3. Certificate(t).iss = t.payload.iss
      BY DEF Certificate
    <3> QED
      BY <2>1, <3>1, <3>2, <3>3
  <2>4. t.sig.by = t.payload.iss /\ t.sig.over.payload = t.payload
    BY <2>3, DecodeShows
  <2>5. ASSUME opts.checkIssuerChain, i > 1
        PROVE  claims(i).iss \in {claims(i - 1).sub} \cup signingKeys(claims(i - 1))
    <3>1. i \in 2..Len(chain)
      BY <2>5, LenProperties DEF IInv, TypeOK
    <3>2. Link(i)
      BY <3>1, <2>5 DEF IInv, LinksHold
    <3>3. signingKeys(claims(i - 1)) = Abstract!signingKeys(claims(i - 1))
      BY DEF signingKeys, Abstract!signingKeys
    <3> QED
      BY <3>2, <3>3 DEF Link, Abstract!Vouched
  <2> QED
    BY <2>3, <2>4, <2>5
<1> QED
  BY <1>1, ChainInvariant, PTL

(* The levels of an accepted chain descend from operators over at most one *)
(* account to at most one user.                                            *)
THEOREM AcceptedChainDescends == Spec => []AcceptedDescends
<1>1. IInv => AcceptedDescends
  <2> SUFFICES ASSUME IInv, pc = "valid", opts.checkIssuerChain, Len(chain) > 1
               PROVE  AcceptedDescends
    BY DEF AcceptedDescends
  <2> DEFINE N == Len(chain)
  <2>n. N \in Nat /\ N > 1
    BY LenProperties DEF IInv, TypeOK
  <2>1. SameOperator(N) /\ \A i \in 2..N : Link(i)
    BY DEF IInv, LinksHold
  <2>2. ASSUME NEW i \in 2..N
        PROVE  /\ Prefix[claims(i).iss] = Level(i - 1)
               /\ <<Level(i - 1), Level(i)>> \in {<<"O", "O">>, <<"O", "A">>, <<"A", "U">>}
    BY <2>1, <2>2 DEF Link, Level, Abstract!Vouched, Abstract!Above
  <2>3. ASSUME NEW i \in 1..N PROVE Level(i) \in {"O", "A", "U"} /\ (Level(i) = "U" => i = N)
    <3>1. CASE i = N
      BY <3>1, <2>2, <2>n
    <3>2. CASE i # N
      <4>1. i + 1 \in 2..N /\ (i + 1) - 1 = i
        BY <3>2, <2>n
      <4>2. <<Level((i + 1) - 1), Level(i + 1)>> \in {<<"O", "O">>, <<"O", "A">>, <<"A", "U">>}
        BY <4>1, <2>2
      <4> QED
        BY <4>1, <4>2
    <3> QED
      BY <3>1, <3>2
  <2>4. ASSUME NEW i \in 1..N, NEW j \in 1..N, i < j, Level(i) = "A"
        PROVE  j = N /\ Level(j) = "U"
    <3>1. i + 1 \in 2..N /\ (i + 1) - 1 = i
      BY <2>4, <2>n
    <3>2. <<Level((i + 1) - 1), Level(i + 1)>> \in {<<"O", "O">>, <<"O", "A">>, <<"A", "U">>}
      BY <3>1, <2>2
    <3>3. Level(i + 1) = "U"
      BY <2>4, <3>1, <3>2
    <3>4. i + 1 = N
      BY <3>1, <3>3, <2>3, <2>n
    <3> QED
      BY <2>4, <3>3, <3>4
  <2> QED
    BY <2>1, <2>2, <2>3, <2>4 DEF AcceptedDescends
<1> QED
  BY <1>1, ChainInvariant, PTL

-----------------------------------------------------------------------------
(* The refinement: what TrustChain sees of a call.                         *)
Question == [chain |-> [i \in DOMAIN chain |-> claims(i)], opts |-> opts, since |-> since]

Answer == CASE pc = "idle"    -> "none"
            [] pc = "valid"   -> "valid"
            [] pc = "invalid" -> "invalid"
            [] OTHER          -> "pending"

LEMMA QuestionShape ==
    ASSUME TypeOK
    PROVE  /\ Len(Question.chain) = Len(chain) /\ DOMAIN Question.chain = DOMAIN chain
           /\ \A i \in DOMAIN chain : Question.chain[i] = claims(i)
           /\ DOMAIN chain = 1..Len(chain) /\ Len(chain) \in Nat
<1> DEFINE C == Question.chain
<1>1. DOMAIN chain = 1..Len(chain) /\ Len(chain) \in Nat
  BY LenProperties DEF TypeOK
<1>2. C \in [1..Len(chain) -> Certificates]
  BY <1>1, ClaimsType DEF Question
<1>3. C \in Seq(Certificates)
  BY <1>1, <1>2, SeqDef
<1>4. DOMAIN C = 1..Len(C) /\ Len(C) \in Nat
  BY <1>3, LenProperties
<1>5. 1..Len(C) = 1..Len(chain)
  BY <1>2, <1>4
<1>6. Len(C) = Len(chain)
  BY <1>1, <1>4, <1>5
<1> QED
  BY <1>1, <1>6 DEF Question

(* A call goes wrong only for a reason TrustChain knows, ...               *)
LEMMA RefusedForCause ==
    ASSUME IInv, pc \notin {"idle", "valid", "invalid"}, pc' = "invalid", [Next]_vars
    PROVE  /\ UNCHANGED <<now, chain, opts, since>>
           /\ \/ chain = <<>>
              \/ \E i \in DOMAIN chain : \E t \in since..now : ~Abstract!Passes(claims(i), opts, t)
              \/ \E i \in DOMAIN chain : Abstract!Overflows(claims(i), opts)
              \/ opts.checkIssuerChain /\ \E i \in 2..Len(chain) : ~Link(i)
<1>t. TypeOK /\ TokenInvariant /\ EarlierPassed /\ LinksHold
  BY DEF IInv
<1>n. now \in since..now /\ now \in Nat /\ opts \in Options
  BY <1>t, ChainAssumption DEF TypeOK
<1>1. UNCHANGED <<now, chain, opts, since>>
  BY DEF Next, vars, validateChain, Nonempty, Decode, Verify, NotBefore, Expiration, Structure,
         DecodeAgain, Issuer, Hierarchy, Return, Tick, Check
<1>2. CASE Nonempty
  BY <1>1, <1>2 DEF Nonempty, Check
<1>3. CASE Decode \/ Verify \/ NotBefore \/ Expiration \/ Structure \/ DecodeAgain
  <2>1. at \in DOMAIN chain
    BY <1>3, <1>t DEF TokenInvariant, TokenPhase, Decode, Verify, NotBefore, Expiration,
                      Structure, DecodeAgain, Check
  <2>2. claims(at) \in Certificates /\ (claims(at).decodes => Decodable(claims(at)))
    BY <2>1, <1>t, ClaimsType
  <2>3. CASE Decode \/ Verify
    <3>1. ~Abstract!Passes(claims(at), opts, now)
      BY <2>3, <2>2, <1>n, PassesWhen DEF Decode, Verify, Check
    <3> QED
      BY <3>1, <2>1, <1>n, <1>1
  <2>6. CASE NotBefore \/ Expiration
    <3>1. \/ /\ opts.checkNotBefore
             /\ FALSE \in validateNotBefore(claims(at), opts.clockSkewSeconds, now)
          \/ /\ opts.checkExpiration
             /\ FALSE \in validateExpiration(claims(at), opts.clockSkewSeconds, now)
      <4>1. ASSUME NotBefore
            PROVE  /\ opts.checkNotBefore
                   /\ FALSE \in validateNotBefore(claims(at), opts.clockSkewSeconds, now)
        <5>1. PICK inTime \in validateNotBefore(claims(at), opts.clockSkewSeconds, now) :
                  Check("not before", opts.checkNotBefore => inTime, "expiration")
          BY <4>1 DEF NotBefore
        <5>2. opts.checkNotBefore /\ ~inTime
          BY <5>1 DEF Check
        <5>3. inTime \in BOOLEAN
          BY <5>1 DEF validateNotBefore
        <5> QED
          BY <5>1, <5>2, <5>3
      <4>2. ASSUME Expiration
            PROVE  /\ opts.checkExpiration
                   /\ FALSE \in validateExpiration(claims(at), opts.clockSkewSeconds, now)
        <5>1. PICK inTime \in validateExpiration(claims(at), opts.clockSkewSeconds, now) :
                  Check("expiration", opts.checkExpiration => inTime, "structure")
          BY <4>2 DEF Expiration
        <5>2. opts.checkExpiration /\ ~inTime
          BY <5>1 DEF Check
        <5>3. inTime \in BOOLEAN
          BY <5>1 DEF validateExpiration
        <5> QED
          BY <5>1, <5>2, <5>3
      <4> QED
        BY <2>6, <4>1, <4>2
    <3>2. ~Abstract!Passes(claims(at), opts, now) \/ Abstract!Overflows(claims(at), opts)
      BY <3>1, <2>2, <1>n, FailsWhen
    <3> QED
      BY <3>2, <2>1, <1>n, <1>1
  <2>4. CASE Structure
    <3>1. claims(at).decodes
      BY <2>4, <1>t DEF TokenInvariant, NotYet, TokenPhase, Structure, Check
    <3>2. ~claims(at).sound
      BY <3>1, <2>2, <2>4 DEF Structure, Check, Decodable
    <3>3. ~Abstract!Passes(claims(at), opts, now)
      BY <3>2, <2>2, <1>n, PassesWhen
    <3> QED
      BY <3>3, <2>1, <1>n, <1>1
  <2>5. CASE DecodeAgain
    <3>1. claims(at).decodes
      BY <2>5, <1>t DEF TokenInvariant, NotYet, TokenPhase, DecodeAgain
    <3> QED
      BY <3>1, <2>5 DEF DecodeAgain
  <2> QED
    BY <1>3, <2>3, <2>4, <2>5, <2>6
<1>4. CASE Issuer \/ Hierarchy
  <2>1. pc \in LinkPhase /\ at \in 2..Len(chain) /\ opts.checkIssuerChain
    BY <1>4, <1>t DEF Issuer, Hierarchy, Check, LinkPhase, LinksHold
  <2>2. at \in 1..Len(chain) /\ at - 1 \in 1..Len(chain)
    BY <2>1, <1>t, LenProperties DEF TypeOK
  <2>3. /\ claims(at) \in Certificates /\ Decodable(claims(at))
        /\ claims(at - 1) \in Certificates /\ Decodable(claims(at - 1))
    BY <2>1, <2>2, <1>t, AllDecodable
  <2>4. ~(validateIssuerChain(claims(at), claims(at - 1))
              /\ validateKeyHierarchy(claims(at), claims(at - 1)))
    BY <1>4 DEF Issuer, Hierarchy, Check
  <2>5. ~Link(at)
    BY <2>3, <2>4, RulesVouch DEF Link
  <2> QED
    BY <2>1, <2>5, <1>1
<1> QED
  BY <1>2, <1>3, <1>4 DEF Next, vars, validateChain, Return, Tick

(* ... and what may change in a step, as TrustChain sees it.               *)
LEMMA AnswerStep ==
    ASSUME IInv, [Next]_vars
    PROVE  \/ UNCHANGED <<chain, opts, since>> /\ Answer' = Answer /\ (now' = now \/ now' = now + 1)
           \/ /\ pc = "idle" /\ pc' = "called" /\ since' = now /\ UNCHANGED now
           \/ /\ pc \in {"valid", "invalid"} /\ pc' = "idle" /\ UNCHANGED now
           \/ /\ pc \notin {"idle", "valid", "invalid"} /\ pc' \in {"valid", "invalid"}
              /\ UNCHANGED <<now, chain, opts, since>>
BY DEF Next, vars, validateChain, Nonempty, Decode, Verify, NotBefore, Expiration, Structure,
       DecodeAgain, Issuer, Hierarchy, Return, Tick, Check, Answer

(* validateChain, its clock reads spread over the call, accepts and        *)
(* refuses as TrustChain allows.                                           *)
THEOREM ChainImplementsTrust == Spec => ImplementsTrust
<1>1. Init => Abstract!Init
  BY DEF Init, Abstract!Init
<1>2. IInv /\ [Next]_vars => [Abstract!Next]_(Abstract!tvars)
  <2> SUFFICES ASSUME IInv, [Next]_vars PROVE [Abstract!Next]_(Abstract!tvars)
    OBVIOUS
  <2>1. CASE UNCHANGED <<chain, opts, since>> /\ Answer' = Answer
                 /\ (now' = now \/ now' = now + 1)
    <3>1. Question' = Question
      BY <2>1 DEF Question, claims
    <3> QED
      BY <2>1, <3>1 DEF Question, Answer, Abstract!Next, Abstract!Tick, Abstract!tvars
  <2>2. CASE pc = "idle" /\ pc' = "called" /\ since' = now /\ UNCHANGED now
    <3>1. Abstract!Ask
      BY <2>2 DEF Abstract!Ask
    <3> QED
      BY <3>1 DEF Abstract!Next
  <2>3. CASE pc \in {"valid", "invalid"} /\ pc' = "idle" /\ UNCHANGED now
    <3>1. Abstract!Forget
      BY <2>3 DEF Abstract!Forget
    <3> QED
      BY <3>1 DEF Abstract!Next
  <2>4. CASE /\ pc \notin {"idle", "valid", "invalid"} /\ pc' = "invalid"
             /\ UNCHANGED <<now, chain, opts, since>>
    <3>q. Question' = Question
      BY <2>4 DEF Question, claims
    <3>s. /\ Len(Question.chain) = Len(chain) /\ DOMAIN Question.chain = DOMAIN chain
          /\ \A i \in DOMAIN chain : Question.chain[i] = claims(i)
          /\ DOMAIN chain = 1..Len(chain) /\ Len(chain) \in Nat
      BY QuestionShape DEF IInv
    <3>1. \/ Question.chain = <<>>
          \/ \E i \in DOMAIN Question.chain :
                 \E t \in Question.since..now :
                     ~Abstract!Passes(Question.chain[i], Question.opts, t)
          \/ \E i \in DOMAIN Question.chain : Abstract!Overflows(Question.chain[i], Question.opts)
          \/ ~Abstract!Linked(Question)
      <4>1. CASE chain = <<>>
        <5>1. Question.chain \in Seq(Certificates) /\ Len(Question.chain) = 0
          BY <4>1, <3>s, EmptySeq, SeqDef DEF Question
        <5> QED
          BY <5>1, EmptySeq
      <4>2. CASE \E i \in DOMAIN chain : \E t \in since..now : ~Abstract!Passes(claims(i), opts, t)
        BY <4>2, <3>s DEF Question
      <4>4. CASE \E i \in DOMAIN chain : Abstract!Overflows(claims(i), opts)
        BY <4>4, <3>s DEF Question
      <4>3. CASE opts.checkIssuerChain /\ \E i \in 2..Len(chain) : ~Link(i)
        <5>1. PICK i \in 2..Len(chain) : ~Link(i)
          BY <4>3
        <5>2. Question.chain[i] = claims(i) /\ Question.chain[i - 1] = claims(i - 1)
          BY <5>1, <3>s
        <5> QED
          BY <4>3, <5>1, <5>2, <3>s DEF Abstract!Linked, Link, Question
      <4> QED
        BY <4>1, <4>2, <4>3, <4>4, <2>4, RefusedForCause
    <3>2. Abstract!Refuse
      BY <3>1, <3>q, <2>4 DEF Abstract!Refuse, Question
    <3> QED
      BY <3>2 DEF Abstract!Next
  <2>5. CASE /\ pc \notin {"idle", "valid", "invalid"} /\ pc' = "valid"
             /\ UNCHANGED <<now, chain, opts, since>>
    <3>q. Question' = Question
      BY <2>5 DEF Question, claims
    <3>s. /\ Len(Question.chain) = Len(chain) /\ DOMAIN Question.chain = DOMAIN chain
          /\ \A i \in DOMAIN chain : Question.chain[i] = claims(i)
          /\ DOMAIN chain = 1..Len(chain) /\ Len(chain) \in Nat
      BY QuestionShape DEF IInv
    <3>i. EarlierPassed' /\ LinksHold'
      BY IInvStep DEF IInv
    <3>1. chain # <<>> /\ \A i \in DOMAIN chain : Passed(i)
      BY <3>i, <2>5 DEF EarlierPassed, Passed, claims, Abstract!Passes
    <3>2. opts.checkIssuerChain => \A i \in 2..Len(chain) : Link(i)
      <4>1. opts'.checkIssuerChain => \A i \in 2..Len(chain') : Link(i)'
        BY <3>i, <2>5 DEF LinksHold
      <4>2. ASSUME NEW i PROVE Link(i)' <=> Link(i)
        BY <2>5 DEF Link, claims, Abstract!Vouched, Abstract!Above,
                    Abstract!signingKeys, Abstract!None
      <4> QED
        BY <4>1, <4>2, <2>5
    <3>3. Question.chain # <<>>
      BY <3>1, <3>s, EmptySeq DEF IInv, TypeOK
    <3>4. \A i \in DOMAIN Question.chain :
              \E t \in Question.since..now : Abstract!Passes(Question.chain[i], Question.opts, t)
      BY <3>1, <3>s DEF Passed, Question
    <3>5. Abstract!Linked(Question)
      <4> SUFFICES ASSUME opts.checkIssuerChain, NEW i \in 2..Len(chain)
                   PROVE  Abstract!Vouched(Question.chain[i], Question.chain[i - 1])
        BY <3>s DEF Abstract!Linked, Question
      <4>1. Question.chain[i] = claims(i) /\ Question.chain[i - 1] = claims(i - 1)
        BY <3>s
      <4> QED
        BY <4>1, <3>2 DEF Link
    <3>6. Abstract!Accept
      BY <3>3, <3>4, <3>5, <3>q, <2>5 DEF Abstract!Accept, Question
    <3> QED
      BY <3>6 DEF Abstract!Next
  <2> QED
    BY <2>1, <2>2, <2>3, <2>4, <2>5, AnswerStep
<1> QED
  BY <1>1, <1>2, ChainInvariant, PTL DEF Spec, ImplementsTrust, Abstract!Spec

-----------------------------------------------------------------------------
(* Completeness: a cause for refusal is nothing a rightful chain has, ...  *)
LEMMA RightfulHasNoCause ==
    ASSUME TypeOK, Rightful
    PROVE  /\ chain # <<>>
           /\ \A i \in DOMAIN chain : \A t \in since..now : Abstract!Passes(claims(i), opts, t)
           /\ \A i \in DOMAIN chain : ~Abstract!Overflows(claims(i), opts)
           /\ opts.checkIssuerChain => \A i \in 2..Len(chain) : Link(i)
<1>1. now \in Nat /\ since \in Nat /\ opts.clockSkewSeconds \in Int /\ MaxInt \in Nat
  BY ChainAssumption, IntAssumption DEF TypeOK, Options, Int64
<1>2. ASSUME NEW i \in DOMAIN chain
      PROVE  /\ \A t \in since..now : Abstract!Passes(claims(i), opts, t)
             /\ ~Abstract!Overflows(claims(i), opts)
  <2> DEFINE c == claims(i)
             skew == opts.clockSkewSeconds
  <2>1. c.exp \in Int /\ c.nbf \in Int
    BY ClaimsType DEF Certificates, Int64
  <2>2. /\ c.decodes /\ c.sound
        /\ opts.checkSignature => c.verifies
        /\ opts.checkExpiration /\ c.exp > 0 => c.exp + skew >= now /\ c.exp + skew <= MaxInt
        /\ opts.checkNotBefore /\ c.nbf > 0 => c.nbf - skew <= since /\ c.nbf - skew <= MaxInt
    BY <1>1, <2>1 DEF Rightful, StaysInTime
  <2> HIDE DEF c, skew
  <2>3. ~Abstract!Overflows(c, opts)
    BY <1>1, <2>1, <2>2 DEF Abstract!Overflows, skew
  <2>4. ASSUME NEW t \in since..now PROVE Abstract!Passes(c, opts, t)
    <3>1. t \in Int /\ since <= t /\ t <= now /\ skew \in Int
      BY <1>1 DEF skew
    <3>2. /\ opts.checkNotBefore /\ c.nbf > 0 => c.nbf <= t + skew
          /\ opts.checkExpiration /\ c.exp > 0 => t - skew <= c.exp
      BY <1>1, <2>1, <2>2, <3>1
    <3> QED
      BY <2>2, <3>2 DEF Abstract!Passes, skew
  <2> QED
    BY <2>3, <2>4 DEF c
<1> QED
  BY <1>2 DEF Rightful

(* ... and the passing of time makes no chain rightful.                    *)
LEMMA RightfulWas ==
    ASSUME TypeOK, UNCHANGED <<chain, opts, since>>, now' = now \/ now' = now + 1, Rightful'
    PROVE  Rightful
<1>1. now \in Nat /\ now' \in Nat /\ now <= now' /\ MaxInt \in Nat
      /\ opts.clockSkewSeconds \in Int
  BY ChainAssumption, IntAssumption DEF TypeOK, Options, Int64
<1>2. ASSUME NEW i \in DOMAIN chain, StaysInTime(claims(i))' PROVE StaysInTime(claims(i))
  <2>1. claims(i)' = claims(i) /\ claims(i).exp \in Int
    BY ClaimsType DEF claims, Certificates, Int64
  <2> QED
    BY <1>1, <1>2, <2>1 DEF StaysInTime
<1>3. ASSUME NEW i PROVE Link(i)' <=> Link(i)
  BY DEF Link, claims, Abstract!Vouched, Abstract!Above, Abstract!signingKeys, Abstract!None
<1> QED
  BY <1>2, <1>3 DEF Rightful, claims

(* A chain that deserves to pass is not refused, however the clock runs    *)
(* while it is looked at.                                                  *)
THEOREM RightfulChainsPass == Spec => []RightfulIsNotRefused
<1>1. Init => RightfulIsNotRefused
  BY DEF Init, RightfulIsNotRefused
<1>2. IInv /\ RightfulIsNotRefused /\ [Next]_vars => RightfulIsNotRefused'
  <2> SUFFICES ASSUME IInv, RightfulIsNotRefused, [Next]_vars, Rightful', pc' = "invalid"
               PROVE  FALSE
    BY DEF RightfulIsNotRefused
  <2>t. TypeOK
    BY DEF IInv
  <2>1. CASE UNCHANGED <<chain, opts, since>> /\ Answer' = Answer /\ (now' = now \/ now' = now + 1)
    <3>1. pc = "invalid"
      BY <2>1 DEF Answer
    <3>2. Rightful
      BY <2>1, <2>t, RightfulWas
    <3> QED
      BY <3>1, <3>2 DEF RightfulIsNotRefused
  <2>2. CASE pc \notin {"idle", "valid", "invalid"} /\ UNCHANGED <<now, chain, opts, since>>
    <3>1. Rightful
      BY <2>2, <2>t, RightfulWas
    <3> QED
      BY <2>2, <2>t, <3>1, RightfulHasNoCause, RefusedForCause
  <2> QED
    BY <2>1, <2>2, AnswerStep
<1> QED
  BY <1>1, <1>2, ChainInvariant, PTL DEF Spec

(* The canonical flow: three tokens as encode lays them out, the account   *)
(* issued by the operator or one of its signing keys, the user by the      *)
(* account or one of its signing keys, and without permissions of its own  *)
(* if that key has a scope.                                                *)
Written(t, type) ==
    LET p == t.payload
    IN  /\ t.whole /\ t.head = "ed25519-nkey"
        /\ p.form = "ok" /\ p.top = Absent /\ p.nats = type /\ p.ver = JWT_VERSION /\ p.sound
        /\ checkStructure(type, p.sub, p.iss)
        /\ Verifies(p.iss, HeaderAndPayload(t), t.sig)

Canonical ==
    /\ Len(chain) = 3
    /\ Written(Wire[chain[1]], "operator")
    /\ Written(Wire[chain[2]], "account")
    /\ Written(Wire[chain[3]], "user")
    /\ LET op  == Wire[chain[1]].payload
           acc == Wire[chain[2]].payload
           usr == Wire[chain[3]].payload
       IN  /\ acc.iss \in {op.sub} \cup {k \in op.keys : KindOf[k] = "O"}
           /\ usr.iss \in {acc.sub} \cup acc.keys
           /\ usr.issuerAccount \in {None, acc.sub}
           /\ usr.permissions => usr.iss \notin acc.scoped
    /\ \A i \in 1..3 : StaysInTime(claims(i))

LEMMA WrittenIsCertified ==
    ASSUME NEW t, NEW type \in TypedClaims, Written(t, type)
    PROVE  LET c == Certificate(t)
           IN  /\ c.decodes /\ c.verifies /\ c.sound
               /\ c.type = type /\ c.sub = t.payload.sub /\ c.iss = t.payload.iss
               /\ c.keys = t.payload.keys /\ c.scoped = t.payload.scoped
               /\ c.issuerAccount = t.payload.issuerAccount
               /\ c.permissions = t.payload.permissions
<1>1. decode(t) = "ok" /\ verify(t) /\ DecodedAs(t.payload) = type
  BY WrittenIsRead DEF Written
<1> QED
  BY <1>1 DEF Certificate, Written

LEMMA CanonicalIsRightful == ASSUME TypeOK, Canonical PROVE Rightful
<1> DEFINE root == Wire[chain[1]]
           middle == Wire[chain[2]]
           leaf == Wire[chain[3]]
<1>l. Len(chain) = 3 /\ chain \in Seq(Jwts)
  BY DEF TypeOK, Canonical
<1>c. /\ Written(root, "operator") /\ Written(middle, "account") /\ Written(leaf, "user")
      /\ middle.payload.iss \in {root.payload.sub} \cup {k \in root.payload.keys : KindOf[k] = "O"}
      /\ leaf.payload.iss \in {middle.payload.sub} \cup middle.payload.keys
      /\ leaf.payload.issuerAccount \in {None, middle.payload.sub}
      /\ leaf.payload.permissions => leaf.payload.iss \notin middle.payload.scoped
      /\ \A i \in 1..3 : StaysInTime(claims(i))
  BY DEF Canonical
<1>1. DOMAIN chain = 1..3 /\ chain # <<>>
  BY <1>l, LenProperties, EmptySeq
<1> DEFINE op  == claims(1)
           acc == claims(2)
           usr == claims(3)
<1>2. op = Certificate(root) /\ acc = Certificate(middle) /\ usr = Certificate(leaf)
  <2>0. \A i \in 1..3 : chain[i] \in Jwts
    BY <1>l, ElementOfSeq
  <2>1. chain[1] \in Jwts /\ chain[2] \in Jwts /\ chain[3] \in Jwts
    BY <2>0
  <2> QED
    BY <2>1 DEF claims, Decoded
<1>3. "operator" \in TypedClaims /\ "account" \in TypedClaims /\ "user" \in TypedClaims
  BY DEF TypedClaims
<1> HIDE DEF root, middle, leaf, op, acc, usr
<1>4. /\ op.decodes /\ op.verifies /\ op.sound /\ op.type = "operator"
      /\ op.sub = root.payload.sub /\ op.keys = root.payload.keys
  BY <1>c, <1>2, <1>3, WrittenIsCertified
<1>a. /\ acc.decodes /\ acc.verifies /\ acc.sound /\ acc.type = "account"
      /\ acc.sub = middle.payload.sub /\ acc.keys = middle.payload.keys
      /\ acc.iss = middle.payload.iss /\ acc.scoped = middle.payload.scoped
  BY <1>c, <1>2, <1>3, WrittenIsCertified
<1>u. /\ usr.decodes /\ usr.verifies /\ usr.sound /\ usr.type = "user"
      /\ usr.iss = leaf.payload.iss /\ usr.issuerAccount = leaf.payload.issuerAccount
      /\ usr.permissions = leaf.payload.permissions
  BY <1>c, <1>2, <1>3, WrittenIsCertified
<1>i. /\ acc.iss \in {op.sub} \cup {k \in op.keys : KindOf[k] = "O"}
      /\ usr.iss \in {acc.sub} \cup acc.keys
      /\ usr.issuerAccount \in {None, acc.sub}
      /\ usr.permissions => usr.iss \notin acc.scoped
  BY <1>c, <1>4, <1>a, <1>u
<1>5. op \in Certificates /\ acc \in Certificates /\ usr \in Certificates
      /\ Decodable(op) /\ Decodable(acc) /\ Decodable(usr)
  BY <1>1, <1>4, <1>a, <1>u, ClaimsType DEF op, acc, usr
<1>6. /\ KindOf[op.sub] = "O" /\ KindOf[acc.sub] = "A" /\ KindOf[usr.sub] = "U"
      /\ KindOf[acc.iss] = "O" /\ KindOf[usr.iss] = "A"
  BY <1>4, <1>a, <1>u, <1>i, <1>5 DEF Decodable, checkStructure, checkSubjectKind, SubjectKinds, checkIssuerKind,
                    IssuerKinds
<1>7. /\ Prefix[op.sub] = "O" /\ Prefix[acc.sub] = "A" /\ Prefix[usr.sub] = "U"
      /\ Prefix[acc.iss] = "O" /\ Prefix[usr.iss] = "A"
  <2>1. /\ op.sub \in Names /\ acc.sub \in Names /\ usr.sub \in Names
        /\ acc.iss \in Names /\ usr.iss \in Names
    BY <1>5 DEF Certificates
  <2>2. /\ op.sub \in Keys /\ acc.sub \in Keys /\ usr.sub \in Keys
        /\ acc.iss \in Keys /\ usr.iss \in Keys
    BY <1>6, <2>1 DEF Keys
  <2> QED
    BY <1>6, <2>2, PrefixAssumption
<1>8. Abstract!Vouched(acc, op) /\ Abstract!Vouched(usr, acc)
  BY <1>4, <1>a, <1>u, <1>i, <1>7 DEF Abstract!Vouched, Abstract!signingKeys, Abstract!Above, Abstract!None, None
<1>9. \A i \in 2..Len(chain) : Link(i)
  <2>1. Link(2) /\ Link(3)
    BY <1>8 DEF Link, op, acc, usr
  <2>2. \A i \in 2..Len(chain) : i = 2 \/ i = 3
    BY <1>l
  <2> QED
    BY <2>1, <2>2
<1>10. \A i \in DOMAIN chain : claims(i).decodes /\ claims(i).verifies /\ claims(i).sound
  BY <1>1, <1>4, <1>a, <1>u DEF op, acc, usr
<1> QED
  BY <1>1, <1>9, <1>10, <1>c DEF Rightful

(* What this library encodes in the canonical flow it does not refuse,     *)
(* whatever the options: an operator, its account and the account's user,  *)
(* by identity or signing keys, while they are in time (validation.cpp,    *)
(* validateIssuerChain: "the very setup the Go README demonstrates").      *)
THEOREM CanonicalFlowPasses == Spec => [](Canonical => pc # "invalid")
<1>1. TypeOK /\ RightfulIsNotRefused => (Canonical => pc # "invalid")
  BY CanonicalIsRightful DEF RightfulIsNotRefused
<1> QED
  BY <1>1, TypeCorrect, RightfulChainsPass, PTL

=============================================================================
