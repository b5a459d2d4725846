----------------------------- MODULE AccountBody -----------------------------
(***************************************************************************)
(* The body of an account: AccountClaims in memory, the nats object of a   *)
(* token on the wire, and the way between them.  Administrators hold       *)
(* objects that they construct or decode, change them through setters and  *)
(* mutable accessors, and encode them; the newest token is the published   *)
(* one.  A decoded object carries the nats object it came from (natsRaw_), *)
(* and encode writes the typed fields over it: a field written only when   *)
(* it is set must be erased when it is not, or the old value comes back.   *)
(*                                                                         *)
(* limit stands for every numeric limit, with the count rules of exports   *)
(* and of imports, of which a field in Imports holds one; optional for the *)
(* fields that are written or erased (mappings, imports, description,      *)
(* info_url, tags); always for those written even when empty               *)
(* (default_permissions, authorization).  Wrong JSON types, which decode   *)
(* refuses, are left out.                                                  *)
(***************************************************************************)
EXTENDS Integers, FiniteSets

CONSTANTS Admins,
          SigningKeys, ValidKeys,  \* what is listed as signing key; the account public keys
          Users, RevokeAll,        \* public user keys, and "*"
          Tiers, BlankTier,        \* names in tiered_limits, and ""
          Exports, Wildcards,      \* exports, and those whose subject has a wildcard
          Overlapping,             \* sets of exports with a blocking issue among them
          Optional, Always,        \* fields of either kind
          Imports,                 \* the optional fields that hold an import
          Data, Unsound,           \* their values, and those that have a blocking issue
          Limits, Times,           \* bounds: the numbers that limits and revocations take
          Foreign,                 \* nats objects that another program has signed
          MaxEdits,                \* bound: setter calls
          Absent, NoDoc            \* a key that is not there; nothing published yet

RevKeys == Users \cup {RevokeAll}
Maybe(S) == S \cup {Absent}

(* The nats object.  Absent and empty objects read the same everywhere.    *)
(* unmodelled is a key the library has no field for, at the top or inside  *)
(* an object (limits, a scope, an export, ...) that encode writes anew.    *)
Places == {"top", "inside"}
Entries == [key : SigningKeys, kind : {"plain", "user_scope", "other"}, limit : Maybe(Limits)]
Docs == [limit : Maybe(Limits), wildcards : BOOLEAN, jetStream : Maybe(Limits),
         tiers : SUBSET Tiers, signing_keys : SUBSET Entries,
         revocations : [RevKeys -> Maybe(Times)], exports : SUBSET Exports,
         optional : [Optional -> Maybe(Data)], always : [Always -> Maybe(Data)],
         unmodelled : [Places -> Maybe(Data)]]

EmptyDoc == [limit |-> Absent, wildcards |-> FALSE, jetStream |-> Absent, tiers |-> {},
             signing_keys |-> {}, revocations |-> [k \in RevKeys |-> Absent], exports |-> {},
             optional |-> [f \in Optional |-> Absent], always |-> [f \in Always |-> Absent],
             unmodelled |-> [p \in Places |-> Absent]]

(* AccountClaims::Impl.  scopes[k] is the limit of the template of k's     *)
(* scope; signingKeys_ is a set, since encode sorts it and nobody counts.  *)
Accounts == [limit : Limits, wildcards : BOOLEAN, jetStream : Limits, tiers : SUBSET Tiers,
             signingKeys : SUBSET SigningKeys, scopes : [SigningKeys -> Maybe(Limits)],
             revocations : [RevKeys -> Maybe(Times)], exports : SUBSET Exports,
             optional : [Optional -> Maybe(Data)], always : [Always -> Maybe(Data)],
             natsRaw : Docs]

Fresh == [limit |-> -1, wildcards |-> TRUE, jetStream |-> 0, tiers |-> {},
          signingKeys |-> {}, scopes |-> [k \in SigningKeys |-> Absent],
          revocations |-> [k \in RevKeys |-> Absent], exports |-> {},
          optional |-> [f \in Optional |-> Absent], always |-> [f \in Always |-> Absent],
          natsRaw |-> EmptyDoc]

-----------------------------------------------------------------------------
(* decodeAccountClaims.  An absent account limit is zero, an absent limit  *)
(* of a scope template is no limit, and tiers put out the flat JetStream   *)
(* limits.                                                                 *)
OrElse(v, default) == IF v = Absent THEN default ELSE v

Decodable(w) == \A e \in w.signing_keys : e.kind # "other"

ScopesOf(w, k) == {e \in w.signing_keys : e.key = k /\ e.kind = "user_scope"}

userScopeFromJson(w, k) ==
    IF ScopesOf(w, k) = {} THEN Absent
    ELSE OrElse((CHOOSE e \in ScopesOf(w, k) : TRUE).limit, -1)

(* Mutant of FlatJetStream: flat limits stay beside tiers.                 *)
FlatBesideTiers(w) == OrElse(w.jetStream, 0)

FlatJetStream(w) == IF w.tiers # {} THEN 0 ELSE OrElse(w.jetStream, 0)

Read(w) == [limit |-> OrElse(w.limit, 0), wildcards |-> w.wildcards,
            jetStream |-> FlatJetStream(w), tiers |-> w.tiers,
            signingKeys |-> {e.key : e \in w.signing_keys},
            scopes |-> [k \in SigningKeys |-> userScopeFromJson(w, k)],
            revocations |-> w.revocations, exports |-> w.exports,
            optional |-> w.optional, always |-> w.always, natsRaw |-> w]

(* The nats object that encodeWithSigner builds over the carried one: what *)
(* is empty is left out of objects written anew and erased from carried    *)
(* ones.  Absent is either.                                                *)
OmitZero(n) == IF n = 0 THEN Absent ELSE n

Entry(o, k) == IF o.scopes[k] = Absent
               THEN [key |-> k, kind |-> "plain", limit |-> Absent]
               ELSE [key |-> k, kind |-> "user_scope", limit |-> OmitZero(o.scopes[k])]

(* What of the carried object shows through: keys no typed field covers.   *)
Carried(o) == [p \in Places |-> IF p = "top" THEN o.natsRaw.unmodelled[p] ELSE Absent]

(* Mutant of Write: a field emptied since decoding is not erased.          *)
WriteWithoutErase(o) ==
    [limit |-> OmitZero(o.limit), wildcards |-> o.wildcards,
     jetStream |-> OmitZero(o.jetStream), tiers |-> o.tiers,
     signing_keys |-> {Entry(o, k) : k \in o.signingKeys},
     revocations |-> o.revocations, exports |-> o.exports,
     optional |-> [f \in Optional |-> OrElse(o.optional[f], o.natsRaw.optional[f])],
     always |-> o.always, unmodelled |-> Carried(o)]

Write(o) == [limit |-> OmitZero(o.limit), wildcards |-> o.wildcards,
             jetStream |-> OmitZero(o.jetStream), tiers |-> o.tiers,
             signing_keys |-> {Entry(o, k) : k \in o.signingKeys},
             revocations |-> o.revocations, exports |-> o.exports,
             optional |-> o.optional, always |-> o.always, unmodelled |-> Carried(o)]

(* The rules, by the functions that enforce them: tiers; exports, imports   *)
(* and the other optional fields; authorization and default permissions.   *)
validateAccountConfig(o) ==
    o.tiers # {} => o.jetStream = 0 /\ BlankTier \notin o.tiers

validateExportsImports(o) == /\ o.exports \notin Overlapping
                             /\ \A f \in Optional : o.optional[f] \notin Unsound

validateExternalAuthorization(o) == \A f \in Always : o.always[f] \notin Unsound

ImportsOf(o) == {f \in Imports : o.optional[f] # Absent}

(* validate(), enforced by encode and never by decode.                     *)
Valid(o) ==
    /\ validateAccountConfig(o)
    /\ validateExportsImports(o)
    /\ validateExternalAuthorization(o)
    /\ o.limit # -1 => /\ Cardinality(ImportsOf(o)) <= o.limit
                       /\ Cardinality(o.exports) <= o.limit
                       /\ o.wildcards \/ o.exports \cap Wildcards = {}
    /\ o.signingKeys \subseteq ValidKeys

(* isRevoked                                                               *)
Refused(revocations, pubKey, claimIssuedAt) ==
    \E k \in {pubKey, RevokeAll} :
        revocations[k] # Absent /\ revocations[k] >= claimIssuedAt

ASSUME AccountAssumption ==
    /\ Limits \subseteq Int /\ {-1, 0} \subseteq Limits
    /\ Times \subseteq Int
    /\ Absent \notin Int /\ Absent \notin Data
    /\ NoDoc \notin Docs
    /\ Imports \subseteq Optional
    /\ Foreign \subseteq Docs
    /\ MaxEdits \in Nat

(* A token lists a key once and omits zero limits from templates.          *)
Canonical(w) == /\ \A d, e \in w.signing_keys : d.key = e.key => d = e
                /\ \A e \in w.signing_keys : e.limit # 0

(* Foreign tokens do, and they keep the rules, except that they may have   *)
(* flat limits beside tiers, which their readers ignore.                   *)
ASSUME ForeignAssumption ==
    \A w \in Foreign : /\ Canonical(w)
                       /\ Decodable(w) => Valid([Read(w) EXCEPT !.jetStream = 0])

-----------------------------------------------------------------------------
(* current[a]: a's object started from what is published now; cleared[a]:  *)
(* the revocations a has cleared since then.  Both are history, which no   *)
(* action reads.                                                           *)
VARIABLES acct, published, edits, current, cleared

vars == <<acct, published, edits, current, cleared>>
history == <<current, cleared>>

Init == /\ acct = [a \in Admins |-> Fresh]
        /\ published \in Foreign \cup {NoDoc}
        /\ edits = 0
        /\ current = [a \in Admins |-> FALSE]
        /\ cleared = [a \in Admins |-> {}]

Edited(a, o) == /\ edits < MaxEdits
                /\ edits' = edits + 1
                /\ acct' = [acct EXCEPT ![a] = o]
                /\ published' = published

(* limits(), mappings(), imports(), tags(), setDescription, authorization()*)
(* and so on: fields are assigned in place, one at a time.                 *)
setLimit(a) == \E n \in Limits \ {acct[a].limit} :
                   Edited(a, [acct[a] EXCEPT !.limit = n]) /\ UNCHANGED history
setWildcards(a) == /\ Edited(a, [acct[a] EXCEPT !.wildcards = ~@])
                   /\ UNCHANGED history
setJetStream(a) == \E n \in Limits \ {acct[a].jetStream} :
                       Edited(a, [acct[a] EXCEPT !.jetStream = n]) /\ UNCHANGED history
setTiers(a) == \E T \in SUBSET Tiers \ {acct[a].tiers} :
                   Edited(a, [acct[a] EXCEPT !.tiers = T]) /\ UNCHANGED history
setExports(a) == \E E \in SUBSET Exports \ {acct[a].exports} :
                     Edited(a, [acct[a] EXCEPT !.exports = E]) /\ UNCHANGED history
setOptional(a) == \E f \in Optional, v \in Maybe(Data) :
                      /\ v # acct[a].optional[f]
                      /\ Edited(a, [acct[a] EXCEPT !.optional[f] = v])
                      /\ UNCHANGED history
setAlways(a) == \E f \in Always, v \in Maybe(Data) :
                    /\ v # acct[a].always[f]
                    /\ Edited(a, [acct[a] EXCEPT !.always[f] = v])
                    /\ UNCHANGED history

addSigningKey(a) == \E k \in SigningKeys :
                        /\ Edited(a, [acct[a] EXCEPT !.signingKeys = @ \cup {k}])
                        /\ UNCHANGED history

(* Mutant of setScope: the key has to be listed by hand.                   *)
SetScopeOnly(a) == \E k \in SigningKeys, n \in Limits :
                       /\ Edited(a, [acct[a] EXCEPT !.scopes[k] = n])
                       /\ UNCHANGED history

(* A scope for a key, which is listed if it was not.                       *)
setScope(a) == \E k \in SigningKeys, n \in Limits :
                   /\ Edited(a, [acct[a] EXCEPT !.signingKeys = @ \cup {k},
                                                !.scopes[k] = n])
                   /\ UNCHANGED history

(* Mutant of revokeAt: the last call counts, not the newest revocation.    *)
RevokeAtAnyTime(a) == \E k \in RevKeys, t \in Times :
                          /\ Edited(a, [acct[a] EXCEPT !.revocations[k] = t])
                          /\ UNCHANGED history

(* revoke is revokeAt of the present; a newer revocation is kept.          *)
revokeAt(a) == \E k \in RevKeys, t \in Times :
                   /\ ~(acct[a].revocations[k] # Absent /\ acct[a].revocations[k] > t)
                   /\ Edited(a, [acct[a] EXCEPT !.revocations[k] = t])
                   /\ UNCHANGED history

(* Mutant of clearRevocation: the entry stays, at time 0.                  *)
ClearToZero(a) == \E k \in RevKeys :
                      /\ Edited(a, [acct[a] EXCEPT !.revocations[k] = 0])
                      /\ cleared' = [cleared EXCEPT ![a] = @ \cup {k}]
                      /\ UNCHANGED current

clearRevocation(a) == \E k \in RevKeys :
                          /\ Edited(a, [acct[a] EXCEPT !.revocations[k] = Absent])
                          /\ cleared' = [cleared EXCEPT ![a] = @ \cup {k}]
                          /\ UNCHANGED current

(* The constructor, decodeAccountClaims, and encode, which throws unless   *)
(* the object is valid.                                                    *)
construct(a) == /\ acct' = [acct EXCEPT ![a] = Fresh]
                /\ current' = [current EXCEPT ![a] = FALSE]
                /\ cleared' = [cleared EXCEPT ![a] = {}]
                /\ UNCHANGED <<published, edits>>

decode(a) == /\ published # NoDoc
             /\ Decodable(published)
             /\ acct' = [acct EXCEPT ![a] = Read(published)]
             /\ current' = [current EXCEPT ![a] = TRUE]
             /\ cleared' = [cleared EXCEPT ![a] = {}]
             /\ UNCHANGED <<published, edits>>

encode(a) == /\ Valid(acct[a])
             /\ published' = Write(acct[a])
             /\ current' = [b \in Admins |-> b = a]
             /\ cleared' = [cleared EXCEPT ![a] = {}]
             /\ UNCHANGED <<acct, edits>>

Edit(a) == \/ setLimit(a) \/ setWildcards(a) \/ setJetStream(a) \/ setTiers(a)
           \/ setExports(a) \/ setOptional(a) \/ setAlways(a)
           \/ addSigningKey(a) \/ setScope(a) \/ revokeAt(a) \/ clearRevocation(a)

Next == \E a \in Admins : Edit(a) \/ construct(a) \/ decode(a) \/ encode(a)

Spec == Init /\ [][Next]_vars

-----------------------------------------------------------------------------
(* Everything has its type.                                                *)
TypeOK == /\ acct \in [Admins -> Accounts]
          /\ published \in Docs \cup {NoDoc}
          /\ edits \in 0..MaxEdits
          /\ current \in [Admins -> BOOLEAN]
          /\ cleared \in [Admins -> SUBSET RevKeys]

(* A scope without its key in signingKeys_ would not be written at all, and*)
(* users issued by that key would be judged by no template: setScope and   *)
(* decode keep the two in step.                                            *)
ScopesAreListed == \A a \in Admins, k \in SigningKeys :
                       acct[a].scopes[k] # Absent => k \in acct[a].signingKeys

(* A's object, if made from the published token, refuses what that refuses,*)
(* unless a has cleared it.                                                *)
Lost(o, w) == {r \in Users \X Times : /\ Refused(w.revocations, r[1], r[2])
                                      /\ ~Refused(o.revocations, r[1], r[2])}
KeepsPublished == \A a \in Admins : current[a] =>
    /\ published # NoDoc
    /\ \A r \in Lost(acct[a], published) : \E k \in cleared[a] : k \in {r[1], RevokeAll}

(* The invariant the proofs rest on.                                       *)
IInv == /\ published # NoDoc => Canonical(published)
        /\ ScopesAreListed
        /\ KeepsPublished

(* What is published can be decoded and signed again as it is, although    *)
(* encode enforces rules that decode does not: flat JetStream limits beside*)
(* tiers are put out on the way in (account_claims.cpp:89-92).             *)
AlwaysResignable == published # NoDoc /\ Decodable(published) => Valid(Read(published))

(* The published token keeps refusing what it refused, through any number  *)
(* of decodes, edits and encodes, until somebody clears the entry; provided*)
(* that the token replacing it was made from it and not from an older one. *)
PublishedRevocationsLast ==
    [][\A a \in Admins : encode(a) /\ current[a] =>
           \A u \in Users, t \in Times :
               Refused(published.revocations, u, t)
                   => \/ Refused(published'.revocations, u, t)
                      \/ \E k \in cleared[a] : k \in {u, RevokeAll}]_vars

(* The token means what the object meant, the object means what the token  *)
(* means, a setter changes what it is named for and a new object has the   *)
(* constructor's defaults (AccountPolicy).  A template is judged as it is  *)
(* on the wire, where a zero limit is none: that difference is for         *)
(* TemplatesSurvive.                                                       *)
Unlimited(n) == IF n = 0 THEN -1 ELSE n

PolicyOf(o) == [limit |-> o.limit, wildcards |-> o.wildcards, jetStream |-> o.jetStream,
                tiers |-> o.tiers,
                signers |-> [listed |-> o.signingKeys,
                             template |-> [k \in SigningKeys |-> Unlimited(o.scopes[k])]],
                revocations |-> o.revocations, exports |-> o.exports,
                optional |-> o.optional, always |-> o.always,
                extra |-> o.natsRaw.unmodelled["top"]]

(* What a server reads in a token: absent account limits are zero, absent  *)
(* limits of a template are none, and tiers replace flat limits.           *)
Enforced(w) == [limit |-> OrElse(w.limit, 0), wildcards |-> w.wildcards,
                jetStream |-> IF w.tiers = {} THEN OrElse(w.jetStream, 0) ELSE 0,
                tiers |-> w.tiers,
                signers |-> [listed |-> {e.key : e \in w.signing_keys},
                             template |-> [k \in SigningKeys |-> userScopeFromJson(w, k)]],
                revocations |-> w.revocations, exports |-> w.exports,
                optional |-> w.optional, always |-> w.always,
                extra |-> w.unmodelled["top"]]

Policy == INSTANCE AccountPolicy WITH
              New <- PolicyOf(Fresh),
              published <- IF published = NoDoc THEN {} ELSE {Enforced(published)},
              draft <- [a \in Admins |-> PolicyOf(acct[a])]

ImplementsPolicy == Policy!Spec

(* README.md:208-210: "re-signing never drops or resets fields this port   *)
(* doesn't model".                                                         *)
UnmodelledSurvives ==
    [][\A a \in Admins : encode(a) /\ current[a]
           => published'.unmodelled = published.unmodelled]_vars

(* permissions.hpp:38-39: a limit of 0 "is OMITTED on the wire, and        *)
(* nats-server treats absent as zero"; so a template that denies comes back*)
(* as one that denies.                                                     *)
TemplatesSurvive ==
    [][\A a \in Admins : encode(a) => Read(published').scopes = acct[a].scopes]_vars
==============================================================================
