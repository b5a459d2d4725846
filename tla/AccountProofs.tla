---------------------------- MODULE AccountProofs ----------------------------
(***************************************************************************)
(* Proofs about AccountBody for any number of administrators, fields, keys *)
(* and edits: the way through JSON and back keeps what an account means,   *)
(* what is published can be signed again, and revocations last.            *)
(***************************************************************************)
EXTENDS AccountBody, TLAPS

(* The limit of a template as it is read.                                  *)
LEMMA ScopeType ==
    ASSUME NEW w \in Docs, NEW k \in SigningKeys
    PROVE  userScopeFromJson(w, k) \in Maybe(Limits)
<1>1. CASE ScopesOf(w, k) = {}
  BY <1>1 DEF userScopeFromJson, Maybe
<1>2. CASE ScopesOf(w, k) # {}
  <2> DEFINE e == CHOOSE e \in ScopesOf(w, k) : TRUE
  <2>1. e \in ScopesOf(w, k)
    BY <1>2
  <2>2. e \in Entries
    BY <2>1 DEF ScopesOf, Docs
  <2>3. e.limit \in Maybe(Limits)
    BY <2>2 DEF Entries
  <2>4. userScopeFromJson(w, k) = OrElse(e.limit, -1)
    BY <1>2 DEF userScopeFromJson
  <2> QED
    BY <2>3, <2>4, AccountAssumption DEF OrElse, Maybe
<1> QED
  BY <1>1, <1>2

(* Decoding a token yields an account ...                                  *)
LEMMA ReadType ==
    ASSUME NEW w \in Docs
    PROVE  Read(w) \in Accounts
<1>1. /\ OrElse(w.limit, 0) \in Limits
      /\ FlatJetStream(w) \in Limits
  BY AccountAssumption DEF OrElse, FlatJetStream, Docs, Maybe
<1>2. {e.key : e \in w.signing_keys} \in SUBSET SigningKeys
  BY DEF Docs, Entries
<1>3. [k \in SigningKeys |-> userScopeFromJson(w, k)] \in [SigningKeys -> Maybe(Limits)]
  BY ScopeType
<1> QED
  BY <1>1, <1>2, <1>3 DEF Read, Accounts, Docs

(* ... whose scoped keys are listed.                                       *)
LEMMA ScopesListed ==
    ASSUME NEW w \in Docs, NEW k \in SigningKeys, Read(w).scopes[k] # Absent
    PROVE  k \in Read(w).signingKeys
<1>1. ScopesOf(w, k) # {}
  BY DEF Read, userScopeFromJson
<1>2. PICK e \in w.signing_keys : e.key = k
  BY <1>1 DEF ScopesOf
<1> QED
  BY <1>2 DEF Read

(* A signing key as encode writes it: no limit of zero is spelt out.       *)
LEMMA EntryType ==
    ASSUME NEW o \in Accounts, NEW k \in SigningKeys
    PROVE  /\ Entry(o, k) \in Entries
           /\ Entry(o, k).key = k
           /\ Entry(o, k).kind # "other"
           /\ Entry(o, k).kind = "user_scope" <=> o.scopes[k] # Absent
           /\ Entry(o, k).limit # 0
           /\ o.scopes[k] # Absent => Entry(o, k).limit = OmitZero(o.scopes[k])
<1>1. o.scopes[k] \in Maybe(Limits)
  BY DEF Accounts
<1>2. Absent # 0
  BY AccountAssumption
<1>3. OmitZero(o.scopes[k]) \in Maybe(Limits) /\ OmitZero(o.scopes[k]) # 0
  BY <1>1, <1>2 DEF OmitZero, Maybe
<1>4. CASE o.scopes[k] = Absent
  BY <1>2, <1>4 DEF Entry, Entries, Maybe
<1>5. CASE o.scopes[k] # Absent
  BY <1>3, <1>5 DEF Entry, Entries
<1> QED
  BY <1>4, <1>5

LEMMA WriteType ==
    ASSUME NEW o \in Accounts
    PROVE  Write(o) \in Docs /\ Canonical(Write(o)) /\ Decodable(Write(o))
<1>1. OmitZero(o.limit) \in Maybe(Limits) /\ OmitZero(o.jetStream) \in Maybe(Limits)
  BY DEF OmitZero, Accounts, Maybe
<1>2. o.signingKeys \subseteq SigningKeys
  BY DEF Accounts
<1>3. {Entry(o, k) : k \in o.signingKeys} \in SUBSET Entries
  BY <1>2, EntryType
<1>4. o.natsRaw.unmodelled \in [Places -> Maybe(Data)]
  BY DEF Accounts, Docs
<1>5. Carried(o) \in [Places -> Maybe(Data)]
  BY <1>4 DEF Carried, Maybe
<1>6. Write(o) \in Docs
  BY <1>1, <1>3, <1>5 DEF Write, Docs, Accounts
<1>7. Write(o).signing_keys = {Entry(o, k) : k \in o.signingKeys}
  BY DEF Write
<1>8. Canonical(Write(o)) /\ Decodable(Write(o))
  BY <1>2, <1>7, EntryType DEF Canonical, Decodable
<1> QED
  BY <1>6, <1>8

(* The round trip: what is read again of what was written.  Only a template*)
(* limit of zero changes, to no limit.                                     *)
LEMMA TemplateRoundTrip ==
    ASSUME NEW o \in Accounts, NEW k \in SigningKeys,
           o.scopes[k] # Absent => k \in o.signingKeys
    PROVE  userScopeFromJson(Write(o), k) = Unlimited(o.scopes[k])
<1> DEFINE w == Write(o)
<1>1. w.signing_keys = {Entry(o, j) : j \in o.signingKeys}
  BY DEF Write
<1>2. o.signingKeys \subseteq SigningKeys
  BY DEF Accounts
<1>3. Absent # 0
  BY AccountAssumption
<1>4. CASE o.scopes[k] = Absent
  <2>1. ScopesOf(w, k) = {}
    BY <1>1, <1>2, <1>4, EntryType DEF ScopesOf
  <2> QED
    BY <1>3, <1>4, <2>1 DEF userScopeFromJson, Unlimited
<1>5. CASE o.scopes[k] # Absent
  <2>1. ScopesOf(w, k) = {Entry(o, k)}
    BY <1>1, <1>2, <1>5, EntryType DEF ScopesOf
  <2>2. userScopeFromJson(w, k) = OrElse(Entry(o, k).limit, -1)
    BY <2>1 DEF userScopeFromJson
  <2>3. Entry(o, k).limit = OmitZero(o.scopes[k])
    BY <1>5, EntryType
  <2> QED
    BY <1>5, <2>2, <2>3 DEF OrElse, OmitZero, Unlimited
<1> QED
  BY <1>4, <1>5

LEMMA RoundTrip ==
    ASSUME NEW o \in Accounts
    PROVE  LET r == Read(Write(o))
           IN  /\ r.limit = o.limit /\ r.wildcards = o.wildcards /\ r.tiers = o.tiers
               /\ r.jetStream = IF o.tiers # {} THEN 0 ELSE o.jetStream
               /\ r.signingKeys = o.signingKeys
               /\ r.revocations = o.revocations /\ r.exports = o.exports
               /\ r.optional = o.optional /\ r.always = o.always
<1> DEFINE w == Write(o)
<1>1. /\ w.limit = OmitZero(o.limit) /\ w.jetStream = OmitZero(o.jetStream)
      /\ w.wildcards = o.wildcards /\ w.tiers = o.tiers
      /\ w.signing_keys = {Entry(o, k) : k \in o.signingKeys}
      /\ w.revocations = o.revocations /\ w.exports = o.exports
      /\ w.optional = o.optional /\ w.always = o.always
  BY DEF Write
<1>2. o.limit \in Int /\ o.jetStream \in Int
  BY AccountAssumption DEF Accounts
<1>3. OrElse(w.limit, 0) = o.limit /\ OrElse(w.jetStream, 0) = o.jetStream
  BY <1>1, <1>2, AccountAssumption DEF OrElse, OmitZero
<1>4. FlatJetStream(w) = IF o.tiers # {} THEN 0 ELSE o.jetStream
  BY <1>1, <1>3 DEF FlatJetStream
<1>5. {e.key : e \in w.signing_keys} = o.signingKeys
  BY <1>1, EntryType DEF Accounts
<1> QED
  BY <1>1, <1>3, <1>4, <1>5 DEF Read

-----------------------------------------------------------------------------
(* A setter leaves an account in memory; everything but the one object is  *)
(* as it was.                                                              *)
LEMMA EditType ==
    ASSUME TypeOK, NEW a \in Admins, NEW o \in Accounts, Edited(a, o)
    PROVE  /\ acct' \in [Admins -> Accounts]
           /\ published' \in Docs \cup {NoDoc}
           /\ edits' \in 0..MaxEdits
BY AccountAssumption DEF TypeOK, Edited

LEMMA FreshType == Fresh \in Accounts
<1>1. EmptyDoc \in Docs
  BY DEF EmptyDoc, Docs, Maybe
<1> QED
  BY <1>1, AccountAssumption DEF Fresh, Accounts, Maybe

(* A setter, as it appears in Edit: the new object is an account.          *)
LEMMA EditStep ==
    ASSUME TypeOK, NEW a \in Admins, Edit(a)
    PROVE  /\ \E o \in Accounts : Edited(a, o)
           /\ \/ UNCHANGED history
              \/ clearRevocation(a)
<1>1. acct[a] \in Accounts
  BY DEF TypeOK
<1>2. CASE setLimit(a)
  BY <1>1, <1>2 DEF setLimit, Accounts
<1>3. CASE setWildcards(a)
  BY <1>1, <1>3 DEF setWildcards, Accounts
<1>4. CASE setJetStream(a)
  BY <1>1, <1>4 DEF setJetStream, Accounts
<1>5. CASE setTiers(a)
  BY <1>1, <1>5 DEF setTiers, Accounts
<1>6. CASE setExports(a)
  BY <1>1, <1>6 DEF setExports, Accounts
<1>7. CASE setOptional(a)
  BY <1>1, <1>7 DEF setOptional, Accounts
<1>8. CASE setAlways(a)
  BY <1>1, <1>8 DEF setAlways, Accounts
<1>9. CASE addSigningKey(a)
  BY <1>1, <1>9 DEF addSigningKey, Accounts
<1>10. CASE setScope(a)
  BY <1>1, <1>10 DEF setScope, Accounts, Maybe
<1>11. CASE revokeAt(a)
  BY <1>1, <1>11 DEF revokeAt, Accounts, Maybe
<1>12. CASE clearRevocation(a)
  BY <1>1, <1>12 DEF clearRevocation, Accounts, Maybe
<1> QED
  BY <1>2, <1>3, <1>4, <1>5, <1>6, <1>7, <1>8, <1>9, <1>10, <1>11, <1>12 DEF Edit

(* No setter touches the object carried from the token.                    *)
LEMMA EditCarries ==
    ASSUME TypeOK, NEW a \in Admins, Edit(a)
    PROVE  acct'[a].natsRaw = acct[a].natsRaw
<1>1. acct \in [Admins -> Accounts] /\ acct[a] \in Accounts
  BY DEF TypeOK
<1>2. CASE setLimit(a) \/ setWildcards(a) \/ setJetStream(a) \/ setTiers(a) \/ setExports(a)
  BY <1>1, <1>2 DEF setLimit, setWildcards, setJetStream, setTiers, setExports, Edited, Accounts
<1>3. CASE setOptional(a) \/ setAlways(a)
  BY <1>1, <1>3 DEF setOptional, setAlways, Edited, Accounts
<1>4. CASE addSigningKey(a)
  BY <1>1, <1>4 DEF addSigningKey, Edited, Accounts
<1>5. CASE setScope(a)
  <2>1. PICK k \in SigningKeys, n \in Limits :
            Edited(a, [acct[a] EXCEPT !.signingKeys = @ \cup {k}, !.scopes[k] = n])
    BY <1>5 DEF setScope
  <2> QED
    BY <1>1, <2>1 DEF Edited, Accounts
<1>6. CASE revokeAt(a)
  BY <1>1, <1>6 DEF revokeAt, Edited, Accounts
<1>7. CASE clearRevocation(a)
  BY <1>1, <1>7 DEF clearRevocation, Edited, Accounts
<1> QED
  BY <1>2, <1>3, <1>4, <1>5, <1>6, <1>7 DEF Edit

(* Type correctness, for all constants.                                    *)
THEOREM TypeCorrect == Spec => []TypeOK
<1>1. Init => TypeOK
  <2> SUFFICES ASSUME Init PROVE TypeOK
    OBVIOUS
  <2> QED
    BY FreshType, AccountAssumption DEF Init, TypeOK
<1>2. TypeOK /\ [Next]_vars => TypeOK'
  <2> SUFFICES ASSUME TypeOK, [Next]_vars PROVE TypeOK'
    OBVIOUS
  <2>1. ASSUME NEW a \in Admins, Edit(a) PROVE TypeOK'
    <3>1. PICK o \in Accounts : Edited(a, o)
      BY <2>1, EditStep
    <3>2. cleared' \in [Admins -> SUBSET RevKeys] /\ current' = current
      <4>1. CASE UNCHANGED history
        BY <4>1 DEF history, TypeOK
      <4>2. CASE clearRevocation(a)
        BY <4>2 DEF clearRevocation, TypeOK
      <4> QED
        BY <2>1, <4>1, <4>2, EditStep
    <3> QED
      BY <3>1, <3>2, EditType DEF TypeOK
  <2>2. ASSUME NEW a \in Admins, construct(a) PROVE TypeOK'
    BY <2>2, FreshType DEF construct, TypeOK
  <2>3. ASSUME NEW a \in Admins, decode(a) PROVE TypeOK'
    <3>1. published \in Docs
      BY <2>3 DEF decode, TypeOK
    <3>2. Read(published) \in Accounts
      BY <3>1, ReadType
    <3> QED
      BY <2>3, <3>2 DEF decode, TypeOK
  <2>4. ASSUME NEW a \in Admins, encode(a) PROVE TypeOK'
    <3>1. Write(acct[a]) \in Docs
      BY WriteType DEF TypeOK
    <3> QED
      BY <2>4, <3>1 DEF encode, TypeOK
  <2>5. CASE UNCHANGED vars
    BY <2>5 DEF vars, TypeOK
  <2> QED
    BY <2>1, <2>2, <2>3, <2>4, <2>5 DEF Next
<1> QED
  BY <1>1, <1>2, PTL DEF Spec

-----------------------------------------------------------------------------
(* A setter never takes a scoped key off the list.                         *)
LEMMA EditKeepsScopes ==
    ASSUME TypeOK, ScopesAreListed, NEW a \in Admins, Edit(a)
    PROVE  ScopesAreListed'
<1>1. acct[a] \in Accounts /\ DOMAIN acct = Admins
  BY DEF TypeOK
<1> SUFFICES ASSUME NEW b \in Admins, NEW k \in SigningKeys, acct'[b].scopes[k] # Absent
             PROVE  k \in acct'[b].signingKeys
  BY DEF ScopesAreListed
<1>2. acct[b].scopes[k] # Absent => k \in acct[b].signingKeys
  BY DEF ScopesAreListed
<1>3. acct[b] \in Accounts
  BY DEF TypeOK
<1>4. CASE setScope(a)
  BY <1>1, <1>2, <1>3, <1>4 DEF setScope, Edited, Accounts
<1>5. CASE addSigningKey(a)
  BY <1>1, <1>2, <1>3, <1>5 DEF addSigningKey, Edited, Accounts
<1>6. CASE ~setScope(a) /\ ~addSigningKey(a)
  <2>1. PICK o : /\ Edited(a, o)
                 /\ o.signingKeys = acct[a].signingKeys /\ o.scopes = acct[a].scopes
    <3>1. CASE setLimit(a)
      BY <1>1, <3>1 DEF setLimit, Accounts
    <3>2. CASE setWildcards(a)
      BY <1>1, <3>2 DEF setWildcards, Accounts
    <3>3. CASE setJetStream(a)
      BY <1>1, <3>3 DEF setJetStream, Accounts
    <3>4. CASE setTiers(a)
      BY <1>1, <3>4 DEF setTiers, Accounts
    <3>5. CASE setExports(a)
      BY <1>1, <3>5 DEF setExports, Accounts
    <3>6. CASE setOptional(a)
      BY <1>1, <3>6 DEF setOptional, Accounts
    <3>7. CASE setAlways(a)
      BY <1>1, <3>7 DEF setAlways, Accounts
    <3>8. CASE revokeAt(a)
      BY <1>1, <3>8 DEF revokeAt, Accounts
    <3>9. CASE clearRevocation(a)
      BY <1>1, <3>9 DEF clearRevocation, Accounts
    <3> QED
      BY <1>6, <3>1, <3>2, <3>3, <3>4, <3>5, <3>6, <3>7, <3>8, <3>9 DEF Edit
  <2>2. acct'[b] = IF b = a THEN o ELSE acct[b]
    BY <1>1, <2>1 DEF Edited
  <2> QED
    BY <1>2, <2>1, <2>2
<1> QED
  BY <1>4, <1>5, <1>6

-----------------------------------------------------------------------------
(* A revocation kept or made newer refuses what it refused.                *)
LEMMA NewerRefusesMore ==
    ASSUME NEW rev \in [RevKeys -> Maybe(Times)], NEW k \in RevKeys, NEW t \in Times,
           ~(rev[k] # Absent /\ rev[k] > t),
           NEW u \in RevKeys, NEW i \in Times, Refused(rev, u, i)
    PROVE  Refused([rev EXCEPT ![k] = t], u, i)
<1>1. PICK j \in {u, RevokeAll} : rev[j] # Absent /\ rev[j] >= i
  BY DEF Refused
<1>2. j \in RevKeys
  BY DEF RevKeys
<1>3. rev[j] \in Int /\ t \in Int /\ i \in Int
  BY <1>1, <1>2, AccountAssumption DEF Maybe
<1>4. t # Absent
  BY AccountAssumption
<1>5. CASE j = k
  <2>1. t >= i
    BY <1>1, <1>3, <1>5
  <2>2. [rev EXCEPT ![k] = t][j] = t
    BY <1>5
  <2> QED
    BY <1>1, <1>4, <2>1, <2>2 DEF Refused
<1>6. CASE j # k
  <2>1. [rev EXCEPT ![k] = t][j] = rev[j]
    BY <1>2, <1>6
  <2> QED
    BY <1>1, <2>1 DEF Refused
<1> QED
  BY <1>5, <1>6

(* Clearing an entry frees only those it names.                            *)
LEMMA ClearFreesItsOwn ==
    ASSUME NEW rev \in [RevKeys -> Maybe(Times)], NEW k \in RevKeys,
           NEW u \in RevKeys, NEW i \in Times, Refused(rev, u, i),
           k \notin {u, RevokeAll}
    PROVE  Refused([rev EXCEPT ![k] = Absent], u, i)
<1>1. PICK j \in {u, RevokeAll} : rev[j] # Absent /\ rev[j] >= i
  BY DEF Refused
<1>2. j \in RevKeys /\ j # k
  BY DEF RevKeys
<1>3. [rev EXCEPT ![k] = Absent][j] = rev[j]
  BY <1>2
<1> QED
  BY <1>1, <1>3 DEF Refused

(* The other setters leave revocations alone.                              *)
LEMMA OtherEdits ==
    ASSUME TypeOK, NEW a \in Admins, Edit(a), ~revokeAt(a), ~clearRevocation(a)
    PROVE  acct'[a].revocations = acct[a].revocations
<1>1. acct[a] \in Accounts /\ DOMAIN acct = Admins
  BY DEF TypeOK
<1>2. CASE setLimit(a)
  BY <1>1, <1>2 DEF setLimit, Edited, Accounts
<1>3. CASE setWildcards(a)
  BY <1>1, <1>3 DEF setWildcards, Edited, Accounts
<1>4. CASE setJetStream(a)
  BY <1>1, <1>4 DEF setJetStream, Edited, Accounts
<1>5. CASE setTiers(a)
  BY <1>1, <1>5 DEF setTiers, Edited, Accounts
<1>6. CASE setExports(a)
  BY <1>1, <1>6 DEF setExports, Edited, Accounts
<1>7. CASE setOptional(a)
  BY <1>1, <1>7 DEF setOptional, Edited, Accounts
<1>8. CASE setAlways(a)
  BY <1>1, <1>8 DEF setAlways, Edited, Accounts
<1>9. CASE addSigningKey(a)
  BY <1>1, <1>9 DEF addSigningKey, Edited, Accounts
<1>10. CASE setScope(a)
  BY <1>1, <1>10 DEF setScope, Edited, Accounts
<1> QED
  BY <1>2, <1>3, <1>4, <1>5, <1>6, <1>7, <1>8, <1>9, <1>10 DEF Edit

(* What an edit frees, it has cleared by name.                             *)
LEMMA EditRevocations ==
    ASSUME TypeOK, NEW a \in Admins, Edit(a),
           NEW u \in RevKeys, NEW i \in Times, Refused(acct[a].revocations, u, i)
    PROVE  \/ Refused(acct'[a].revocations, u, i)
           \/ \E k \in cleared'[a] : k \in {u, RevokeAll}
<1>1. acct[a] \in Accounts /\ DOMAIN acct = Admins
  BY DEF TypeOK
<1>2. acct[a].revocations \in [RevKeys -> Maybe(Times)]
  BY <1>1 DEF Accounts
<1>3. CASE revokeAt(a)
  <2>1. PICK k \in RevKeys, t \in Times :
            /\ ~(acct[a].revocations[k] # Absent /\ acct[a].revocations[k] > t)
            /\ Edited(a, [acct[a] EXCEPT !.revocations[k] = t])
    BY <1>3 DEF revokeAt
  <2>2. acct'[a].revocations = [acct[a].revocations EXCEPT ![k] = t]
    BY <1>1, <2>1 DEF Edited, Accounts
  <2> QED
    BY <1>2, <2>1, <2>2, NewerRefusesMore
<1>4. CASE clearRevocation(a)
  <2>1. PICK k \in RevKeys :
            /\ Edited(a, [acct[a] EXCEPT !.revocations[k] = Absent])
            /\ cleared' = [cleared EXCEPT ![a] = @ \cup {k}]
    BY <1>4 DEF clearRevocation
  <2>2. acct'[a].revocations = [acct[a].revocations EXCEPT ![k] = Absent]
    BY <1>1, <2>1 DEF Edited, Accounts
  <2>3. k \in cleared'[a]
    BY <2>1 DEF TypeOK
  <2> QED
    BY <1>2, <2>2, <2>3, ClearFreesItsOwn
<1> QED
  BY <1>3, <1>4, OtherEdits

-----------------------------------------------------------------------------
(* Canonical, listed scopes and the revocations of the published token, for*)
(* all constants.                                                          *)
THEOREM AccountInvariant == Spec => []IInv
<1>1. Init => IInv
  <2> SUFFICES ASSUME Init PROVE IInv
    OBVIOUS
  <2>1. published # NoDoc => Canonical(published)
    BY ForeignAssumption DEF Init
  <2>2. ScopesAreListed
    BY DEF Init, ScopesAreListed, Fresh
  <2>3. KeepsPublished
    BY DEF Init, KeepsPublished
  <2> QED
    BY <2>1, <2>2, <2>3 DEF IInv
<1>2. TypeOK /\ TypeOK' /\ IInv /\ [Next]_vars => IInv'
  <2> SUFFICES ASSUME TypeOK, TypeOK', IInv, [Next]_vars PROVE IInv'
    OBVIOUS
  <2>1. ASSUME NEW a \in Admins, Edit(a) PROVE IInv'
    <3>1. PICK o \in Accounts : Edited(a, o)
      BY <2>1, EditStep
    <3>2. /\ published' = published /\ current' = current
          /\ \A b \in Admins : b # a => acct'[b] = acct[b]
          /\ \A b \in Admins : cleared[b] \subseteq cleared'[b]
      <4>1. published' = published /\ \A b \in Admins : b # a => acct'[b] = acct[b]
        BY <3>1 DEF Edited, TypeOK
      <4>2. CASE UNCHANGED history
        BY <4>1, <4>2 DEF history
      <4>3. CASE clearRevocation(a)
        BY <4>1, <4>3 DEF clearRevocation, TypeOK
      <4> QED
        BY <2>1, <4>2, <4>3, EditStep
    <3>3. (published # NoDoc => Canonical(published))'
      BY <3>2 DEF IInv
    <3>4. ScopesAreListed'
      BY <2>1, EditKeepsScopes DEF IInv
    <3>5. ASSUME NEW b \in Admins, current'[b]
          PROVE  /\ published' # NoDoc
                 /\ \A r \in Lost(acct'[b], published') :
                        \E k \in cleared'[b] : k \in {r[1], RevokeAll}
      <4>1. /\ published # NoDoc
            /\ \A r \in Lost(acct[b], published) : \E k \in cleared[b] : k \in {r[1], RevokeAll}
        BY <3>2, <3>5 DEF IInv, KeepsPublished
      <4>2. ASSUME NEW r \in Lost(acct'[b], published')
            PROVE  \E k \in cleared'[b] : k \in {r[1], RevokeAll}
        <5>1. /\ r[1] \in RevKeys /\ r[2] \in Times
              /\ r \in Users \X Times
              /\ Refused(published.revocations, r[1], r[2])
              /\ ~Refused(acct'[b].revocations, r[1], r[2])
          BY <3>2, <4>2 DEF Lost, RevKeys
        <5>2. CASE Refused(acct[b].revocations, r[1], r[2])
          BY <2>1, <3>2, <5>1, <5>2, EditRevocations
        <5>3. CASE ~Refused(acct[b].revocations, r[1], r[2])
          <6>1. r \in Lost(acct[b], published)
            BY <5>1, <5>3 DEF Lost
          <6> QED
            BY <3>2, <4>1, <6>1
        <5> QED
          BY <5>2, <5>3
      <4> QED
        BY <3>2, <4>1, <4>2
    <3>6. KeepsPublished'
      BY <3>5 DEF KeepsPublished
    <3> QED
      BY <3>3, <3>4, <3>6 DEF IInv
  <2>2. ASSUME NEW a \in Admins, construct(a) PROVE IInv'
    <3>1. /\ published' = published
          /\ \A b \in Admins : acct'[b] = IF b = a THEN Fresh ELSE acct[b]
          /\ \A b \in Admins : current'[b] = IF b = a THEN FALSE ELSE current[b]
          /\ \A b \in Admins : cleared'[b] = IF b = a THEN {} ELSE cleared[b]
      BY <2>2 DEF construct, TypeOK
    <3>2. ScopesAreListed'
      BY <3>1 DEF IInv, ScopesAreListed, Fresh
    <3>3. KeepsPublished'
      BY <3>1 DEF IInv, KeepsPublished
    <3> QED
      BY <3>1, <3>2, <3>3 DEF IInv
  <2>3. ASSUME NEW a \in Admins, decode(a) PROVE IInv'
    <3>1. /\ published \in Docs /\ published # NoDoc /\ published' = published
          /\ \A b \in Admins : acct'[b] = IF b = a THEN Read(published) ELSE acct[b]
          /\ \A b \in Admins : b # a => current'[b] = current[b] /\ cleared'[b] = cleared[b]
      BY <2>3 DEF decode, TypeOK
    <3>2. ScopesAreListed'
      BY <3>1, ScopesListed DEF IInv, ScopesAreListed
    <3>3. Read(published).revocations = published.revocations
      BY DEF Read
    <3>4. Lost(Read(published), published) = {}
      BY <3>3 DEF Lost
    <3>5. KeepsPublished'
      BY <3>1, <3>4 DEF IInv, KeepsPublished
    <3> QED
      BY <3>1, <3>2, <3>5 DEF IInv
  <2>4. ASSUME NEW a \in Admins, encode(a) PROVE IInv'
    <3>1. acct[a] \in Accounts
      BY DEF TypeOK
    <3>2. /\ published' = Write(acct[a]) /\ acct' = acct
          /\ \A b \in Admins : current'[b] <=> b = a
      BY <2>4 DEF encode
    <3>3. Canonical(published') /\ published' # NoDoc
      BY <3>1, <3>2, WriteType, AccountAssumption
    <3>4. published'.revocations = acct[a].revocations
      BY <3>2 DEF Write
    <3>5. Lost(acct'[a], published') = {}
      BY <3>2, <3>4 DEF Lost
    <3>6. KeepsPublished'
      BY <3>2, <3>3, <3>5 DEF KeepsPublished
    <3>7. ScopesAreListed'
      BY <3>2 DEF IInv, ScopesAreListed
    <3> QED
      BY <3>3, <3>6, <3>7 DEF IInv
  <2>5. CASE UNCHANGED vars
    BY <2>5 DEF vars, IInv, ScopesAreListed, KeepsPublished
  <2> QED
    BY <2>1, <2>2, <2>3, <2>4, <2>5 DEF Next
<1> QED
  BY <1>1, <1>2, TypeCorrect, PTL DEF Spec

-----------------------------------------------------------------------------
(* What is published can be decoded and signed again.                      *)
THEOREM PublishedIsResignable == Spec => []AlwaysResignable
<1>1. Init => AlwaysResignable
  <2> SUFFICES ASSUME Init, published # NoDoc, Decodable(published)
               PROVE  Valid(Read(published))
    BY DEF AlwaysResignable
  <2> DEFINE r == Read(published)
  <2>1. Valid([r EXCEPT !.jetStream = 0])
    BY ForeignAssumption DEF Init
  <2>2. r.tiers # {} => r.jetStream = 0
    BY DEF Read, FlatJetStream
  <2>3. /\ [r EXCEPT !.jetStream = 0].tiers = r.tiers
        /\ [r EXCEPT !.jetStream = 0].limit = r.limit
        /\ [r EXCEPT !.jetStream = 0].wildcards = r.wildcards
        /\ [r EXCEPT !.jetStream = 0].exports = r.exports
        /\ [r EXCEPT !.jetStream = 0].signingKeys = r.signingKeys
        /\ [r EXCEPT !.jetStream = 0].optional = r.optional
        /\ [r EXCEPT !.jetStream = 0].always = r.always
    BY DEF Read
  <2> HIDE DEF r
  <2>4. Valid(r)
    BY <2>1, <2>2, <2>3 DEF Valid, validateAccountConfig, validateExportsImports,
             validateExternalAuthorization, ImportsOf
  <2> QED
    BY <2>4 DEF r
<1>2. TypeOK /\ AlwaysResignable /\ [Next]_vars => AlwaysResignable'
  <2> SUFFICES ASSUME TypeOK, AlwaysResignable, [Next]_vars PROVE AlwaysResignable'
    OBVIOUS
  <2>1. CASE published' = published
    BY <2>1 DEF AlwaysResignable
  <2>2. ASSUME NEW a \in Admins, encode(a) PROVE AlwaysResignable'
    <3> DEFINE o == acct[a]
               r == Read(Write(o))
    <3>1. o \in Accounts /\ Valid(o) /\ published' = Write(o)
      BY <2>2 DEF encode, TypeOK
    <3>2. /\ r.limit = o.limit /\ r.wildcards = o.wildcards /\ r.tiers = o.tiers
          /\ r.jetStream = IF o.tiers # {} THEN 0 ELSE o.jetStream
          /\ r.signingKeys = o.signingKeys /\ r.exports = o.exports
          /\ r.optional = o.optional /\ r.always = o.always
      BY <3>1, RoundTrip
    <3> HIDE DEF r
    <3>3. Valid(r)
      BY <3>1, <3>2 DEF Valid, validateAccountConfig, validateExportsImports,
             validateExternalAuthorization, ImportsOf
    <3> QED
      BY <3>1, <3>3 DEF AlwaysResignable, r
  <2>3. ASSUME NEW a \in Admins, Edit(a) PROVE published' = published
    BY <2>3, EditStep DEF Edited
  <2>4. ASSUME NEW a \in Admins, construct(a) \/ decode(a) PROVE published' = published
    BY <2>4 DEF construct, decode
  <2>5. CASE UNCHANGED vars
    BY <2>1, <2>5 DEF vars
  <2> QED
    BY <2>1, <2>2, <2>3, <2>4, <2>5 DEF Next
<1> QED
  BY <1>1, <1>2, TypeCorrect, PTL DEF Spec

(* Revocations of the published token last until somebody clears them.     *)
THEOREM RevocationsLast == Spec => PublishedRevocationsLast
<1>1. IInv /\ [Next]_vars =>
          [\A a \in Admins : encode(a) /\ current[a] =>
               \A u \in Users, t \in Times :
                   Refused(published.revocations, u, t)
                       => \/ Refused(published'.revocations, u, t)
                          \/ \E k \in cleared[a] : k \in {u, RevokeAll}]_vars
  <2> SUFFICES ASSUME IInv, NEW a \in Admins, encode(a), current[a],
                      NEW u \in Users, NEW t \in Times,
                      Refused(published.revocations, u, t),
                      ~Refused(published'.revocations, u, t)
               PROVE  \E k \in cleared[a] : k \in {u, RevokeAll}
    OBVIOUS
  <2>1. published'.revocations = acct[a].revocations
    BY DEF encode, Write
  <2>2. <<u, t>> \in Lost(acct[a], published)
    BY <2>1 DEF Lost
  <2> QED
    BY <2>2 DEF IInv, KeepsPublished
<1> QED
  BY <1>1, AccountInvariant, PTL DEF Spec, PublishedRevocationsLast

-----------------------------------------------------------------------------
(* The refinement.  A draft is the policy of an object, and the policy in  *)
(* force is what a server reads in the published token.                    *)
Aspects == {"limit", "wildcards", "jetStream", "tiers", "signers", "revocations",
            "exports", "optional", "always", "extra"}

Drafts == [a \in Admins |-> PolicyOf(acct[a])]
InForce == IF published = NoDoc THEN {} ELSE {Enforced(published)}

(* Two objects that agree but for one aspect ...                           *)
SameBut(f, o, p) ==
    /\ f # "limit" => o.limit = p.limit
    /\ f # "wildcards" => o.wildcards = p.wildcards
    /\ f # "jetStream" => o.jetStream = p.jetStream
    /\ f # "tiers" => o.tiers = p.tiers
    /\ f # "signers" => o.signingKeys = p.signingKeys /\ o.scopes = p.scopes
    /\ f # "revocations" => o.revocations = p.revocations
    /\ f # "exports" => o.exports = p.exports
    /\ f # "optional" => o.optional = p.optional
    /\ f # "always" => o.always = p.always
    /\ f # "extra" => o.natsRaw = p.natsRaw

(* ... have policies that do.                                              *)
LEMMA SamePolicyBut ==
    ASSUME NEW f, NEW o, NEW p, SameBut(f, o, p), NEW g \in Aspects \ {f}
    PROVE  PolicyOf(o)[g] = PolicyOf(p)[g]
<1>1. CASE g = "signers"
  <2>1. o.signingKeys = p.signingKeys /\ o.scopes = p.scopes
    BY <1>1 DEF SameBut
  <2>2. PolicyOf(o).signers = PolicyOf(p).signers
    BY <2>1 DEF PolicyOf
  <2> QED
    BY <1>1, <2>2
<1>2. CASE g = "extra"
  BY <1>2 DEF SameBut, PolicyOf
<1>3. CASE g = "limit" \/ g = "wildcards" \/ g = "jetStream" \/ g = "tiers"
  BY <1>3 DEF SameBut, PolicyOf
<1>4. CASE g = "revocations" \/ g = "exports" \/ g = "optional" \/ g = "always"
  BY <1>4 DEF SameBut, PolicyOf
<1> QED
  BY <1>1, <1>2, <1>3, <1>4 DEF Aspects

(* A setter that leaves the other aspects of its object alone leaves them  *)
(* alone in the draft.                                                     *)
LEMMA OneAspect ==
    ASSUME TypeOK, NEW a \in Admins, NEW o, Edited(a, o), NEW f, SameBut(f, o, acct[a])
    PROVE  Policy!OnlyAspect(a, f)
<1>1. Drafts[a] = PolicyOf(acct[a]) /\ Drafts'[a] = PolicyOf(o)
  BY DEF Drafts, Edited, TypeOK
<1>2. DOMAIN PolicyOf(o) = Aspects /\ DOMAIN PolicyOf(acct[a]) = Aspects
  BY DEF PolicyOf, Aspects
<1>3. \A b \in Admins \ {a} : Drafts'[b] = Drafts[b]
  BY DEF Drafts, Edited, TypeOK
<1>4. InForce' = InForce
  BY DEF InForce, Edited
<1>5. /\ DOMAIN Drafts'[a] = DOMAIN Drafts[a]
      /\ \A g \in DOMAIN Drafts[a] \ {f} : Drafts'[a][g] = Drafts[a][g]
  BY <1>1, <1>2, SamePolicyBut
<1> QED
  BY <1>3, <1>4, <1>5 DEF Policy!OnlyAspect, Drafts, InForce

(* Assignments configure the draft.                                        *)
LEMMA SettersConfigure ==
    ASSUME TypeOK, NEW a \in Admins,
           \/ setLimit(a) \/ setWildcards(a) \/ setJetStream(a) \/ setTiers(a)
           \/ setExports(a) \/ setOptional(a) \/ setAlways(a)
    PROVE  Policy!Configure(a)
<1>1. acct[a] \in Accounts
  BY DEF TypeOK
<1>2. PICK f \in Aspects \ {"signers", "revocations", "extra"} :
          \E o : Edited(a, o) /\ SameBut(f, o, acct[a])
  <2>1. CASE setLimit(a)
    <3>1. \E o : Edited(a, o) /\ SameBut("limit", o, acct[a])
      BY <1>1, <2>1 DEF setLimit, SameBut, Accounts
    <3> QED
      BY <3>1 DEF Aspects
  <2>2. CASE setWildcards(a)
    <3>1. \E o : Edited(a, o) /\ SameBut("wildcards", o, acct[a])
      BY <1>1, <2>2 DEF setWildcards, SameBut, Accounts
    <3> QED
      BY <3>1 DEF Aspects
  <2>3. CASE setJetStream(a)
    <3>1. \E o : Edited(a, o) /\ SameBut("jetStream", o, acct[a])
      BY <1>1, <2>3 DEF setJetStream, SameBut, Accounts
    <3> QED
      BY <3>1 DEF Aspects
  <2>4. CASE setTiers(a)
    <3>1. \E o : Edited(a, o) /\ SameBut("tiers", o, acct[a])
      BY <1>1, <2>4 DEF setTiers, SameBut, Accounts
    <3> QED
      BY <3>1 DEF Aspects
  <2>5. CASE setExports(a)
    <3>1. \E o : Edited(a, o) /\ SameBut("exports", o, acct[a])
      BY <1>1, <2>5 DEF setExports, SameBut, Accounts
    <3> QED
      BY <3>1 DEF Aspects
  <2>6. CASE setOptional(a)
    <3>1. \E o : Edited(a, o) /\ SameBut("optional", o, acct[a])
      BY <1>1, <2>6 DEF setOptional, SameBut, Accounts
    <3> QED
      BY <3>1 DEF Aspects
  <2>7. CASE setAlways(a)
    <3>1. \E o : Edited(a, o) /\ SameBut("always", o, acct[a])
      BY <1>1, <2>7 DEF setAlways, SameBut, Accounts
    <3> QED
      BY <3>1 DEF Aspects
  <2> QED
    BY <2>1, <2>2, <2>3, <2>4, <2>5, <2>6, <2>7
<1>3. Policy!OnlyAspect(a, f)
  BY <1>2, OneAspect
<1>4. DOMAIN Drafts[a] = Aspects
  BY DEF Drafts, PolicyOf, Aspects
<1> QED
  BY <1>2, <1>3, <1>4 DEF Policy!Configure, Drafts

(* Signing keys and scopes are only added or replaced.                     *)
LEMMA KeysEntrust ==
    ASSUME TypeOK, NEW a \in Admins, addSigningKey(a) \/ setScope(a)
    PROVE  Policy!Entrust(a)
<1>1. acct[a] \in Accounts
  BY DEF TypeOK
<1>2. PICK o : /\ Edited(a, o)
               /\ SameBut("signers", o, acct[a])
               /\ \A k \in SigningKeys :
                      /\ k \in acct[a].signingKeys => k \in o.signingKeys
                      /\ acct[a].scopes[k] # Absent => o.scopes[k] # Absent
  <2>1. CASE addSigningKey(a)
    <3>1. PICK k \in SigningKeys :
              Edited(a, [acct[a] EXCEPT !.signingKeys = @ \cup {k}])
      BY <2>1 DEF addSigningKey
    <3> QED
      BY <1>1, <3>1 DEF SameBut, Accounts
  <2>2. CASE setScope(a)
    <3>1. PICK k \in SigningKeys, n \in Limits :
              Edited(a, [acct[a] EXCEPT !.signingKeys = @ \cup {k}, !.scopes[k] = n])
      BY <2>2 DEF setScope
    <3> DEFINE o == [acct[a] EXCEPT !.signingKeys = @ \cup {k}, !.scopes[k] = n]
    <3>2. n # Absent
      BY AccountAssumption
    <3>3. SameBut("signers", o, acct[a])
      BY <1>1 DEF SameBut, Accounts
    <3>4. /\ o.signingKeys = acct[a].signingKeys \cup {k}
          /\ o.scopes = [acct[a].scopes EXCEPT ![k] = n]
          /\ acct[a].scopes \in [SigningKeys -> Maybe(Limits)]
      BY <1>1 DEF Accounts
    <3> HIDE DEF o
    <3>5. ASSUME NEW j \in SigningKeys, acct[a].scopes[j] # Absent PROVE o.scopes[j] # Absent
      BY <3>2, <3>4, <3>5
    <3> QED
      BY <3>1, <3>3, <3>4, <3>5 DEF o
  <2> QED
    BY <2>1, <2>2
<1>3. Policy!OnlyAspect(a, "signers")
  BY <1>2, OneAspect
<1>4. Drafts[a] = PolicyOf(acct[a]) /\ Drafts'[a] = PolicyOf(o)
  BY <1>2 DEF Drafts, Edited, TypeOK
<1>5. \A n : Unlimited(n) # Absent <=> n # Absent
  BY AccountAssumption DEF Unlimited
<1>6. /\ Drafts[a].signers.listed = acct[a].signingKeys
      /\ Drafts'[a].signers.listed = o.signingKeys
      /\ Drafts[a].signers.template = [k \in SigningKeys |-> Unlimited(acct[a].scopes[k])]
      /\ Drafts'[a].signers.template = [k \in SigningKeys |-> Unlimited(o.scopes[k])]
  BY <1>4 DEF PolicyOf
<1>7. acct[a].signingKeys \subseteq o.signingKeys
  BY <1>1, <1>2 DEF Accounts
<1>8. \A k \in SigningKeys : Drafts[a].signers.template[k] # Absent
                                => Drafts'[a].signers.template[k] # Absent
  BY <1>2, <1>5, <1>6
<1> QED
  BY <1>3, <1>6, <1>7, <1>8 DEF Policy!Entrust, Drafts

(* Revocations grow until one is cleared.                                  *)
LEMMA RevokesOrClears ==
    ASSUME TypeOK, NEW a \in Admins
    PROVE  /\ revokeAt(a) => Policy!Revoke(a)
           /\ clearRevocation(a) => Policy!Clear(a)
<1>1. acct[a] \in Accounts
  BY DEF TypeOK
<1>2. acct[a].revocations \in [RevKeys -> Maybe(Times)]
  BY <1>1 DEF Accounts
<1>3. Drafts[a].revocations = acct[a].revocations
  BY DEF Drafts, PolicyOf
<1>4. ASSUME revokeAt(a) PROVE Policy!Revoke(a)
  <2> DEFINE o(k, t) == [acct[a] EXCEPT !.revocations[k] = t]
  <2>1. PICK k \in RevKeys, t \in Times :
            /\ ~(acct[a].revocations[k] # Absent /\ acct[a].revocations[k] > t)
            /\ Edited(a, o(k, t))
    BY <1>4 DEF revokeAt
  <2>2. SameBut("revocations", o(k, t), acct[a])
    BY <1>1 DEF SameBut, Accounts
  <2>3. Policy!OnlyAspect(a, "revocations")
    <3> HIDE DEF o
    <3> QED
      BY <2>1, <2>2, OneAspect
  <2>4. Drafts'[a].revocations = [acct[a].revocations EXCEPT ![k] = t]
    BY <1>1, <2>1 DEF Drafts, PolicyOf, Edited, TypeOK, Accounts
  <2>5. \A u \in RevKeys, i \in Times :
            Refused(acct[a].revocations, u, i) => Refused(Drafts'[a].revocations, u, i)
    BY <1>2, <2>1, <2>4, NewerRefusesMore
  <2>6. DOMAIN Drafts[a].revocations = RevKeys
    BY <1>2, <1>3
  <2> QED
    BY <1>3, <2>3, <2>5, <2>6 DEF Policy!Revoke, Drafts
<1>5. ASSUME clearRevocation(a) PROVE Policy!Clear(a)
  <2> DEFINE o(k) == [acct[a] EXCEPT !.revocations[k] = Absent]
  <2>1. PICK k \in RevKeys : Edited(a, o(k))
    BY <1>5 DEF clearRevocation
  <2>2. SameBut("revocations", o(k), acct[a])
    BY <1>1 DEF SameBut, Accounts
  <2>3. Policy!OnlyAspect(a, "revocations")
    <3> HIDE DEF o
    <3> QED
      BY <2>1, <2>2, OneAspect
  <2>4. Drafts'[a].revocations = [Drafts[a].revocations EXCEPT ![k] = Absent]
    BY <1>1, <2>1 DEF Drafts, PolicyOf, Edited, TypeOK, Accounts
  <2>5. DOMAIN Drafts[a].revocations = RevKeys
    BY <1>2, <1>3
  <2> QED
    BY <2>3, <2>4, <2>5 DEF Policy!Clear, Drafts
<1> QED
  BY <1>4, <1>5

(* Encoding publishes the draft: what a server reads in the token is what  *)
(* the object meant.                                                       *)
LEMMA EncodePublishes ==
    ASSUME TypeOK, IInv, NEW a \in Admins, encode(a)
    PROVE  Policy!Publish(a)
<1> DEFINE o == acct[a]
           w == Write(o)
<1>1. o \in Accounts /\ Valid(o) /\ published' = w /\ acct' = acct
  BY DEF encode, TypeOK
<1>2. w \in Docs /\ w # NoDoc
  BY <1>1, WriteType, AccountAssumption
<1>3. /\ w.wildcards = o.wildcards /\ w.tiers = o.tiers /\ w.revocations = o.revocations
      /\ w.exports = o.exports /\ w.optional = o.optional /\ w.always = o.always
      /\ w.unmodelled["top"] = o.natsRaw.unmodelled["top"]
      /\ w.signing_keys = {Entry(o, k) : k \in o.signingKeys}
  BY DEF Write, Carried, Places
<1>4. /\ OrElse(w.limit, 0) = o.limit
      /\ FlatJetStream(w) = IF o.tiers # {} THEN 0 ELSE o.jetStream
      /\ {e.key : e \in w.signing_keys} = o.signingKeys
  BY <1>1, RoundTrip DEF Read
<1>5. (IF w.tiers = {} THEN OrElse(w.jetStream, 0) ELSE 0) = o.jetStream
  BY <1>1, <1>3, <1>4 DEF FlatJetStream, Valid, validateAccountConfig
<1>6. [k \in SigningKeys |-> userScopeFromJson(w, k)]
          = [k \in SigningKeys |-> Unlimited(o.scopes[k])]
  BY <1>1, TemplateRoundTrip DEF IInv, ScopesAreListed
<1> HIDE DEF w
<1>7. Enforced(w) = PolicyOf(o)
  BY <1>3, <1>4, <1>5, <1>6 DEF Enforced, PolicyOf
<1>8. InForce' = {Enforced(w)} /\ Drafts' = Drafts /\ Drafts[a] = PolicyOf(o)
  BY <1>1, <1>2 DEF InForce, Drafts
<1> QED
  BY <1>7, <1>8 DEF Policy!Publish, InForce, Drafts

(* Decoding makes the policy in force the draft.                           *)
LEMMA DecodeLoads ==
    ASSUME TypeOK, IInv, NEW a \in Admins, decode(a)
    PROVE  Policy!Load(a)
<1> DEFINE w == published
           r == Read(w)
<1>1. /\ w \in Docs /\ w # NoDoc /\ published' = w
      /\ acct' = [acct EXCEPT ![a] = r] /\ acct \in [Admins -> Accounts]
  BY DEF decode, TypeOK
<1>2. Canonical(w)
  BY <1>1 DEF IInv
<1>3. ASSUME NEW k \in SigningKeys PROVE Unlimited(r.scopes[k]) = userScopeFromJson(w, k)
  <2>1. r.scopes[k] = userScopeFromJson(w, k)
    BY DEF Read
  <2>2. userScopeFromJson(w, k) # 0
    <3>1. CASE ScopesOf(w, k) = {}
      BY <3>1, AccountAssumption DEF userScopeFromJson
    <3>2. CASE ScopesOf(w, k) # {}
      <4> DEFINE e == CHOOSE e \in ScopesOf(w, k) : TRUE
      <4>1. e \in w.signing_keys
        BY <3>2 DEF ScopesOf
      <4>2. e.limit # 0
        BY <1>2, <4>1 DEF Canonical
      <4>3. userScopeFromJson(w, k) = OrElse(e.limit, -1)
        BY <3>2 DEF userScopeFromJson
      <4> HIDE DEF e
      <4> QED
        BY <4>2, <4>3 DEF OrElse
    <3> QED
      BY <3>1, <3>2
  <2> QED
    BY <2>1, <2>2 DEF Unlimited
<1>4. r.signingKeys = {e.key : e \in w.signing_keys}
  BY DEF Read
<1>5. /\ r.limit = OrElse(w.limit, 0) /\ r.wildcards = w.wildcards /\ r.tiers = w.tiers
      /\ r.jetStream = IF w.tiers = {} THEN OrElse(w.jetStream, 0) ELSE 0
      /\ r.revocations = w.revocations /\ r.exports = w.exports
      /\ r.optional = w.optional /\ r.always = w.always /\ r.natsRaw = w
  BY DEF Read, FlatJetStream
<1> HIDE DEF r
<1>6. PolicyOf(r) = Enforced(w)
  BY <1>3, <1>4, <1>5 DEF PolicyOf, Enforced
<1>7. /\ InForce = {Enforced(w)} /\ InForce' = InForce
      /\ Drafts' = [Drafts EXCEPT ![a] = PolicyOf(r)]
  BY <1>1 DEF InForce, Drafts
<1> QED
  BY <1>6, <1>7 DEF Policy!Load, InForce, Drafts

(* AccountBody implements AccountPolicy.                                   *)
THEOREM AccountImplementsPolicy == Spec => ImplementsPolicy
<1>1. Init => Policy!Init
  BY DEF Init, Policy!Init
<1>2. TypeOK /\ IInv /\ [Next]_vars => [Policy!Next]_(Policy!vars)
  <2> SUFFICES ASSUME TypeOK, IInv, [Next]_vars
               PROVE  Policy!Next \/ UNCHANGED Policy!vars
    OBVIOUS
  <2>1. ASSUME NEW a \in Admins, Edit(a) PROVE Policy!Next
    BY <2>1, SettersConfigure, KeysEntrust, RevokesOrClears DEF Edit, Policy!Next
  <2>2. ASSUME NEW a \in Admins, construct(a) PROVE Policy!Next
    <3>1. /\ Drafts' = [Drafts EXCEPT ![a] = PolicyOf(Fresh)]
          /\ InForce' = InForce
      BY <2>2 DEF construct, Drafts, InForce, TypeOK
    <3>2. Policy!Begin(a)
      BY <3>1 DEF Policy!Begin, Drafts, InForce
    <3> QED
      BY <3>2 DEF Policy!Next
  <2>3. ASSUME NEW a \in Admins, decode(a) PROVE Policy!Next
    BY <2>3, DecodeLoads DEF Policy!Next
  <2>4. ASSUME NEW a \in Admins, encode(a) PROVE Policy!Next
    BY <2>4, EncodePublishes DEF Policy!Next
  <2>5. CASE UNCHANGED vars
    BY <2>5 DEF vars, Policy!vars
  <2> QED
    BY <2>1, <2>2, <2>3, <2>4, <2>5 DEF Next
<1> QED
  BY <1>1, <1>2, TypeCorrect, AccountInvariant, PTL DEF Spec, Policy!Spec, ImplementsPolicy
-----------------------------------------------------------------------------
(* Where the two promises that a run refutes end.                          *)

(* encode brings back every template as it was, but for a limit of zero,   *)
(* which comes back as no limit: scope_serialization.hpp:34 is the one way *)
(* to widen a scope by signing an account again.                           *)
THEOREM OnlyZeroTemplatesChange ==
    Spec => [][\A a \in Admins : encode(a) =>
                   \A k \in SigningKeys :
                       Read(published').scopes[k] = Unlimited(acct[a].scopes[k])]_vars
<1>1. TypeOK /\ IInv /\ [Next]_vars =>
          [\A a \in Admins : encode(a) =>
               \A k \in SigningKeys :
                   Read(published').scopes[k] = Unlimited(acct[a].scopes[k])]_vars
  <2> SUFFICES ASSUME TypeOK, IInv, NEW a \in Admins, encode(a), NEW k \in SigningKeys
               PROVE  Read(published').scopes[k] = Unlimited(acct[a].scopes[k])
    OBVIOUS
  <2>1. acct[a] \in Accounts /\ published' = Write(acct[a])
    BY DEF encode, TypeOK
  <2>2. acct[a].scopes[k] # Absent => k \in acct[a].signingKeys
    BY DEF IInv, ScopesAreListed
  <2>3. userScopeFromJson(Write(acct[a]), k) = Unlimited(acct[a].scopes[k])
    BY <2>1, <2>2, TemplateRoundTrip
  <2> QED
    BY <2>1, <2>3 DEF Read
<1> QED
  BY <1>1, TypeCorrect, AccountInvariant, PTL DEF Spec

(* An object made from the published token carries what that token has at  *)
(* top level, through edits and through its own encode.                    *)
CarriesTop ==
    \A a \in Admins : current[a] =>
        published # NoDoc /\ acct[a].natsRaw.unmodelled["top"] = published.unmodelled["top"]

(* The half of "re-signing never drops or resets fields this port doesn't  *)
(* model" (README.md:208-210) that is so: keys unknown to the library      *)
(* survive beside those it knows, in the nats object itself.               *)
THEOREM TopLevelSurvives ==
    Spec => [][\A a \in Admins : encode(a) /\ current[a] =>
                   published'.unmodelled["top"] = published.unmodelled["top"]]_vars
<1>1. Init => CarriesTop
  BY DEF Init, CarriesTop
<1>2. TypeOK /\ CarriesTop /\ [Next]_vars => CarriesTop'
  <2> SUFFICES ASSUME TypeOK, CarriesTop, [Next]_vars PROVE CarriesTop'
    OBVIOUS
  <2>1. ASSUME NEW a \in Admins, encode(a) PROVE CarriesTop'
    <3>1. /\ published' = Write(acct[a]) /\ acct' = acct /\ acct[a] \in Accounts
          /\ current' = [b \in Admins |-> b = a]
      BY <2>1 DEF encode, TypeOK
    <3>2. /\ Write(acct[a]).unmodelled["top"] = acct[a].natsRaw.unmodelled["top"]
          /\ Write(acct[a]) # NoDoc
      BY <3>1, WriteType, AccountAssumption DEF Write, Carried, Places
    <3> QED
      BY <3>1, <3>2 DEF CarriesTop
  <2>2. ASSUME NEW a \in Admins, Edit(a) PROVE CarriesTop'
    <3>1. acct[a].natsRaw = acct'[a].natsRaw
      BY <2>2, EditCarries
    <3>2. /\ published' = published /\ current' = current
          /\ \A b \in Admins \ {a} : acct'[b] = acct[b]
      BY <2>2, EditStep DEF Edited, history, clearRevocation, TypeOK
    <3> QED
      BY <3>1, <3>2 DEF CarriesTop
  <2>3. ASSUME NEW a \in Admins, construct(a) PROVE CarriesTop'
    BY <2>3 DEF construct, CarriesTop, TypeOK
  <2>4. ASSUME NEW a \in Admins, decode(a) PROVE CarriesTop'
    BY <2>4 DEF decode, CarriesTop, TypeOK, Read
  <2>5. CASE UNCHANGED vars
    BY <2>5 DEF vars, CarriesTop
  <2> QED
    BY <2>1, <2>2, <2>3, <2>4, <2>5 DEF Next
<1>3. CarriesTop /\ [Next]_vars =>
          [\A a \in Admins : encode(a) /\ current[a] =>
               published'.unmodelled["top"] = published.unmodelled["top"]]_vars
  <2> SUFFICES ASSUME CarriesTop, NEW a \in Admins, encode(a), current[a]
               PROVE  published'.unmodelled["top"] = published.unmodelled["top"]
    OBVIOUS
  <2>1. published' = Write(acct[a])
    BY DEF encode
  <2> QED
    BY <2>1 DEF CarriesTop, Write, Carried, Places
<1> QED
  BY <1>1, <1>2, <1>3, TypeCorrect, PTL DEF Spec

(* A template that spells its limit out is written as it was read.         *)
LEMMA EntrySettles ==
    ASSUME NEW o \in Accounts, NEW k \in o.signingKeys,
           \A j \in SigningKeys : o.scopes[j] # Absent => j \in o.signingKeys,
           o.scopes[k] # 0
    PROVE  Entry(Read(Write(o)), k) = Entry(o, k)
<1>1. k \in SigningKeys /\ o.scopes[k] \in Maybe(Limits)
  BY DEF Accounts
<1>2. userScopeFromJson(Write(o), k) = Unlimited(o.scopes[k])
  BY <1>1, TemplateRoundTrip
<1>3. Read(Write(o)).scopes[k] = o.scopes[k]
  BY <1>1, <1>2, AccountAssumption DEF Read, Unlimited
<1> QED
  BY <1>3 DEF Entry

(* Signing again without a change what this library signed leaves its body *)
(* as it is on the wire, unless a template leaves its limit out.           *)
Settled ==
    published \notin Foreign \cup {NoDoc} =>
        \/ \E e \in published.signing_keys : e.kind = "user_scope" /\ e.limit = Absent
        \/ Write(Read(published)) = published

THEOREM ResigningSettles == Spec => []Settled
<1>1. Init => Settled
  BY DEF Init, Settled
<1>2. TypeOK /\ IInv /\ Settled /\ [Next]_vars => Settled'
  <2> SUFFICES ASSUME TypeOK, IInv, Settled, [Next]_vars PROVE Settled'
    OBVIOUS
  <2>1. CASE published' = published
    BY <2>1 DEF Settled
  <2>2. ASSUME NEW a \in Admins, encode(a) PROVE Settled'
    <3> DEFINE o == acct[a]
               w == Write(o)
               r == Read(w)
    <3>1. o \in Accounts /\ Valid(o) /\ published' = w
      BY <2>2 DEF encode, TypeOK
    <3> SUFFICES ASSUME \A e \in w.signing_keys : e.kind = "user_scope" => e.limit # Absent
                 PROVE  Write(r) = w
      BY <3>1 DEF Settled
    <3>2. \A j \in SigningKeys : o.scopes[j] # Absent => j \in o.signingKeys
      BY DEF IInv, ScopesAreListed
    <3>3. o.signingKeys \subseteq SigningKeys
      BY <3>1 DEF Accounts
    <3>4. \A k \in o.signingKeys : o.scopes[k] # 0
      <4> SUFFICES ASSUME NEW k \in o.signingKeys, o.scopes[k] = 0 PROVE FALSE
        OBVIOUS
      <4>1. o.scopes[k] # Absent
        BY AccountAssumption
      <4>2. /\ Entry(o, k).kind = "user_scope" /\ Entry(o, k).limit = Absent
            /\ Entry(o, k) \in w.signing_keys
        BY <4>1 DEF Entry, OmitZero, Write
      <4> QED
        BY <4>2
    <3>5. /\ r.limit = o.limit /\ r.wildcards = o.wildcards /\ r.tiers = o.tiers
          /\ r.jetStream = IF o.tiers # {} THEN 0 ELSE o.jetStream
          /\ r.signingKeys = o.signingKeys
          /\ r.revocations = o.revocations /\ r.exports = o.exports
          /\ r.optional = o.optional /\ r.always = o.always
      BY <3>1, RoundTrip
    <3>6. r.jetStream = o.jetStream
      BY <3>1, <3>5 DEF Valid, validateAccountConfig
    <3>7. \A k \in o.signingKeys : Entry(r, k) = Entry(o, k)
      BY <3>1, <3>2, <3>4, EntrySettles
    <3>8. Carried(r) = Carried(o)
      BY DEF Carried, Read, Write, Places
    <3> HIDE DEF r
    <3>9. {Entry(r, k) : k \in r.signingKeys} = {Entry(o, k) : k \in o.signingKeys}
      BY <3>5, <3>7
    <3> QED
      BY <3>5, <3>6, <3>8, <3>9 DEF Write
  <2>3. ASSUME NEW a \in Admins, Edit(a) PROVE published' = published
    BY <2>3, EditStep DEF Edited
  <2>4. ASSUME NEW a \in Admins, construct(a) \/ decode(a) PROVE published' = published
    BY <2>4 DEF construct, decode
  <2>5. CASE UNCHANGED vars
    BY <2>1, <2>5 DEF vars
  <2> QED
    BY <2>1, <2>2, <2>3, <2>4, <2>5 DEF Next
<1> QED
  BY <1>1, <1>2, TypeCorrect, AccountInvariant, PTL DEF Spec

==============================================================================
