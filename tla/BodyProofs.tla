------------------------------ MODULE BodyProofs -----------------------------
(***************************************************************************)
(* Theorems about ClaimBodies, for any values, any well-typed tokens of    *)
(* other programs and any number of edits.  The shapes are looked up once, *)
(* for each key that another definition names; a field then makes its way  *)
(* to the wire and back (RoundTrip), and bodies follow field by field.     *)
(***************************************************************************)
EXTENDS ClaimBodies, TLAPS

-----------------------------------------------------------------------------
(* What the shapes say.                                                    *)

LEMMA FieldShapes ==
    ASSUME NEW t \in Types, NEW k \in Keys
    PROVE  /\ Shape[t][k] \in {"omitted", "optional", "always", "limit", "time", "carried"}
           /\ k \in Fields[t] <=> Shape[t][k] # "carried"
           /\ Shape[t][k] = "limit" <=> t = "user" /\ k \in UserLimits
           /\ Shape[t][k] = "time" <=> k \in {"exp", "nbf"}
           /\ k = "issuer_account" => Shape[t][k] \in {"optional", "carried"}
           /\ k = "tags" => Shape[t][k] = "omitted"
           /\ k = "kind" /\ t = "activation" => Shape[t][k] = "always"
<1> USE DEF Shape, Fields, Omitted, Optional, Always, UserLimits
<1>1. CASE t = "operator" BY <1>1 DEF Types
<1>2. CASE t = "user" BY <1>2 DEF Types
<1>3. CASE t = "activation" BY <1>3 DEF Types
<1>4. CASE t = "authorization_request" BY <1>4 DEF Types
<1>5. CASE t = "authorization_response" BY <1>5 DEF Types
<1> QED BY <1>1, <1>2, <1>3, <1>4, <1>5 DEF Types

LEMMA FieldsAreKeys == ASSUME NEW t \in Types PROVE Fields[t] \subseteq Keys
BY DEF Fields

(* Which keys there are.                                                   *)
LEMMA ListedKeys ==
    ASSUME NEW t \in Types
    PROVE  Omitted[t] \subseteq Keys /\ Optional[t] \subseteq Keys /\ Always[t] \subseteq Keys
<1> DEFINE Listed(u) == Omitted[u] \cup Optional[u] \cup Always[u]
<1>1. Listed(t) \subseteq UNION {Listed(u) : u \in Types}
  <2> HIDE DEF Listed
  <2> QED OBVIOUS
<1>2. UNION {Listed(u) : u \in Types} \subseteq Keys
      BY DEF Keys
<1>3. Listed(t) \subseteq Keys
      BY <1>1, <1>2
<1> QED BY <1>3

LEMMA NamedKeys ==
    /\ Permissions \subseteq Keys /\ Moved \subseteq Keys /\ UserLimits \subseteq Keys
    /\ {"kind", "type", "issuer_account", "jwt", "error", "aud", "exp", "name", "tags",
        "subject", "user_nkey", "signing_keys"} \subseteq Keys
<1>1. \A t \in Types : Omitted[t] \subseteq Keys /\ Optional[t] \subseteq Keys /\ Always[t] \subseteq Keys
      BY ListedKeys
<1>2. {"src", "times", "times_location", "bearer_token", "proxy_required",
       "allowed_connection_types"} \subseteq Keys
      BY <1>1 DEF Types, Omitted
<1>3. {"resp", "issuer_account", "pub", "sub"} \subseteq Keys
      BY <1>1 DEF Types, Optional, Always
<1>4. {"kind", "subject", "user_nkey"} \subseteq Keys
      BY <1>1 DEF Types, Always
<1>5. {"jwt", "error", "signing_keys"} \subseteq Keys
      BY <1>1 DEF Types, Omitted
<1>6. UserLimits \subseteq Keys /\ {"name", "aud", "tags", "exp", "nbf", "type"} \subseteq Keys
      BY DEF Keys
<1> QED BY <1>2, <1>3, <1>4, <1>5, <1>6 DEF Permissions, Limits, Moved

(* A kind is a field of activations, connect options are one of requests.  *)
LEMMA StrictFields ==
    ASSUME NEW t \in Types
    PROVE  /\ \A k \in Strict[t] : /\ k \in Fields[t] /\ k \in Keys
                                    /\ k \notin Moved \cup Retired[t] \cup UserLimits
           /\ "kind" \in Strict[t] => t = "activation"
           /\ "connect_opts" \in Fields[t] => "connect_opts" \in Strict[t]
           /\ Strict[t] \subseteq {"kind", "connect_opts"}
           /\ "connect_opts" \in Strict[t] <=> t = "authorization_request"
<1>0. {"kind", "connect_opts"} \subseteq Keys
  <2>1. {"kind", "connect_opts"} \subseteq Always["activation"] \cup Always["authorization_request"]
        BY DEF Always
  <2> QED BY <2>1, ListedKeys DEF Types
<1> USE DEF Shape, Fields, Omitted, Optional, Always, UserLimits, Retired, Moved, Strict
<1>1. CASE t = "operator" BY <1>0, <1>1 DEF Types
<1>2. CASE t = "user" BY <1>0, <1>2 DEF Types
<1>3. CASE t = "activation" BY <1>0, <1>3 DEF Types
<1>4. CASE t = "authorization_request" BY <1>0, <1>4 DEF Types
<1>5. CASE t = "authorization_response" BY <1>0, <1>5 DEF Types
<1> QED BY <1>1, <1>2, <1>3, <1>4, <1>5 DEF Types

(* A permission is a field, and the scope leaves nothing of it.            *)
LEMMA PermissionShapes ==
    ASSUME NEW k \in Permissions
    PROVE  /\ k \in Keys /\ k \in Fields["user"]
           /\ k \notin {"exp", "nbf", "issuer_account", "kind", "connect_opts", "name", "tags"}
           /\ k \in UserLimits => Shape["user"][k] = "limit"
           /\ k = "resp" => Shape["user"][k] = "optional" /\ k \notin UserLimits
           /\ k \notin UserLimits \cup {"resp"} => Shape["user"][k] \in {"omitted", "always"}
<1>1. k \in Keys BY NamedKeys
<1> QED BY <1>1 DEF Permissions, Limits, UserLimits, Shape, Fields, Omitted, Optional, Always, Types

(* The keys that migration gives a place are fields, or of no use to nats. *)
LEMMA RetiredKeys ==
    ASSUME NEW t \in Types, NEW k \in Keys
    PROVE  /\ k \in Retired[t] => Shape[t][k] = "carried" /\ k \notin Moved \cup {"kind"}
           /\ t = "user" /\ k \in UserLimits => k \notin Moved \cup {"kind"}
           /\ k \in Moved => k # "kind"
<1> USE DEF Shape, Omitted, Optional, Always, UserLimits, Retired, Moved
<1>1. CASE t = "operator" BY <1>1 DEF Types
<1>2. CASE t = "user" BY <1>2 DEF Types
<1>3. CASE t = "activation" BY <1>3 DEF Types
<1>4. CASE t = "authorization_request" BY <1>4 DEF Types
<1>5. CASE t = "authorization_response" BY <1>5 DEF Types
<1> QED BY <1>1, <1>2, <1>3, <1>4, <1>5 DEF Types

(* The rules are about fields, and about no time.                          *)
LEMMA RuledFields ==
    ASSUME NEW t \in Types, NEW k \in Ruled[t] \cup Required[t]
    PROVE  k \in Fields[t] /\ k \in Keys /\ Shape[t][k] \notin {"time", "limit"}
<1> USE DEF Shape, Fields, Omitted, Optional, Always, UserLimits, Ruled, Required
<1>0. k \in Keys
  <2>1. {"account_server_url", "operator_service_urls", "system_account",
         "assert_server_version"} \subseteq Keys
        BY ListedKeys DEF Types, Omitted
  <2> QED BY <2>1, NamedKeys DEF Types, Permissions, Limits, Ruled, Required
<1>1. CASE t = "operator" BY <1>0, <1>1 DEF Types
<1>2. CASE t = "user" BY <1>0, <1>2 DEF Types
<1>3. CASE t = "activation" BY <1>0, <1>3 DEF Types
<1>4. CASE t = "authorization_request" BY <1>0, <1>4 DEF Types
<1>5. CASE t = "authorization_response" BY <1>0, <1>5 DEF Types
<1> QED BY <1>1, <1>2, <1>3, <1>4, <1>5 DEF Types

-----------------------------------------------------------------------------
(* A field on its way to the wire and back.                                *)

LEMMA HeldValues ==
    ASSUME NEW t \in Types, NEW k \in Keys
    PROVE  /\ Holds(t, k) \subseteq Values
           /\ {Absent, Blank, Unreadable} \subseteq Values /\ {-1, 0} \subseteq Values
           /\ Unreadable \in Holds(t, k) => k = "connect_opts"
BY BodyAssumption DEF Holds, DataOf, Values

(* What is read of a well-typed key is something the field may hold.       *)
LEMMA GetHolds ==
    ASSUME NEW t \in Types, NEW k \in Fields[t], NEW v \in Holds(t, k) \cup {Absent}
    PROVE  Get(t, k, v) \in Holds(t, k)
<1>1. k \in Keys BY FieldsAreKeys
<1>2. t = "user" /\ k = "issuer_account" => Absent \in Holds(t, k)
      BY <1>1, FieldShapes DEF Holds
<1>3. CASE v = Absent /\ ~(t = "user" /\ k = "issuer_account")
      BY <1>1, <1>3, FieldShapes, BodyAssumption DEF Get, Holds
<1>4. CASE v # Absent \/ (t = "user" /\ k = "issuer_account")
      BY <1>1, <1>2, <1>4, FieldShapes, BodyAssumption DEF Get
<1> QED BY <1>3, <1>4

(* What is written is well typed, ...                                      *)
LEMMA PutHolds ==
    ASSUME NEW t \in Types, NEW k \in Fields[t], NEW v \in Holds(t, k)
    PROVE  /\ Put(t, k, v) \in Holds(t, k) \cup {Absent, Unreadable}
           /\ Put(t, k, v) = Unreadable => \/ k = "kind" /\ t = "activation" /\ v = Blank
                                           \/ k = "connect_opts"
           /\ Put(t, k, v) = Unreadable => k \in Strict[t]
<1>1. k \in Keys BY FieldsAreKeys
<1>2. (v = Unreadable => k = "connect_opts") /\ Absent # Unreadable
      BY <1>1, HeldValues, BodyAssumption
<1>3. t = "activation" => "kind" \in Strict[t] BY DEF Strict, Types
<1> QED BY <1>1, <1>2, <1>3, StrictFields DEF Put

(* ... and means what the field held: a time that is not positive is none. *)
LEMMA RoundTrip ==
    ASSUME NEW t \in Types, NEW k \in Fields[t], NEW v \in Holds(t, k),
           t = "activation" /\ k = "kind" => v # Blank
    PROVE  /\ Shape[t][k] # "time" /\ (t = "user" /\ k = "issuer_account" => v # Blank)
               => Get(t, k, Put(t, k, v)) = v
           /\ Meaning(t, k, Get(t, k, Put(t, k, v))) = Meaning(t, k, v)
<1>1. k \in Keys BY FieldsAreKeys
<1>2. CASE Shape[t][k] = "omitted"
      BY <1>1, <1>2, FieldShapes, BodyAssumption DEF Get, Put, Holds, DataOf, Meaning
<1>3. CASE Shape[t][k] = "optional"
      BY <1>1, <1>3, FieldShapes, BodyAssumption DEF Get, Put, Holds, DataOf, Meaning
<1>4. CASE Shape[t][k] = "always"
      BY <1>1, <1>4, FieldShapes, BodyAssumption DEF Get, Put, Holds, DataOf, Meaning
<1>5. CASE Shape[t][k] = "limit"
      BY <1>1, <1>5, FieldShapes, BodyAssumption DEF Get, Put, Holds, DataOf, Meaning
<1>6. CASE Shape[t][k] = "time"
  <2>1. k \notin {"issuer_account", "kind"} /\ v \in Int /\ Absent \notin Int
        BY <1>1, <1>6, FieldShapes, BodyAssumption DEF Holds
  <2>2. CASE v <= 0
        BY <1>6, <2>1, <2>2 DEF Get, Put, Meaning
  <2>3. CASE ~(v <= 0)
        BY <1>6, <2>1, <2>3 DEF Get, Put, Meaning
  <2> QED BY <1>6, <2>2, <2>3
<1> QED BY <1>1, <1>2, <1>3, <1>4, <1>5, <1>6, FieldShapes

-----------------------------------------------------------------------------
(* Bodies, field by field.                                                 *)

LEMMA NatsTyped ==
    ASSUME NEW t \in Types, NEW w \in Tokens
    PROVE  Nats(t, w) \in [Keys -> Values]
<1>1. "type" \in Keys BY NamedKeys
<1>2. w.nats \in [Keys -> Values] /\ w.beside \in [Moved -> Values] BY DEF Tokens
<1>3. -1 \in Values /\ Absent \in Values BY <1>1, HeldValues
<1>4. \A k \in Keys : Migrate(t, w)[k] \in Values
      BY <1>1, <1>2, <1>3 DEF Migrate
<1>5. Migrate(t, w) \in [Keys -> Values] BY <1>4 DEF Migrate
<1> QED BY <1>2, <1>5 DEF Nats

(* A decodable token, of either version, gives every field a value it may  *)
(* hold: migration brings nothing in that the decoder would refuse.        *)
LEMMA ReadHolds ==
    ASSUME NEW t \in Types, NEW w \in Tokens, WellTyped(t, w), Decodable(t, w),
           w \in Foreign[t] \/ w.version = 2
    PROVE  /\ \A k \in Fields[t] : Nats(t, w)[k] \in Holds(t, k) \cup {Absent}
           /\ Read(t, w) \in [Fields[t] -> Values]
           /\ \A k \in Fields[t] : Read(t, w)[k] \in Holds(t, k)
<1>1. ASSUME NEW k \in Fields[t] PROVE Nats(t, w)[k] \in Holds(t, k) \cup {Absent}
  <2>1. k \in Keys BY FieldsAreKeys
  <2>2. /\ w.nats[k] \in Holds(t, k) \cup {Absent} \cup (IF k \in Strict[t] THEN {Unreadable} ELSE {})
        /\ k \in Moved => w.beside[k] \in Holds(t, k) \cup {Absent}
        BY DEF WellTyped
  <2>3. CASE w.version # 1
    <3>1. Nats(t, w)[k] = w.nats[k] BY <2>3 DEF Nats
    <3> QED BY <2>2, <3>1 DEF Decodable
  <2>4. CASE w.version = 1
    <3>1. Nats(t, w)[k] = Migrate(t, w)[k] /\ w \in Foreign[t] BY <2>4 DEF Nats
    <3>2. CASE k \in Strict[t]
      <4>1. k \notin Moved \cup Retired[t] \cup UserLimits /\ (k = "kind" => t = "activation")
            BY <3>2, StrictFields
      <4>2. Nats(t, w)[k] # Unreadable BY <3>2 DEF Decodable
      <4>3. w.nats["type"] \in Holds("activation", "kind") \cup {Absent, Unreadable}
            BY <3>1, ForeignAssumption
      <4>4. \/ Nats(t, w)[k] = w.nats[k]
            \/ k = "kind" /\ Nats(t, w)[k] = w.nats["type"]
            BY <2>1, <3>1, <4>1 DEF Migrate
      <4> QED BY <2>2, <4>1, <4>2, <4>3, <4>4
    <3>3. CASE k \notin Strict[t]
      <4>1. t = "user" /\ k \in UserLimits => -1 \in Holds(t, k)
            BY <2>1, FieldShapes, BodyAssumption DEF Holds
      <4>2. ~(t = "activation" /\ k = "kind") BY <3>3 DEF Strict, Types
      <4> QED BY <2>1, <2>2, <3>1, <3>3, <4>1, <4>2 DEF Migrate
    <3> QED BY <3>2, <3>3
  <2> QED BY <2>3, <2>4
<1>2. ASSUME NEW k \in Fields[t] PROVE Read(t, w)[k] \in Holds(t, k) /\ Holds(t, k) \subseteq Values
      BY <1>1, GetHolds, HeldValues, FieldsAreKeys DEF Read
<1>3. Read(t, w) \in [Fields[t] -> Values] BY <1>2 DEF Read
<1> QED BY <1>1, <1>2, <1>3

(* What is written is a token of version 2 that a decoder accepts.         *)
LEMMA WriteTyped ==
    ASSUME NEW t \in Types, NEW b, \A k \in Fields[t] : b[k] \in Holds(t, k),
           NEW raw \in [Keys -> Values]
    PROVE  /\ Write(t, b, raw) \in Tokens
           /\ WellTyped(t, Write(t, b, raw))
           /\ Write(t, b, raw).version = 2
           /\ Write(t, b, raw) # NoToken
<1> DEFINE w == Write(t, b, raw)
<1>1. w.version = 2 /\ w.beside = [k \in Moved |-> Absent]
      /\ w.nats = [k \in Keys |-> IF k \in Fields[t] THEN Put(t, k, b[k]) ELSE raw[k]]
      BY DEF Write
<1>2. \A k \in Fields[t] : /\ w.nats[k] = Put(t, k, b[k])
                          /\ Put(t, k, b[k]) \in Values
      BY <1>1, PutHolds, HeldValues, FieldsAreKeys
<1>3. w.nats \in [Keys -> Values]
      BY <1>1, <1>2
<1>4. w \in Tokens
  <2>1. [k \in Moved |-> Absent] \in [Moved -> Values] BY DEF Values
  <2> QED BY <1>1, <1>3, <2>1 DEF Tokens, Write
<1>5. ASSUME NEW k \in Fields[t]
      PROVE  /\ w.nats[k] \in Holds(t, k) \cup {Absent}
                              \cup (IF k \in Strict[t] THEN {Unreadable} ELSE {})
             /\ k \in Moved => w.beside[k] \in Holds(t, k) \cup {Absent}
      BY <1>1, <1>2, PutHolds
<1>6. WellTyped(t, w) BY <1>5 DEF WellTyped
<1> QED BY <1>1, <1>4, <1>6, BodyAssumption

(* A valid body is read back as it was, but for times that are none; only  *)
(* a negative protocol is not read at all.                                 *)
LEMMA ValidIsReencodable ==
    ASSUME NEW t \in Types, NEW b, \A k \in Fields[t] : b[k] \in Holds(t, k), Valid(t, b),
           NEW raw \in [Keys -> Values]
    PROVE  /\ Decodable(t, Write(t, b, raw)) <=> ~NegativeProtocol(t, Write(t, b, raw))
           /\ Valid(t, Read(t, Write(t, b, raw)))
           /\ \A k \in Fields[t] : Shape[t][k] # "time" => Read(t, Write(t, b, raw))[k] = b[k]
<1> DEFINE w == Write(t, b, raw)
<1>1. Nats(t, w) = [k \in Keys |-> IF k \in Fields[t] THEN Put(t, k, b[k]) ELSE raw[k]]
      BY DEF Write, Nats
<1>2. t = "activation" => "kind" \in Fields[t] /\ b["kind"] # Blank
      BY RuledFields DEF Valid, Required
<1>3. t = "user" /\ "issuer_account" \in Fields[t] => b["issuer_account"] # Blank
      BY DEF Valid, Required
<1>4. ASSUME NEW k \in Fields[t], Shape[t][k] # "time" PROVE Read(t, w)[k] = b[k]
  <2>1. Read(t, w)[k] = Get(t, k, Put(t, k, b[k]))
        BY <1>1, FieldsAreKeys DEF Read
  <2> QED BY <1>2, <1>3, <1>4, <2>1, RoundTrip
<1>5. Decodable(t, w) <=> ~NegativeProtocol(t, w)
  <2>1. w.nats = Nats(t, w) BY DEF Write, Nats
  <2>2. ASSUME NegativeProtocol(t, w) PROVE ~Decodable(t, w)
        BY <2>1, <2>2, StrictFields DEF NegativeProtocol, Decodable
  <2>3. ASSUME NEW k \in Strict[t], Nats(t, w)[k] = Unreadable PROVE NegativeProtocol(t, w)
    <3>1. k \in Keys /\ k \in Fields[t] BY StrictFields
    <3>2. Put(t, k, b[k]) = Unreadable BY <1>1, <2>3, <3>1
    <3>3. k = "connect_opts" BY <1>2, <3>1, <3>2, PutHolds
    <3> QED BY <2>1, <2>3, <3>3, StrictFields DEF NegativeProtocol
  <2> QED BY <2>2, <2>3 DEF Decodable
<1>6. \A k \in Ruled[t] \cup Required[t] : Read(t, w)[k] = b[k]
      BY <1>4, RuledFields
<1>7. t = "authorization_response" => Read(t, w)["jwt"] = b["jwt"] /\ Read(t, w)["error"] = b["error"]
  <2>1. SUFFICES ASSUME t = "authorization_response"
                 PROVE  /\ {"jwt", "error"} \subseteq Fields[t]
                        /\ Shape[t]["jwt"] # "time" /\ Shape[t]["error"] # "time"
        BY <1>4
  <2> QED BY <2>1, NamedKeys DEF Shape, Fields, Omitted, Types
<1>8. Valid(t, Read(t, w))
      BY <1>6, <1>7 DEF Valid
<1> QED BY <1>4, <1>5, <1>8

-----------------------------------------------------------------------------
(* Bodies the library makes itself.                                        *)

LEMMA FreshHolds ==
    ASSUME NEW t \in Types
    PROVE  /\ Fresh(t) \in [Fields[t] -> Values]
           /\ \A k \in Fields[t] : Fresh(t)[k] \in Holds(t, k)
<1>1. ASSUME NEW k \in Fields[t] PROVE Fresh(t)[k] \in Holds(t, k) /\ Holds(t, k) \subseteq Values
      BY FieldsAreKeys, FieldShapes, HeldValues, BodyAssumption DEF Fresh, Holds
<1>2. Fresh(t) \in [Fields[t] -> Values] BY <1>1 DEF Fresh
<1> QED BY <1>1, <1>2

LEMMA DeniedHolds ==
    ASSUME NEW k \in Permissions
    PROVE  /\ Denied(k) \in Holds("user", k)
           /\ k \in Limits => Unlimited(k) \in Holds("user", k)
           /\ Put("user", k, Denied(k)) \in {Absent, Blank}
           /\ k = "resp" => Put("user", k, Denied(k)) = Absent
<1>1. "user" \in Types BY DEF Types
<1>2. CASE k \in UserLimits
      BY <1>1, <1>2, PermissionShapes, BodyAssumption DEF Denied, Unlimited, Holds, Put
<1>3. CASE k = "resp"
      BY <1>1, <1>3, PermissionShapes, BodyAssumption DEF Denied, Holds, Put, Limits, UserLimits
<1>4. CASE k \notin UserLimits \cup {"resp"}
      BY <1>1, <1>4, PermissionShapes, BodyAssumption DEF Denied, Unlimited, Holds, Put
<1> QED BY <1>2, <1>3, <1>4

LEMMA ScopedHolds ==
    ASSUME NEW b \in [Fields["user"] -> Values], \A k \in Fields["user"] : b[k] \in Holds("user", k)
    PROVE  /\ Scoped(b) \in [Fields["user"] -> Values]
           /\ \A k \in Fields["user"] : Scoped(b)[k] \in Holds("user", k)
           /\ hasEmptyPermissions(Scoped(b))
<1>1. "user" \in Types BY DEF Types
<1>2. ASSUME NEW k \in Fields["user"]
      PROVE  Scoped(b)[k] \in Holds("user", k) /\ Scoped(b)[k] \in Values
      BY <1>1, DeniedHolds, HeldValues, FieldsAreKeys DEF Scoped
<1>3. Scoped(b) \in [Fields["user"] -> Values] BY <1>2 DEF Scoped
<1>4. hasEmptyPermissions(Scoped(b)) BY PermissionShapes DEF Scoped, hasEmptyPermissions
<1> QED BY <1>2, <1>3, <1>4

(* A body without permissions is written and read as one.                  *)
LEMMA NoPermissionsOnTheWire ==
    ASSUME NEW b, hasEmptyPermissions(b), NEW raw
    PROVE  CarriesNoPermissions(Write("user", b, raw))
<1>1. ASSUME NEW k \in Permissions
      PROVE  /\ Write("user", b, raw).nats[k] \in {Absent, Blank}
             /\ k = "resp" => Write("user", b, raw).nats[k] = Absent
      BY PermissionShapes, DeniedHolds DEF Write, hasEmptyPermissions
<1>2. "resp" \in Permissions BY DEF Permissions
<1> QED BY <1>1, <1>2 DEF CarriesNoPermissions, Write

LEMMA NoPermissionsRead ==
    ASSUME NEW w, CarriesNoPermissions(w), WellTyped("user", w)
    PROVE  hasEmptyPermissions(Read("user", w))
<1>1. ASSUME NEW k \in Permissions PROVE Read("user", w)[k] = Denied(k)
  <2>1. Read("user", w)[k] = Get("user", k, w.nats[k])
        BY PermissionShapes DEF Read, Nats, CarriesNoPermissions
  <2>2. /\ w.nats[k] \in {Absent, Blank} \/ (k \in UserLimits /\ w.nats[k] = 0)
        /\ k = "resp" => w.nats[k] = Absent
        BY DEF CarriesNoPermissions
  <2>3. k \in UserLimits => w.nats[k] # Blank
        BY PermissionShapes, BodyAssumption DEF WellTyped, Holds
  <2> QED BY <2>1, <2>2, <2>3, PermissionShapes, BodyAssumption DEF Get, Denied
<1> QED BY <1>1 DEF hasEmptyPermissions

-----------------------------------------------------------------------------
(* The invariant.                                                          *)

LEMMA InitialInvariant == Init => TypeOK /\ IInv
<1> SUFFICES ASSUME Init PROVE TypeOK /\ IInv
    OBVIOUS
<1>1. body \in [Fields[type] -> Values] /\ \A k \in Fields[type] : body[k] \in Holds(type, k)
      BY FreshHolds DEF Init
<1>2. natsRaw \in [Keys -> Values] BY DEF Init, NothingCarried, Values
<1>3. Foreign[type] \subseteq Tokens /\ \A w \in Foreign[type] : WellTyped(type, w)
      BY ForeignAssumption DEF Init
<1>4. TypeOK
  <2>1. type \in Types /\ published \in Tokens \cup {NoToken} /\ scoped = FALSE
        BY <1>3 DEF Init
  <2>2. edits \in 0..MaxEdits BY BodyAssumption DEF Init
  <2> QED BY <1>1, <1>2, <2>1, <2>2 DEF TypeOK
<1>5. IInv BY <1>3 DEF Init, IInv, EncodedIsReencodable
<1> QED BY <1>4, <1>5

(* A token of a valid body keeps what IInv says of the published one.      *)
LEMMA PublishedToken ==
    ASSUME NEW t \in Types, NEW b, \A k \in Fields[t] : b[k] \in Holds(t, k), Valid(t, b),
           NEW raw \in [Keys -> Values]
    PROVE  /\ Write(t, b, raw) \in Tokens
           /\ WellTyped(t, Write(t, b, raw)) /\ Write(t, b, raw).version = 2
           /\ Decodable(t, Write(t, b, raw)) <=> ~NegativeProtocol(t, Write(t, b, raw))
           /\ Valid(t, Read(t, Write(t, b, raw)))
BY WriteTyped, ValidIsReencodable

(* The claims issueUserJWT makes.                                          *)
Issued(account, name, exp, tags) ==
    [Scoped(Fresh("user")) EXCEPT !["issuer_account"] = account, !["name"] = name,
                                  !["exp"] = exp, !["tags"] = tags]

LEMMA IssuedHolds ==
    ASSUME NEW account \in Data \ Unsound, NEW name \in Data \ Unsound,
           NEW exp \in Moments, NEW tags \in DataOf("user", "tags")
    PROVE  LET b == Issued(account, name, exp, tags)
           IN  /\ \A k \in Fields["user"] : b[k] \in Holds("user", k)
               /\ hasEmptyPermissions(b)
               /\ \A k \in Fields["user"] \ (Permissions \cup {"issuer_account", "name", "exp", "tags"}) :
                      b[k] = Fresh("user")[k]
<1> DEFINE b == Issued(account, name, exp, tags)
<1>1. "user" \in Types BY DEF Types
<1>2. Scoped(Fresh("user")) \in [Fields["user"] -> Values]
      /\ \A k \in Fields["user"] : Scoped(Fresh("user"))[k] \in Holds("user", k)
      /\ hasEmptyPermissions(Scoped(Fresh("user")))
      BY <1>1, FreshHolds, ScopedHolds
<1>3. \A k \in Fields["user"] :
          b[k] = CASE k = "issuer_account" -> account [] k = "name" -> name
                   [] k = "exp" -> exp [] k = "tags" -> tags
                   [] OTHER -> Scoped(Fresh("user"))[k]
      BY <1>2 DEF Issued
<1>4. account \in Holds("user", "issuer_account") /\ name \in Holds("user", "name")
      /\ exp \in Holds("user", "exp") /\ tags \in Holds("user", "tags")
  <2>1. Shape["user"]["issuer_account"] = "optional" /\ Shape["user"]["name"] = "omitted"
        /\ Shape["user"]["exp"] = "time" /\ Shape["user"]["tags"] = "omitted"
        BY <1>1, NamedKeys DEF Shape, Omitted, Optional, Always, UserLimits
  <2>2. "name" \notin Ruled["user"] BY DEF Ruled
  <2> QED BY <2>1, <2>2 DEF Holds, DataOf
<1>5. \A k \in Fields["user"] : b[k] \in Holds("user", k)
      BY <1>2, <1>3, <1>4
<1>6. hasEmptyPermissions(b)
      BY <1>2, <1>3, PermissionShapes DEF hasEmptyPermissions
<1>7. \A k \in Fields["user"] \ (Permissions \cup {"issuer_account", "name", "exp", "tags"}) :
          b[k] = Fresh("user")[k]
  <2>1. DOMAIN Fresh("user") = Fields["user"] BY DEF Fresh
  <2> QED BY <1>3, <2>1 DEF Scoped
<1> QED BY <1>5, <1>6, <1>7

LEMMA NextInvariant == TypeOK /\ IInv /\ [Next]_vars => TypeOK' /\ IInv'
<1> SUFFICES ASSUME TypeOK, IInv, [Next]_vars PROVE TypeOK' /\ IInv'
    OBVIOUS
<1>0. type \in Types /\ Fields[type] \subseteq Keys
      BY FieldsAreKeys DEF TypeOK
<1>1. ASSUME NEW k \in Fields[type], NEW v \in Holds(type, k), Set(k, v) PROVE TypeOK' /\ IInv'
  <2> DEFINE u == IF type = "user" /\ k = "issuer_account" /\ v = Blank THEN Absent ELSE v
  <2>1. u \in Holds(type, k) /\ u \in Values
        BY <1>0, FieldShapes, HeldValues DEF Holds
  <2>2. body' = [body EXCEPT ![k] = u] BY <1>1 DEF Set
  <2>3. /\ body' \in [Fields[type] -> Values]
        /\ \A f \in Fields[type] : body'[f] \in Holds(type, f)
        BY <2>1, <2>2 DEF TypeOK
  <2>4. edits' \in 0..MaxEdits BY <1>1, BodyAssumption DEF Set, TypeOK
  <2>5. TypeOK' BY <1>1, <2>3, <2>4 DEF Set, TypeOK
  <2>6. (scoped => hasEmptyPermissions(body))'
        BY <1>1, <2>2, PermissionShapes DEF Set, IInv, TypeOK, hasEmptyPermissions
  <2> QED BY <1>1, <2>5, <2>6 DEF Set, IInv, EncodedIsReencodable
<1>2. ASSUME NEW on \in BOOLEAN, setScoped(on) PROVE TypeOK' /\ IInv'
  <2>1. type = "user" BY <1>2 DEF setScoped
  <2>2. /\ body' \in [Fields[type] -> Values]
        /\ \A f \in Fields[type] : body'[f] \in Holds(type, f)
        /\ on => hasEmptyPermissions(body')
    <3>1. CASE on
          BY <1>2, <2>1, <3>1, ScopedHolds DEF setScoped, TypeOK
    <3>2. CASE ~on
      <4>1. body' = [k \in Fields[type] |-> IF k \in Limits THEN Unlimited(k) ELSE body[k]]
            BY <1>2, <3>2 DEF setScoped, TypeOK
      <4>2. ASSUME NEW k \in Limits
            PROVE  Unlimited(k) \in Holds("user", k) /\ Unlimited(k) \in Values
            BY <1>0, <2>1, DeniedHolds, PermissionShapes, HeldValues DEF Permissions
      <4> QED BY <2>1, <3>2, <4>1, <4>2 DEF TypeOK
    <3> QED BY <3>1, <3>2
  <2>3. edits' \in 0..MaxEdits BY <1>2, BodyAssumption DEF setScoped, TypeOK
  <2>4. TypeOK' BY <1>2, <2>1, <2>2, <2>3 DEF setScoped, TypeOK
  <2> QED BY <1>2, <2>2, <2>4 DEF setScoped, IInv, EncodedIsReencodable
<1>3. ASSUME construct PROVE TypeOK' /\ IInv'
  <2>1. TypeOK' BY <1>0, <1>3, FreshHolds DEF construct, TypeOK, NothingCarried, Values
  <2> QED BY <1>3, <2>1 DEF construct, IInv, EncodedIsReencodable
<1>4. ASSUME decode PROVE TypeOK' /\ IInv'
  <2>1. /\ published \in Tokens /\ WellTyped(type, published) /\ Decodable(type, published)
        /\ published \in Foreign[type] \/ published.version = 2
        BY <1>4 DEF decode, TypeOK, IInv
  <2>2. TypeOK'
        BY <1>0, <1>4, <2>1, NatsTyped, ReadHolds DEF decode, TypeOK
  <2>3. (scoped => hasEmptyPermissions(body))'
        BY <1>4, <2>1, NoPermissionsRead DEF decode
  <2> QED BY <1>4, <2>2, <2>3 DEF decode, IInv, EncodedIsReencodable
<1>5. ASSUME encode PROVE TypeOK' /\ IInv'
  <2>1. /\ published' \in Tokens /\ WellTyped(type, published') /\ published'.version = 2
        /\ Decodable(type, published') <=> ~NegativeProtocol(type, published')
        /\ Valid(type, Read(type, published'))
        BY <1>0, <1>5, PublishedToken DEF encode, TypeOK
  <2> QED BY <1>5, <2>1 DEF encode, TypeOK, IInv, EncodedIsReencodable
<1>6. ASSUME NEW account \in Data \ Unsound, NEW name \in Data \ Unsound,
             NEW exp \in Moments, NEW tags \in DataOf("user", "tags"),
             issueUserJWT(account, name, exp, tags)
      PROVE  TypeOK' /\ IInv'
  <2>1. /\ published' = Write("user", Issued(account, name, exp, tags), NothingCarried)
        /\ Valid("user", Issued(account, name, exp, tags)) /\ type = "user"
        BY <1>6 DEF issueUserJWT, Issued
  <2>2. NothingCarried \in [Keys -> Values] BY DEF NothingCarried, Values
  <2>3. /\ published' \in Tokens /\ WellTyped(type, published') /\ published'.version = 2
        /\ Decodable(type, published') <=> ~NegativeProtocol(type, published')
        /\ Valid(type, Read(type, published'))
        BY <1>0, <2>1, <2>2, IssuedHolds, PublishedToken
  <2> QED BY <1>6, <2>3 DEF issueUserJWT, TypeOK, IInv, EncodedIsReencodable
<1>7. ASSUME UNCHANGED vars PROVE TypeOK' /\ IInv'
      BY <1>7 DEF vars, TypeOK, IInv, EncodedIsReencodable
<1> QED BY <1>1, <1>2, <1>3, <1>4, <1>5, <1>6, <1>7 DEF Next

(* Everything has its type: in particular a decoded field, also of a token *)
(* of version 1, is one that a setter could have set (decodeEnvelope,      *)
(* decodeUserClaims and the others).                                       *)
THEOREM TypeCorrect == Spec => []TypeOK
<1>1. Init => TypeOK /\ IInv BY InitialInvariant
<1>2. TypeOK /\ IInv /\ [Next]_vars => TypeOK' /\ IInv' BY NextInvariant
<1> QED BY <1>1, <1>2, PTL DEF Spec

(* The invariant the others rest on: of scoped objects, and of the tokens  *)
(* that encode and issueUserJWT put out.                                   *)
THEOREM BodyInvariant == Spec => []IInv
<1>1. Init => TypeOK /\ IInv BY InitialInvariant
<1>2. TypeOK /\ IInv /\ [Next]_vars => TypeOK' /\ IInv' BY NextInvariant
<1> QED BY <1>1, <1>2, PTL DEF Spec

(* What encode puts out, decode takes, and encode accepts it again, but    *)
(* for a request with a negative protocol, which no decoder takes.         *)
THEOREM EncodedStaysReencodable == Spec => []EncodedIsReencodable
<1>1. IInv => EncodedIsReencodable BY DEF IInv
<1> QED BY <1>1, BodyInvariant, PTL

(* No token of a scoped user says a permission or a limit, and none is     *)
(* read of it (setScoped, encodeUserJWT, decodeUserClaims).                *)
THEOREM ScopedUserStays == Spec => ScopedStaysScoped
<1>1. TypeOK /\ IInv /\ encode /\ scoped
          => /\ CarriesNoPermissions(published')
             /\ hasEmptyPermissions(Read("user", published'))
  <2> SUFFICES ASSUME TypeOK, IInv, encode, scoped
               PROVE  /\ CarriesNoPermissions(published')
                      /\ hasEmptyPermissions(Read("user", published'))
      OBVIOUS
  <2>1. /\ type = "user" /\ type \in Types /\ hasEmptyPermissions(body)
        /\ published' = Write("user", body, natsRaw)
        BY DEF TypeOK, IInv, encode
  <2>2. CarriesNoPermissions(published') BY <2>1, NoPermissionsOnTheWire
  <2>3. WellTyped("user", published') BY <2>1, WriteTyped DEF TypeOK
  <2> QED BY <2>2, <2>3, NoPermissionsRead
<1> QED BY <1>1, TypeCorrect, BodyInvariant, PTL DEF ScopedStaysScoped

-----------------------------------------------------------------------------
(* The refinement: what a body means.                                      *)

LEMMA CarriedMeaning ==
    ASSUME NEW t \in Types, NEW k \in Keys \ Fields[t], NEW v
    PROVE  /\ Get(t, k, v) = v
           /\ Meaning(t, k, Absent) = Absent
<1>1. Shape[t][k] = "carried" BY FieldShapes
<1>2. ~(t = "user" /\ k = "issuer_account")
      BY <1>1 DEF Shape, Omitted, Optional, Types
<1> QED BY <1>1, <1>2, BodyAssumption DEF Get, Meaning

(* A token means what the body meant that it was written from, ...         *)
LEMMA WrittenMeaning ==
    ASSUME NEW t \in Types, NEW b, \A k \in Fields[t] : b[k] \in Holds(t, k), Valid(t, b),
           NEW raw \in [Keys -> Values]
    PROVE  Enforced(t, Write(t, b, raw)) = PolicyOf(t, b, raw)
<1> DEFINE w == Write(t, b, raw)
<1>1. w.version = 2
      /\ w.nats = [k \in Keys |-> IF k \in Fields[t] THEN Put(t, k, b[k]) ELSE raw[k]]
      BY DEF Write
<1>2. t = "activation" => b["kind"] # Blank BY DEF Valid, Required
<1>3. ASSUME NEW k \in Keys
      PROVE  Meaning(t, k, Get(t, k, w.nats[k]))
                 = Meaning(t, k, IF k \in Fields[t] THEN b[k] ELSE raw[k])
  <2>1. CASE k \in Fields[t] BY <1>1, <1>2, <2>1, RoundTrip
  <2>2. CASE k \notin Fields[t] BY <1>1, <2>2, CarriedMeaning
  <2> QED BY <2>1, <2>2
<1>4. Enforced(t, w) = [k \in Keys |-> Meaning(t, k, Get(t, k, w.nats[k]))]
      BY <1>1 DEF Enforced
<1>5. PolicyOf(t, b, raw)
          = [k \in Keys |-> Meaning(t, k, IF k \in Fields[t] THEN b[k] ELSE raw[k])]
      BY DEF PolicyOf
<1> QED BY <1>3, <1>4, <1>5

(* ... and a body what the token meant that it was read from, migrated or  *)
(* not.                                                                    *)
LEMMA ReadMeaning ==
    ASSUME NEW t \in Types, NEW w \in Tokens, w \in Foreign[t] \/ w.version = 2
    PROVE  PolicyOf(t, Read(t, w), Nats(t, w)) = Enforced(t, w)
<1> DEFINE old(k) == CASE t = "activation" /\ k = "kind"     -> w.nats["type"]
                       [] k \in Moved /\ w.beside[k] # Absent -> w.beside[k]
                       [] OTHER                               -> w.nats[k]
<1>1. ASSUME NEW k \in Keys
      PROVE  PolicyOf(t, Read(t, w), Nats(t, w))[k] = Meaning(t, k, Get(t, k, Nats(t, w)[k]))
      BY CarriedMeaning DEF PolicyOf, Read
<1>2. CASE w.version = 2
  <2>1. Nats(t, w) = w.nats BY <1>2 DEF Nats
  <2>2. Enforced(t, w) = [k \in Keys |-> Meaning(t, k, Get(t, k, w.nats[k]))]
        BY <1>2 DEF Enforced
  <2> QED BY <1>1, <2>1, <2>2 DEF PolicyOf
<1>3. CASE w.version = 1
  <2>1. Nats(t, w) = Migrate(t, w) /\ (t = "activation" => w.nats["kind"] = Absent)
        BY <1>3, ForeignAssumption DEF Nats
  <2>2. ASSUME NEW k \in Keys
        PROVE  Enforced(t, w)[k] = CASE k \in Retired[t] -> Absent
                   [] t = "user" /\ k \in UserLimits /\ old(k) = Absent -> -1
                   [] OTHER -> Meaning(t, k, Get(t, k, old(k)))
        BY <1>3 DEF Enforced
  <2>3. ASSUME NEW k \in Keys
        PROVE  Meaning(t, k, Get(t, k, Nats(t, w)[k])) = Enforced(t, w)[k]
    <3>1. CASE k \in Retired[t]
      <4>1. Nats(t, w)[k] = Absent /\ k \notin Fields[t]
            BY <2>1, <3>1, RetiredKeys, FieldShapes DEF Migrate
      <4>2. ~(t = "user" /\ k \in UserLimits) BY <3>1, RetiredKeys, FieldShapes
      <4>3. Enforced(t, w)[k] = Absent BY <2>2, <3>1, <4>2
      <4> QED BY <4>1, <4>3, CarriedMeaning
    <3>2. CASE k \notin Retired[t] /\ t = "user" /\ k \in UserLimits /\ w.nats[k] = Absent
      <4>1. Nats(t, w)[k] = -1 /\ old(k) = Absent
            BY <2>1, <3>2, RetiredKeys DEF Migrate
      <4>2. Enforced(t, w)[k] = -1 BY <2>2, <3>2, <4>1
      <4>3. Meaning(t, k, Get(t, k, -1)) = -1
            BY <3>2, FieldShapes, BodyAssumption DEF Get, Meaning, UserLimits
      <4> QED BY <4>1, <4>2, <4>3
    <3>3. CASE k \notin Retired[t] /\ ~(t = "user" /\ k \in UserLimits /\ w.nats[k] = Absent)
      <4>1. Nats(t, w)[k] = old(k)
            BY <2>1, <3>3, RetiredKeys DEF Migrate
      <4>2. t = "user" /\ k \in UserLimits => old(k) # Absent
            BY <3>3, RetiredKeys
      <4>3. Enforced(t, w)[k] = Meaning(t, k, Get(t, k, old(k)))
            BY <2>2, <3>3, <4>2
      <4> QED BY <4>1, <4>3
    <3> QED BY <3>1, <3>2, <3>3
  <2>4. Enforced(t, w) = [k \in Keys |-> Enforced(t, w)[k]]
        BY <1>3 DEF Enforced
  <2> QED BY <1>1, <2>3, <2>4 DEF PolicyOf
<1> QED BY <1>2, <1>3 DEF Tokens

LEMMA DeniedMeaning ==
    ASSUME NEW k \in Permissions
    PROVE  /\ Meaning("user", k, Denied(k)) = Denied(k)
           /\ Meaning("user", k, Unlimited(k)) = Unlimited(k)
<1>1. k \in Keys /\ k \notin {"exp", "nbf", "issuer_account"} /\ "user" \in Types
      BY PermissionShapes DEF Types
<1> QED BY <1>1, FieldShapes DEF Meaning

(* Setters, scopes, migration, decode and encode implement Resigning: no   *)
(* setting is lost, revived or changed between an object and its token.    *)
THEOREM BodiesImplementResigning == Spec => ImplementsResigning
<1> DEFINE draft == PolicyOf(type, body, natsRaw)
           out   == IF published = NoToken THEN {} ELSE {Enforced(type, published)}
           fresh == PolicyOf(type, Fresh(type), NothingCarried)
<1>0. DOMAIN draft = Keys /\ DOMAIN draft' = Keys /\ DOMAIN fresh = Keys
      BY DEF PolicyOf
<1>1. Init => Policy!Init
      BY DEF Init, Policy!Init
<1>2. TypeOK /\ IInv /\ TypeOK' /\ [Next]_vars => [Policy!Next]_(Policy!vars)
  <2> SUFFICES ASSUME TypeOK, IInv, TypeOK', [Next]_vars PROVE [Policy!Next]_(Policy!vars)
      OBVIOUS
  <2>0. type \in Types /\ Fields[type] \subseteq Keys
        BY FieldsAreKeys DEF TypeOK
  <2>1. ASSUME NEW k \in Fields[type], NEW v \in Holds(type, k), Set(k, v) PROVE Policy!Configure
    <3>1. \A f \in Keys \ {k} : draft'[f] = draft[f]
          BY <2>1 DEF Set, PolicyOf, TypeOK
    <3>2. Policy!Changed \subseteq {k} BY <1>0, <3>1 DEF Policy!Changed
    <3> QED BY <2>1, <3>2 DEF Set, Policy!Configure
  <2>2. ASSUME NEW on \in BOOLEAN, setScoped(on) PROVE Policy!Scope \/ Policy!Unscope
    <3>1. type = "user" /\ type' = "user" /\ natsRaw' = natsRaw BY <2>2 DEF setScoped
    <3>2. DOMAIN body = Fields["user"] BY <3>1 DEF TypeOK
    <3>3. UNCHANGED <<Fields[type], fresh, out>> BY <2>2 DEF setScoped
    <3>4. CASE on
      <4>1. \A f \in Keys : draft'[f] = IF f \in Permissions THEN Denied(f) ELSE draft[f]
            BY <2>2, <3>1, <3>2, <3>4, PermissionShapes, DeniedMeaning DEF setScoped, Scoped, PolicyOf
      <4>2. draft' = [f \in DOMAIN draft |-> IF f \in Permissions THEN Denied(f) ELSE draft[f]]
            BY <1>0, <4>1 DEF PolicyOf
      <4> QED BY <3>3, <4>2 DEF Policy!Scope
    <3>5. CASE ~on
      <4>1. Limits \subseteq Permissions BY DEF Permissions
      <4>2. \A f \in Keys : draft'[f] = IF f \in Limits THEN Unlimited(f) ELSE draft[f]
            BY <2>2, <3>1, <3>2, <3>5, <4>1, PermissionShapes, DeniedMeaning DEF setScoped, PolicyOf
      <4>3. draft' = [f \in DOMAIN draft |-> IF f \in Limits THEN Unlimited(f) ELSE draft[f]]
            BY <1>0, <4>2 DEF PolicyOf
      <4> QED BY <3>3, <4>3 DEF Policy!Unscope
    <3> QED BY <3>4, <3>5
  <2>3. ASSUME construct PROVE Policy!Begin
        BY <2>3 DEF construct, Policy!Begin
  <2>4. ASSUME decode PROVE Policy!Load
    <3>1. published \in Tokens /\ (published \in Foreign[type] \/ published.version = 2)
          BY <2>4 DEF decode, TypeOK, IInv
    <3>2. draft' = Enforced(type, published)
          BY <2>0, <2>4, <3>1, ReadMeaning DEF decode
    <3> QED BY <2>4, <3>2 DEF decode, Policy!Load
  <2>5. ASSUME encode PROVE Policy!Publish
    <3>1. published' = Write(type, body, natsRaw) /\ published' # NoToken
          BY <2>0, <2>5, WriteTyped DEF encode, TypeOK
    <3>2. Enforced(type, published') = draft
          BY <2>0, <2>5, <3>1, WrittenMeaning DEF encode, TypeOK
    <3> QED BY <2>5, <3>1, <3>2 DEF encode, Policy!Publish
  <2>6. ASSUME NEW account \in Data \ Unsound, NEW name \in Data \ Unsound,
               NEW exp \in Moments, NEW tags \in DataOf("user", "tags"),
               issueUserJWT(account, name, exp, tags)
        PROVE  Policy!Issue
    <3> DEFINE b == Issued(account, name, exp, tags)
               policy == PolicyOf("user", b, NothingCarried)
    <3>1. /\ published' = Write("user", b, NothingCarried) /\ Valid("user", b)
          /\ type = "user" /\ UNCHANGED <<type, body, natsRaw>>
          BY <2>6 DEF issueUserJWT, Issued
    <3>2. NothingCarried \in [Keys -> Values] BY DEF NothingCarried, Values
    <3>3. (\A k \in Fields["user"] : b[k] \in Holds("user", k)) /\ hasEmptyPermissions(b)
          BY IssuedHolds
    <3>4. \A k \in Fields["user"] \ (Permissions \cup {"issuer_account", "name", "exp", "tags"}) :
              b[k] = Fresh("user")[k]
          BY IssuedHolds
    <3> HIDE DEF b
    <3>5. Enforced("user", published') = policy /\ published' # NoToken
          BY <2>0, <3>1, <3>2, <3>3, WriteTyped, WrittenMeaning
    <3>6. ASSUME NEW f \in Keys \ {"issuer_account", "name", "exp", "tags"}
          PROVE  policy[f] = IF f \in Permissions THEN Denied(f) ELSE fresh[f]
      <4>1. CASE f \in Permissions
            BY <3>3, <4>1, PermissionShapes, DeniedMeaning DEF PolicyOf, hasEmptyPermissions
      <4>2. CASE f \in Fields["user"] \ Permissions
        <5>1. b[f] = Fresh("user")[f] BY <3>4, <3>6, <4>2
        <5> QED BY <3>1, <4>2, <5>1 DEF PolicyOf
      <4>3. CASE f \notin Fields["user"] \cup Permissions
            BY <3>1, <4>3 DEF PolicyOf
      <4> QED BY <4>1, <4>2, <4>3
    <3>7. out' = {policy} /\ DOMAIN policy = DOMAIN fresh BY <3>1, <3>5 DEF PolicyOf
    <3>8. \A f \in DOMAIN fresh \ {"issuer_account", "name", "exp", "tags"} :
              policy[f] = IF f \in Permissions THEN Denied(f) ELSE fresh[f]
          BY <1>0, <3>6
    <3> HIDE DEF policy
    <3> QED BY <3>1, <3>7, <3>8 DEF Policy!Issue
  <2>7. ASSUME UNCHANGED vars PROVE UNCHANGED Policy!vars
        BY <2>7 DEF vars, Policy!vars
  <2> QED BY <2>1, <2>2, <2>3, <2>4, <2>5, <2>6, <2>7 DEF Next, Policy!Next
<1>3. Spec => [](TypeOK /\ IInv) BY TypeCorrect, BodyInvariant, PTL
<1> QED BY <1>1, <1>2, <1>3, PTL DEF Spec, ImplementsResigning, Policy!Spec
-----------------------------------------------------------------------------
(* One round of signing again is all it takes.                             *)

(* A field goes back on the wire as it was read from there.                *)
LEMMA PutSettles ==
    ASSUME NEW t \in Types, NEW k \in Fields[t], NEW v \in Holds(t, k),
           t = "activation" /\ k = "kind" => v # Blank,
           t = "user" /\ k = "issuer_account" => v # Blank
    PROVE  Put(t, k, Get(t, k, Put(t, k, v))) = Put(t, k, v)
<1>1. k \in Keys BY FieldsAreKeys
<1>2. CASE Shape[t][k] # "time"
  <2>1. Get(t, k, Put(t, k, v)) = v BY <1>2, RoundTrip
  <2> QED BY <2>1
<1>3. CASE Shape[t][k] = "time"
  <2>1. k \notin {"issuer_account", "kind"} /\ v \in Int /\ Absent \notin Int
        BY <1>1, <1>3, FieldShapes, BodyAssumption DEF Holds
  <2>2. CASE v <= 0
        BY <1>3, <2>1, <2>2 DEF Get, Put
  <2>3. CASE ~(v <= 0)
        BY <1>3, <2>1, <2>3 DEF Get, Put
  <2> QED BY <2>1, <2>2, <2>3
<1> QED BY <1>2, <1>3

SignedAgain(t, w) == Write(t, Read(t, w), Nats(t, w))

LEMMA WriteSettles ==
    ASSUME NEW t \in Types, NEW b, \A k \in Fields[t] : b[k] \in Holds(t, k), Valid(t, b), NEW raw
    PROVE  SignedAgain(t, Write(t, b, raw)) = Write(t, b, raw)
<1> DEFINE w == Write(t, b, raw)
           r == Read(t, w)
<1>1. w.version = 2 /\ w.beside = [k \in Moved |-> Absent]
      /\ w.nats = [k \in Keys |-> IF k \in Fields[t] THEN Put(t, k, b[k]) ELSE raw[k]]
      BY DEF Write
<1>2. Nats(t, w) = w.nats BY <1>1 DEF Nats
<1>3. ASSUME NEW k \in Fields[t] PROVE Put(t, k, r[k]) = w.nats[k]
  <2>1. k \in Keys BY FieldsAreKeys
  <2>2. (t = "activation" /\ k = "kind") \/ (t = "user" /\ k = "issuer_account") => b[k] # Blank
        BY DEF Valid, Required
  <2>3. w.nats[k] = Put(t, k, b[k]) BY <1>1, <2>1
  <2>4. r[k] = Get(t, k, Put(t, k, b[k])) BY <1>2, <2>3 DEF Read
  <2> QED BY <2>2, <2>3, <2>4, PutSettles
<1> HIDE DEF w, r
<1>4. [k \in Keys |-> IF k \in Fields[t] THEN Put(t, k, r[k]) ELSE w.nats[k]] = w.nats
      BY <1>1, <1>3
<1>5. Write(t, r, w.nats) = w BY <1>1, <1>4 DEF Write, w
<1> QED BY <1>2, <1>5 DEF SignedAgain, w, r

(* Signing again without a change what this library signed, encode or      *)
(* issueUserJWT, leaves every key of it as it is on the wire: the first    *)
(* round puts a token of another program into its form, the next ones do   *)
(* nothing (README.md:208-210).                                            *)
Settled ==
    published \notin Foreign[type] \cup {NoToken} => SignedAgain(type, published) = published

THEOREM ResigningSettles == Spec => []Settled
<1>1. Init => Settled BY DEF Init, Settled
<1>2. TypeOK /\ Settled /\ [Next]_vars => Settled'
  <2> SUFFICES ASSUME TypeOK, Settled, [Next]_vars PROVE Settled'
      OBVIOUS
  <2>1. CASE UNCHANGED <<type, published>>
        BY <2>1 DEF Settled
  <2>2. ASSUME encode PROVE Settled'
        BY <2>2, WriteSettles DEF encode, TypeOK, Settled
  <2>3. ASSUME NEW account \in Data \ Unsound, NEW name \in Data \ Unsound,
               NEW exp \in Moments, NEW tags \in DataOf("user", "tags"),
               issueUserJWT(account, name, exp, tags)
        PROVE  Settled'
    <3>1. /\ published' = Write("user", Issued(account, name, exp, tags), NothingCarried)
          /\ Valid("user", Issued(account, name, exp, tags)) /\ type = "user" /\ type' = type
          BY <2>3 DEF issueUserJWT, Issued
    <3>2. "user" \in Types BY DEF Types
    <3> QED BY <3>1, <3>2, IssuedHolds, WriteSettles DEF Settled
  <2> QED BY <2>1, <2>2, <2>3 DEF Next, Set, setScoped, construct, decode, vars
<1> QED BY <1>1, <1>2, TypeCorrect, PTL DEF Spec

==============================================================================
