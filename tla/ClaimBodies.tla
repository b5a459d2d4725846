----------------------------- MODULE ClaimBodies -----------------------------
(***************************************************************************)
(* The bodies of operators, users, activations and of the requests and     *)
(* responses of the auth callout: typed fields in memory, the keys of the  *)
(* token on the wire, and the way between them.  Like an account, a decoded*)
(* object carries the nats object it came from (natsRaw_) and encode writes*)
(* the typed fields over it; unlike it, all of these types follow the same *)
(* few patterns, so that a field is told by its shape alone.               *)
(*                                                                         *)
(* Tokens of version 1 are migrated on the way in.  There a user's absent  *)
(* limit is none, in version 2 it is zero; an activation's kind is its     *)
(* type; and tags and issuer_account are outside of nats.                  *)
(*                                                                         *)
(* name, aud, exp and nbf, which belong to the payload itself, are kept    *)
(* with the keys of nats.  Wrong JSON types, which decode refuses, the src *)
(* list of a user spelt as one string, and response counts that do not fit *)
(* an int are left out, and so are keys inside of fields that are objects, *)
(* which encode writes anew.  Of values that their decoder refuses there   *)
(* are two: a kind that it does not know ("unknown"), and connect options  *)
(* with a negative protocol, an int that is read as 0..INT_MAX.            *)
(***************************************************************************)
EXTENDS Integers, FiniteSets

CONSTANTS Data, Unsound,  \* values of fields, and those of them with a blocking issue
          Blank,          \* the empty string, list or object, false, or the unknown kind
          Bounds, Moments,\* bounds: the numbers that limits and times take
          Foreign,        \* tokens of each type that another program has signed
          MaxEdits,       \* bound: setter calls
          Absent,         \* a key that is not there, an optional that is not set
          Unreadable,     \* what a decoder refuses in a field that encode writes unchecked
          NoToken         \* nothing published yet

Types == {"operator", "user", "activation", "authorization_request", "authorization_response"}

(* The shapes of fields: left out when empty; left out when not set;       *)
(* written whatever they hold; limits, left out when zero; and times, left *)
(* out unless positive.                                                    *)
Omitted ==
    [operator |-> {"signing_keys", "account_server_url", "operator_service_urls",
                   "system_account", "assert_server_version", "strict_signing_key_usage"},
     user |-> {"src", "times", "times_location", "bearer_token", "proxy_required",
               "allowed_connection_types"},
     activation |-> {},
     authorization_request |-> {"request_nonce"},
     authorization_response |-> {"jwt", "error"}]

Optional == [operator |-> {}, user |-> {"resp", "issuer_account"},
             activation |-> {"issuer_account"},
             authorization_request |-> {"client_tls"},
             authorization_response |-> {"issuer_account"}]

Always == [operator |-> {}, user |-> {"pub", "sub"}, activation |-> {"subject", "kind"},
           authorization_request |-> {"server_id", "user_nkey", "client_info", "connect_opts"},
           authorization_response |-> {}]

UserLimits == {"subs", "data", "payload"}

(* Keys of version 1, one that only other programs know, and all others.   *)
Keys == (UNION {Omitted[t] \cup Optional[t] \cup Always[t] : t \in Types})
        \cup UserLimits \cup {"name", "aud", "tags", "exp", "nbf"}
        \cup {"type", "max", "identity", "unmodelled"}

Shape == [t \in Types |-> [k \in Keys |->
              CASE k \in Omitted[t] \cup {"name", "aud", "tags"} -> "omitted"
                [] k \in Optional[t]                             -> "optional"
                [] k \in Always[t]                               -> "always"
                [] t = "user" /\ k \in UserLimits                -> "limit"
                [] k \in {"exp", "nbf"}                          -> "time"
                [] OTHER                                         -> "carried"]]

Fields == [t \in Types |-> {k \in Keys : Shape[t][k] # "carried"}]

(* What becomes of the keys of version 1: some come into nats from beside  *)
(* it, some have no place in version 2.                                    *)
Moved == {"tags", "issuer_account"}

Retired == [t \in Types |-> {"identity", "type"} \cup
               CASE t = "user"       -> {"max"}
                 [] t = "activation" -> {"max", "payload", "src", "times"}
                 [] OTHER            -> {}]

Values == Data \cup {Blank, Absent, Unreadable} \cup Bounds \cup Moments

(* A token: its keys, and what version 1 has outside of nats.  The key type *)
(* is only ever what version 1 calls an activation's kind: the type of the *)
(* claims themselves never changes.                                        *)
Tokens == [version : {1, 2}, nats : [Keys -> Values], beside : [Moved -> Values]]

(* What a field holds; what has no rule is never unsound.                  *)
Ruled == [operator |-> {"signing_keys", "account_server_url", "operator_service_urls",
                        "system_account", "assert_server_version"},
          user |-> {"pub", "sub", "src", "times", "issuer_account"},
          activation |-> {"issuer_account"},
          authorization_request |-> {"user_nkey"},
          authorization_response |-> {"aud", "issuer_account"}]

DataOf(t, k) == IF k \in Ruled[t] THEN Data ELSE Data \ Unsound

Holds(t, k) == CASE Shape[t][k] = "limit"    -> Bounds
                 [] Shape[t][k] = "time"     -> Moments
                 [] Shape[t][k] = "optional" -> DataOf(t, k) \cup {Absent, Blank}
                 [] OTHER                    -> DataOf(t, k) \cup {Blank} \cup
                                                (IF k = "connect_opts" THEN {Unreadable} ELSE {})

(* The fields in which a decoder may find what it refuses.                 *)
Strict == [t \in Types |-> CASE t = "activation"            -> {"kind"}
                             [] t = "authorization_request" -> {"connect_opts"}
                             [] OTHER                       -> {}]

(* Keys of the right JSON type, but for those.                             *)
WellTyped(t, w) ==
    \A k \in Fields[t] :
        /\ w.nats[k] \in Holds(t, k) \cup {Absent} \cup (IF k \in Strict[t] THEN {Unreadable} ELSE {})
        /\ k \in Moved => w.beside[k] \in Holds(t, k) \cup {Absent}

ASSUME BodyAssumption ==
    /\ Bounds \subseteq Int /\ {-1, 0} \subseteq Bounds
    /\ Moments \subseteq Int /\ 0 \in Moments
    /\ Unsound \subseteq Data
    /\ (Data \cup {Blank, Absent, Unreadable}) \cap Int = {}
    /\ {Blank, Absent, Unreadable} \cap Data = {}
    /\ Blank # Absent /\ Blank # Unreadable /\ Absent # Unreadable
    /\ MaxEdits \in Nat
    /\ NoToken \notin Tokens

ASSUME ForeignAssumption ==
    /\ Foreign \in [Types -> SUBSET Tokens]
    /\ \A t \in Types : \A w \in Foreign[t] :
           /\ WellTyped(t, w)
           /\ w.nats["type"] \in Holds("activation", "kind") \cup {Absent, Unreadable}
           /\ w.version = 1 => w.nats["kind"] = Absent
           /\ w.version = 2 => /\ w.nats["type"] = Absent
                               /\ \A k \in Moved : w.beside[k] = Absent

-----------------------------------------------------------------------------
(* Reading: decodeEnvelope migrates, the typed decoder takes its fields.   *)

(* Mutant of Migrate: absent limits are left to the decoder.               *)
MigrateWithoutPreset(t, w) ==
    [k \in Keys |->
        CASE k \in Moved /\ w.beside[k] # Absent                       -> w.beside[k]
          [] t = "activation" /\ k = "kind" /\ w.nats["type"] # Absent -> w.nats["type"]
          [] k \in Retired[t]                                          -> Absent
          [] OTHER                                                     -> w.nats[k]]

Migrate(t, w) ==
    [k \in Keys |->
        CASE k \in Moved /\ w.beside[k] # Absent                       -> w.beside[k]
          [] t = "activation" /\ k = "kind" /\ w.nats["type"] # Absent -> w.nats["type"]
          [] k \in Retired[t]                                          -> Absent
          [] t = "user" /\ k \in UserLimits /\ w.nats[k] = Absent      -> -1
          [] OTHER                                                     -> w.nats[k]]

Nats(t, w) == IF w.version = 1 THEN Migrate(t, w) ELSE w.nats

Decodable(t, w) == \A k \in Strict[t] : Nats(t, w)[k] # Unreadable

(* Mutant of Get: only numbers have a default.                             *)
GetPresent(t, k, v) ==
    CASE v = Absent /\ Shape[t][k] \in {"limit", "time"}     -> 0
      [] t = "user" /\ k = "issuer_account" /\ v = Blank     -> Absent
      [] OTHER                                               -> v

(* What is absent is empty, or zero; a user's empty issuer_account is none.*)
Get(t, k, v) ==
    CASE v = Absent /\ Shape[t][k] \in {"omitted", "always"} -> Blank
      [] v = Absent /\ Shape[t][k] \in {"limit", "time"}     -> 0
      [] t = "user" /\ k = "issuer_account" /\ v = Blank     -> Absent
      [] OTHER                                               -> v

Read(t, w) == [k \in Fields[t] |-> Get(t, k, Nats(t, w)[k])]

-----------------------------------------------------------------------------
(* Writing, over what is carried.                                          *)

(* exportTypeStr calls a kind that is not set "unknown".                   *)
Put(t, k, v) ==
    CASE Shape[t][k] = "omitted" /\ v = Blank           -> Absent
      [] Shape[t][k] = "limit" /\ v = 0                 -> Absent
      [] Shape[t][k] = "time" /\ v <= 0                 -> Absent
      [] t = "activation" /\ k = "kind" /\ v = Blank    -> Unreadable
      [] OTHER                                          -> v

Write(t, b, raw) ==
    [version |-> 2,
     nats |-> [k \in Keys |-> IF k \in Fields[t] THEN Put(t, k, b[k]) ELSE raw[k]],
     beside |-> [k \in Moved |-> Absent]]

(* The fields that must not be empty; unset is another matter.             *)
Required == [operator |-> {}, user |-> {"issuer_account"},
             activation |-> {"subject", "kind", "issuer_account"},
             authorization_request |-> {"user_nkey"},
             authorization_response |-> {"aud", "issuer_account"}]

(* Mutant of Valid: no rule for what is empty.                             *)
ValidWhenEmpty(t, b) ==
    /\ \A k \in Ruled[t] : b[k] \notin Unsound
    /\ t = "authorization_response" => (b["jwt"] = Blank <=> b["error"] # Blank)

(* validate(), enforced by encode and never by decode.                     *)
Valid(t, b) ==
    /\ \A k \in Ruled[t] : b[k] \notin Unsound
    /\ \A k \in Required[t] : b[k] # Blank
    /\ t = "authorization_response" => (b["jwt"] = Blank <=> b["error"] # Blank)

-----------------------------------------------------------------------------
(* Scopes.  A scoped key's users carry nothing of UserPermissionLimits.    *)
Limits == UserLimits \cup {"src", "times", "times_location"}

Permissions == Limits \cup {"pub", "sub", "resp", "bearer_token", "proxy_required",
                            "allowed_connection_types"}

Denied(k) == CASE k \in UserLimits -> 0 [] k = "resp" -> Absent [] OTHER -> Blank

Unlimited(k) == IF k \in UserLimits THEN -1 ELSE Blank

hasEmptyPermissions(b) == \A k \in Permissions : b[k] = Denied(k)

Scoped(b) == [k \in DOMAIN b |-> IF k \in Permissions THEN Denied(k) ELSE b[k]]

(* The constructors: nothing set, and a user without limits.               *)
Fresh(t) == [k \in Fields[t] |-> CASE Shape[t][k] = "limit"    -> -1
                                   [] Shape[t][k] = "time"     -> 0
                                   [] Shape[t][k] = "optional" -> Absent
                                   [] OTHER                    -> Blank]

NothingCarried == [k \in Keys |-> Absent]

-----------------------------------------------------------------------------
(* scoped is history: the object was scoped, or decoded from a token that  *)
(* is, and nobody has given it a permission or a limit since.              *)
VARIABLES type,       \* of the claims, once and for all
          body,       \* the typed fields of the object,
          natsRaw,    \* and what it carries
          published,  \* the newest token
          edits, scoped

vars == <<type, body, natsRaw, published, edits, scoped>>

(* On the wire, to a server: no permission key that says anything.         *)
CarriesNoPermissions(w) ==
    /\ w.version = 2
    /\ \A k \in Permissions : w.nats[k] \in {Absent, Blank} \/ (k \in UserLimits /\ w.nats[k] = 0)
    /\ w.nats["resp"] = Absent

Init == /\ type \in Types
        /\ body = Fresh(type)
        /\ natsRaw = NothingCarried
        /\ published \in Foreign[type] \cup {NoToken}
        /\ edits = 0
        /\ scoped = FALSE

(* The setters and mutable accessors, one field at a time.  Signing keys of*)
(* an operator are only ever added.                                        *)
Set(k, v) == /\ edits < MaxEdits
             /\ k = "signing_keys" => v # Blank /\ (body[k] \in Unsound => v \in Unsound)
             /\ edits' = edits + 1
             /\ body' = [body EXCEPT ![k] = IF type = "user" /\ k = "issuer_account" /\ v = Blank
                                            THEN Absent ELSE v]
             /\ scoped' = (scoped /\ k \notin Permissions)
             /\ UNCHANGED <<type, natsRaw, published>>

(* Mutant of setScoped: the connection flags stay.                         *)
SetScopedKeepingFlags(on) ==
    /\ type = "user" /\ edits < MaxEdits
    /\ edits' = edits + 1
    /\ body' = IF on THEN [k \in DOMAIN body |-> IF k \in Limits \cup {"pub", "sub", "resp"}
                                                 THEN Denied(k) ELSE body[k]]
               ELSE [k \in DOMAIN body |-> IF k \in Limits THEN Unlimited(k) ELSE body[k]]
    /\ scoped' = on
    /\ UNCHANGED <<type, natsRaw, published>>

setScoped(on) ==
    /\ type = "user" /\ edits < MaxEdits
    /\ edits' = edits + 1
    /\ body' = IF on THEN Scoped(body)
               ELSE [k \in DOMAIN body |-> IF k \in Limits THEN Unlimited(k) ELSE body[k]]
    /\ scoped' = on
    /\ UNCHANGED <<type, natsRaw, published>>

construct == /\ body' = Fresh(type)
             /\ natsRaw' = NothingCarried
             /\ scoped' = FALSE
             /\ UNCHANGED <<type, published, edits>>

decode == /\ published # NoToken
          /\ Decodable(type, published)
          /\ body' = Read(type, published)
          /\ natsRaw' = Nats(type, published)
          /\ scoped' = (type = "user" /\ CarriesNoPermissions(published))
          /\ UNCHANGED <<type, published, edits>>

encode == /\ Valid(type, body)
          /\ published' = Write(type, body, natsRaw)
          /\ UNCHANGED <<type, body, natsRaw, edits, scoped>>

(* issueUserJWT: an object of its own, scoped and encoded at once; without *)
(* a lifetime it does not expire, nor with one so long that now + lifetime *)
(* overflows: that is negative, and no time at all on the wire.            *)
issueUserJWT(account, name, exp, tags) ==
    /\ type = "user"
    /\ LET claims == [Scoped(Fresh("user")) EXCEPT !["issuer_account"] = account, !["name"] = name,
                                                   !["exp"] = exp, !["tags"] = tags]
       IN /\ Valid("user", claims)
          /\ published' = Write("user", claims, NothingCarried)
    /\ UNCHANGED <<type, body, natsRaw, edits, scoped>>

Next == \/ \E k \in Fields[type] : \E v \in Holds(type, k) : Set(k, v)
        \/ \E on \in BOOLEAN : setScoped(on)
        \/ construct \/ decode \/ encode
        \/ \E account \in Data \ Unsound, name \in Data \ Unsound,
              exp \in Moments, tags \in DataOf("user", "tags") :
               issueUserJWT(account, name, exp, tags)

Spec == Init /\ [][Next]_vars

-----------------------------------------------------------------------------
(* Everything has its type.                                                *)
TypeOK == /\ type \in Types
          /\ body \in [Fields[type] -> Values]
          /\ \A k \in Fields[type] : body[k] \in Holds(type, k)
          /\ natsRaw \in [Keys -> Values]
          /\ published \in Tokens \cup {NoToken}
          /\ edits \in 0..MaxEdits
          /\ scoped \in BOOLEAN /\ (scoped => type = "user")

(* What encode puts out, decode takes back, and encode would accept it     *)
(* again: the two follow different rules, and what a field reads like when *)
(* it is absent must suit both (activation_claims.cpp:109, 124).  There is *)
(* one exception, which encode lets through (authorization_claims.cpp:93): *)
(* a request whose protocol is negative is signed, and no decoder takes it.*)
NegativeProtocol(t, w) == t = "authorization_request" /\ w.nats["connect_opts"] = Unreadable

EncodedIsReencodable ==
    published \notin Foreign[type] \cup {NoToken} =>
        IF NegativeProtocol(type, published) THEN ~Decodable(type, published)
        ELSE Decodable(type, published) /\ Valid(type, Read(type, published))

(* The invariant the proofs rest on: a scoped object has no permissions,   *)
(* tokens are well typed, and those of this library are of version 2 and   *)
(* can be encoded again.                                                   *)
IInv == /\ scoped => hasEmptyPermissions(body)
        /\ published # NoToken => WellTyped(type, published)
        /\ published \notin Foreign[type] \cup {NoToken} => published.version = 2
        /\ EncodedIsReencodable

(* A user who was scoped stays scoped: as long as nobody gives him a       *)
(* permission or a limit, no token that is encoded for him says any, and a *)
(* chain below the scoped key still accepts him (validation.cpp:150).      *)
ScopedStaysScoped ==
    [][encode /\ scoped => /\ CarriesNoPermissions(published')
                           /\ hasEmptyPermissions(Read("user", published'))]_vars

(* What a server makes of a token.  It knows one meaning for each aspect:  *)
(* what is absent, and in a user's limits of version 1 that is no limit;   *)
(* times that are not positive are none; an empty account is none.         *)
Meaning(t, k, v) ==
    CASE Shape[t][k] = "time" /\ v <= 0    -> 0
      [] k = "issuer_account" /\ v = Blank -> Absent
      [] OTHER                             -> v

Enforced(t, w) ==
    IF w.version = 2
    THEN [k \in Keys |-> Meaning(t, k, Get(t, k, w.nats[k]))]
    ELSE [k \in Keys |->
             LET old == CASE t = "activation" /\ k = "kind"     -> w.nats["type"]
                          [] k \in Moved /\ w.beside[k] # Absent -> w.beside[k]
                          [] OTHER                               -> w.nats[k]
             IN  CASE k \in Retired[t]                                   -> Absent
                   [] t = "user" /\ k \in UserLimits /\ old = Absent     -> -1
                   [] OTHER                       -> Meaning(t, k, Get(t, k, old))]

PolicyOf(t, b, raw) == [k \in Keys |-> Meaning(t, k, IF k \in Fields[t] THEN b[k] ELSE raw[k])]

Policy == INSTANCE Resigning WITH
              Permissions <- Permissions, Limits <- Limits,
              Denied <- Denied, Unlimited <- Unlimited,
              Issued <- {"issuer_account", "name", "exp", "tags"},
              settings <- Fields[type],
              fresh <- PolicyOf(type, Fresh(type), NothingCarried),
              published <- IF published = NoToken THEN {} ELSE {Enforced(type, published)},
              draft <- PolicyOf(type, body, natsRaw)

(* README.md:42, "v1 tokens decode and re-encode as v2", and 208-210: no   *)
(* setting is lost, revived or changed on the way, in either version; a    *)
(* setter changes the one it is named for, and what is constructed has     *)
(* nothing of what was there before (Resigning).                           *)
ImplementsResigning == Policy!Spec
==============================================================================
