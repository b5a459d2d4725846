------------------------------ MODULE Minting -------------------------------
(***************************************************************************)
(* encode / encodeWithSigner, the one way tokens come into existence.      *)
(*                                                                         *)
(* Callers (threads) hold claims objects and encode them.  encodeWithSigner*)
(* is a const method, yet it writes issuer_ and issuedAt_ into the object  *)
(* before it validates, and it calls back into foreign code (the signer)   *)
(* with the object already changed.  While a signer runs its caller may do *)
(* anything, including call a setter of the same object or encode it       *)
(* again: an activation record of encodeWithSigner is a frame <<c, d>>,    *)
(* the d-th nested call of caller c.  Setters and the encodes of other     *)
(* callers interleave with the steps of a frame; MayUse says which objects *)
(* a caller reaches.                                                       *)
(***************************************************************************)
EXTENDS Tokens, FiniteSets

CONSTANTS Callers,
          Objects,
          Genesis,    \* the ways the objects may start: constructed or decoded
          MayUse,     \* MayUse[c]: the objects caller c has a reference to
          GenericData, \* bound: the types that setDataJson puts in generic data
          MaxDepth,   \* bound: encodes nested through signer callbacks
          MaxTime,    \* bound: the clock
          MaxMinted   \* bound: tokens minted before the last encode starts

(* body is the rest of the object, as far as encode can tell it apart:     *)
(*   good       nothing blocking: time checks and warnings never throw     *)
(*   blocking   at least one blocking issue                                *)
(*   non-utf8   a string that payload.dump() refuses with a type_error     *)
(*   oversized  a payload longer than MAX_JWT_SIZE leaves room for         *)
(*   unreadable a number its own decoder refuses, which is the protocol of *)
(*              a request when it is negative                              *)
Bodies == {"good", "blocking", "non-utf8", "oversized", "unreadable"}

BodiesOf(type) == IF type = "authorization_request" THEN Bodies ELSE Bodies \ {"unreadable"}

ObjectTypes == TypedClaims \cup {"generic"}

(* data is nats.type as it will be written: the type of a typed object,    *)
(* whatever the caller's JSON holds in a generic one.                      *)
NotAString == "not a string"
NatsTypes == TypeFields \cup {Untyped, NotAString}

ClaimsObjects == [type : ObjectTypes, data : NatsTypes, sub : Names,
                  iss : Names, iat : Nat, body : Bodies]

Payloads == ClaimsObjects   \* a payload is the object as it was serialised

Frames == Callers \X (1..MaxDepth)

ASSUME MintingAssumption ==
    /\ MaxDepth \in Nat
    /\ MaxTime \in Nat
    /\ MaxMinted \in Nat
    /\ Genesis \subseteq [Objects -> ClaimsObjects]
    /\ MayUse \in [Callers -> SUBSET Objects]
    /\ GenericData \subseteq NatsTypes
    /\ \A g \in Genesis, o \in Objects :
           /\ g[o].type # "generic" => g[o].data = g[o].type
           /\ g[o].body \in BodiesOf(g[o].type)
    /\ Objects # {}

(* One thread per object: what a caller of a library without locks owes.   *)
Exclusive == \A c, d \in Callers : c # d => MayUse[c] \cap MayUse[d] = {}

VARIABLES now, obj, frame, minted

vars == <<now, obj, frame, minted>>

-----------------------------------------------------------------------------
(* NoPayload and NoSig: nothing serialised, nothing signed yet.            *)
NoPayload == [type |-> "generic", data |-> Untyped, sub |-> Empty, iss |-> Empty,
              iat |-> 0, body |-> "good"]
NoSig == [by |-> Empty, over |-> NoPayload]

Signatures == [by : Names, over : Payloads]
MintedTokens == [payload : Payloads, sig : Signatures]

PCs == {"idle", "entered", "stamped", "dated", "checked", "signing", "signed"}

Idle == [pc |-> "idle", obj |-> CHOOSE o \in Objects : TRUE, key |-> Empty,
         since |-> 0, payload |-> NoPayload, sig |-> NoSig]

Init == /\ now = 0
        /\ obj \in Genesis
        /\ frame = [f \in Frames |-> Idle]
        /\ minted = {}

(* The call stack: a frame runs when nothing is nested in it, and a new    *)
(* frame starts from a caller's own code (every frame below is waiting in  *)
(* its signer).                                                            *)
Running(f) == /\ frame[f].pc # "idle"
              /\ \A d \in 1..MaxDepth : d > f[2] => frame[<<f[1], d>>].pc = "idle"
CallableAt(f) == \A d \in 1..MaxDepth :
                    frame[<<f[1], d>>].pc = IF d < f[2] THEN "signing" ELSE "idle"
OwnCode(c) == \A d \in 1..MaxDepth : frame[<<c, d>>].pc \in {"idle", "signing"}

Goto(f, pc) == frame' = [frame EXCEPT ![f].pc = pc]
Return(f) == frame' = [frame EXCEPT ![f] = Idle]

-----------------------------------------------------------------------------
(* Mutant of Enter: any key may be asked to sign.                          *)
EnterAnyKind(f, o, k) ==
    /\ CallableAt(f)
    /\ Cardinality(minted) < MaxMinted
    /\ o \in MayUse[f[1]]
    /\ frame' = [frame EXCEPT ![f] =
           [Idle EXCEPT !.pc = "entered", !.obj = o, !.key = k, !.since = now]]
    /\ UNCHANGED <<now, obj, minted>>

(* encodeWithSigner(k, sign) on o: the issuer kind is the first check.     *)
Enter(f, o, k) ==
    /\ CallableAt(f)
    /\ Cardinality(minted) < MaxMinted
    /\ o \in MayUse[f[1]]
    /\ frame' = [frame EXCEPT ![f] =
           IF checkIssuerKind(obj[o].type, k)
           THEN [Idle EXCEPT !.pc = "entered", !.obj = o, !.key = k, !.since = now]
           ELSE Idle]                                    \* InvalidClaimsError
    /\ UNCHANGED <<now, obj, minted>>

(* Mutant of StampIssuer: an issuer somebody set is kept.                  *)
StampIssuerIfUnset(f) ==
    /\ Running(f)
    /\ frame[f].pc = "entered"
    /\ obj' = [obj EXCEPT ![frame[f].obj].iss = IF @ = Empty THEN frame[f].key ELSE @]
    /\ Goto(f, "stamped")
    /\ UNCHANGED <<now, minted>>

StampIssuer(f) ==
    /\ Running(f)
    /\ frame[f].pc = "entered"
    /\ obj' = [obj EXCEPT ![frame[f].obj].iss = frame[f].key]
    /\ Goto(f, "stamped")
    /\ UNCHANGED <<now, minted>>

(* Mutant of StampTime: back-dated, to allow for clock skew.               *)
StampTimeWithSkew(f) ==
    /\ Running(f)
    /\ frame[f].pc = "stamped"
    /\ obj' = [obj EXCEPT ![frame[f].obj].iat = now - 1]
    /\ Goto(f, "dated")
    /\ UNCHANGED <<now, minted>>

StampTime(f) ==
    /\ Running(f)
    /\ frame[f].pc = "stamped"
    /\ obj' = [obj EXCEPT ![frame[f].obj].iat = now]
    /\ Goto(f, "dated")
    /\ UNCHANGED <<now, minted>>

(* Blocking issues of validate(vr).  The subject of a callout response is  *)
(* judged here and not by checkStructure.                                  *)
Blocking(c) == \/ c.body = "blocking"
               \/ c.type = "authorization_response" /\ KindOf[c.sub] # "U"

(* Mutant of Validate: only the issues validate() collects, no structure.  *)
ValidateIssuesOnly(f) ==
    LET c == obj[frame[f].obj]
    IN  /\ Running(f)
        /\ frame[f].pc = "dated"
        /\ IF ~Blocking(c) THEN Goto(f, "checked") ELSE Return(f)
        /\ UNCHANGED <<now, obj, minted>>

(* validate(): the structure, then the first blocking issue.               *)
Validate(f) ==
    LET c == obj[frame[f].obj]
    IN  /\ Running(f)
        /\ frame[f].pc = "dated"
        /\ IF checkStructure(c.type, c.sub, c.iss) /\ ~Blocking(c)
           THEN Goto(f, "checked")
           ELSE Return(f)                                \* InvalidClaimsError
        /\ UNCHANGED <<now, obj, minted>>

(* The payload is read from the object, not from the arguments; then the   *)
(* signer is called.                                                       *)
Serialise(f) ==
    LET c == obj[frame[f].obj]
    IN  /\ Running(f)
        /\ frame[f].pc = "checked"
        /\ IF c.body = "non-utf8"
           THEN Return(f)                                \* json::type_error
           ELSE frame' = [frame EXCEPT ![f].pc = "signing", ![f].payload = c]
        /\ UNCHANGED <<now, obj, minted>>

(* What a signer may answer: a signature by any key it was wired to, over  *)
(* what it was shown or, out of step, over what it was shown before.       *)
Shown == {frame[f].payload : f \in Frames} \cup {m.payload : m \in minted}
Answers == [by : Names, over : Shown]

SignerReturns(f, s) ==
    /\ Running(f)
    /\ frame[f].pc = "signing"
    /\ frame' = [frame EXCEPT ![f].pc = "signed", ![f].sig = s]
    /\ UNCHANGED <<now, obj, minted>>

SignerThrows(f) ==
    /\ Running(f)
    /\ frame[f].pc = "signing"
    /\ Return(f)                            \* the signer's own exception
    /\ UNCHANGED <<now, obj, minted>>

(* Mutant of signAndAssemble: the signer is trusted.                       *)
AssembleUnverified(f) ==
    /\ Running(f)
    /\ frame[f].pc = "signed"
    /\ minted' = minted \cup {[payload |-> frame[f].payload, sig |-> frame[f].sig]}
    /\ Return(f)
    /\ UNCHANGED <<now, obj>>

(* signAndAssemble's tail: the signature must verify against the key the   *)
(* caller passed.                                                          *)
signAndAssemble(f) ==
    LET m == [payload |-> frame[f].payload, sig |-> frame[f].sig]
    IN  /\ Running(f)
        /\ frame[f].pc = "signed"
        /\ IF Verifies(frame[f].key, m.payload, m.sig)
           THEN minted' = minted \cup {m} /\ Return(f)
           ELSE UNCHANGED minted /\ Return(f)                 \* SignatureError
        /\ UNCHANGED <<now, obj>>

-----------------------------------------------------------------------------
(* Setters, from a caller's own code.  Only accounts and users expose      *)
(* setIssuer; the others get an issuer from the constructor, a decode or   *)
(* an encode.                                                              *)
setIssuer(c, o, k) ==
    /\ OwnCode(c)
    /\ o \in MayUse[c]
    /\ obj[o].type \in {"account", "user"}
    /\ obj' = [obj EXCEPT ![o].iss = k]
    /\ UNCHANGED <<now, frame, minted>>

SetBody(c, o, b) ==
    /\ OwnCode(c)
    /\ o \in MayUse[c]
    /\ b \in BodiesOf(obj[o].type)
    /\ obj' = [obj EXCEPT ![o].body = b]
    /\ UNCHANGED <<now, frame, minted>>

(* The data of a generic object is any JSON object.                        *)
setDataJson(c, o, d) ==
    /\ OwnCode(c)
    /\ o \in MayUse[c]
    /\ obj[o].type = "generic"
    /\ obj' = [obj EXCEPT ![o].data = d]
    /\ UNCHANGED <<now, frame, minted>>

Tick == /\ now < MaxTime
        /\ now' = now + 1
        /\ UNCHANGED <<obj, frame, minted>>

EncodeStep(f) ==
    \/ \E o \in Objects, k \in Names : Enter(f, o, k)
    \/ StampIssuer(f)
    \/ StampTime(f)
    \/ Validate(f)
    \/ Serialise(f)
    \/ \E s \in Answers : SignerReturns(f, s)
    \/ SignerThrows(f)
    \/ signAndAssemble(f)

SetterStep(c) == \E o \in Objects : \/ \E k \in Names : setIssuer(c, o, k)
                                    \/ \E b \in Bodies : SetBody(c, o, b)
                                    \/ \E d \in GenericData : setDataJson(c, o, d)

Next == \/ Tick
        \/ \E f \in Frames : EncodeStep(f)
        \/ \E c \in Callers : SetterStep(c)

Spec == Init /\ [][Next]_vars

-----------------------------------------------------------------------------
(* The minted token on the wire, as a decoder meets it.                    *)
WirePayload(p) ==
    [form |-> IF p.data = NotAString THEN "typestr" ELSE IF p.body = "unreadable" THEN "body" ELSE "ok",
     top |-> Absent, nats |-> IF p.data = NotAString THEN Untyped ELSE p.data, ver |-> JWT_VERSION,
     iss |-> p.iss, sub |-> p.sub]

Wire(m) == [whole   |-> m.payload.body # "oversized",
            head    |-> "ed25519-nkey",
            payload |-> WirePayload(m.payload),
            sig     |-> [by   |-> m.sig.by,
                         over |-> [head    |-> "ed25519-nkey",
                                   payload |-> WirePayload(m.sig.over)]]]

TypeOK ==
    /\ now \in Nat
    /\ obj \in [Objects -> ClaimsObjects]
    /\ frame \in [Frames -> [pc : PCs, obj : Objects, key : Names, since : Nat,
                            payload : Payloads, sig : Signatures]]
    /\ minted \subseteq MintedTokens

Abstract == INSTANCE Issuance

(* Every step of every encode, nested or concurrent, is a step of Issuance *)
(* or none: a token exists only once it is genuine (SECURITY.md, External  *)
(* Signers: iss is the key whose signature was checked).                   *)
ImplementsIssuance == Abstract!Spec

(* A signer is asked only for a payload that is well formed, that names    *)
(* the key it is asked for, and that is dated within the call, whatever    *)
(* setters and nested encodes did to the object since the stamps           *)
(* (claims.hpp: "checked ... BEFORE the signer is called").                *)
SignerAskedInOrder ==
    \A f \in Frames : frame[f].pc \in {"signing", "signed"} =>
        LET p == frame[f].payload
        IN  /\ checkStructure(p.type, p.sub, p.iss)
            /\ checkIssuerKind(p.type, p.iss)
            /\ ~Blocking(p)
            /\ p.iss = frame[f].key
            /\ p.iat \in frame[f].since..now

(* Why the above hold, as an inductive invariant: calls nest, so from the  *)
(* stamps to the serialisation no setter and no other encode of the same   *)
(* thread can run, and the object still names the key of the call.         *)
CallStack ==
    \A c \in Callers : \A d, e \in 1..MaxDepth :
        d < e /\ frame[<<c, e>>].pc # "idle" => frame[<<c, d>>].pc = "signing"

StampsHold ==
    \A f \in Frames :
        LET c == obj[frame[f].obj]
        IN  /\ frame[f].pc # "idle" => frame[f].obj \in MayUse[f[1]]
            /\ frame[f].pc \in {"entered", "stamped", "dated", "checked"} =>
                   checkIssuerKind(c.type, frame[f].key) /\ frame[f].since <= now
            /\ frame[f].pc \in {"stamped", "dated", "checked"} => c.iss = frame[f].key
            /\ frame[f].pc \in {"dated", "checked"} => c.iat \in frame[f].since..now
            /\ frame[f].pc = "checked" => checkStructure(c.type, c.sub, c.iss) /\ ~Blocking(c)

(* And what holds even of objects that threads share: no setter and no     *)
(* stamp changes what type an object is of, so a payload says its own type *)
(* and the key of the call is of a kind that may issue it.                 *)
SaysItsType(p) == p.type # "generic" => p.data = p.type

KindsHold ==
    /\ \A o \in Objects : SaysItsType(obj[o])
    /\ \A f \in Frames : frame[f].pc \in {"entered", "stamped", "dated", "checked"} =>
           checkIssuerKind(obj[frame[f].obj].type, frame[f].key)
    /\ \A f \in Frames : frame[f].pc \in {"signing", "signed"} =>
           SaysItsType(frame[f].payload) /\ checkIssuerKind(frame[f].payload.type, frame[f].key)
    /\ \A m \in minted : /\ SaysItsType(m.payload)
                          /\ checkIssuerKind(m.payload.type, m.sig.by)
                          /\ Verifies(m.sig.by, m.payload, m.sig)

MintedGenuine == \A m \in minted : Abstract!Genuine(m) /\ m.payload.iat <= now

IInv == TypeOK /\ CallStack /\ KindsHold /\ StampsHold /\ SignerAskedInOrder /\ MintedGenuine

(* What encode emits the library reads back, a typed token as its own      *)
(* type, but for exactly three things that encode lets through: nobody     *)
(* reads a token beyond MAX_JWT_SIZE, verify() refuses a generic one whose *)
(* type is no string, and decode() a request with a negative protocol.     *)
MintedDecodes ==
    \A m \in minted :
        LET p    == m.payload
            fits == p.body # "oversized"
        IN  /\ decodeGeneric(Wire(m)) = "ok" <=> fits
            /\ verify(Wire(m)) <=> fits /\ p.data # NotAString
            /\ p.type # "generic" =>
                   /\ decode(Wire(m)) = "ok" <=> fits /\ p.body # "unreadable"
                   /\ DecodedAs(WirePayload(p)) = p.type

(* The comment in every encodeWithSigner: "iss can then never disagree     *)
(* with the signature".                                                    *)
IssNeverDisagrees == \A m \in minted : m.sig.by = m.payload.iss

=============================================================================
