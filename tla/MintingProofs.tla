---------------------------- MODULE MintingProofs ----------------------------
(***************************************************************************)
(* Proofs about Minting for any number of callers, objects, keys, any      *)
(* nesting of signer callbacks: the types and what survives threads that   *)
(* share objects; then, when every object belongs to one thread, the       *)
(* inductive invariant IInv and what follows from it.                      *)
(***************************************************************************)
EXTENDS Minting, FiniteSetTheorems, TokenProofs

(* The parts of a step that decide most obligations: the object and the    *)
(* frame a step leaves behind have the declared shape.                     *)
LEMMA IdleType == Idle \in [pc : PCs, obj : Objects, key : Names, since : Nat,
                            payload : Payloads, sig : Signatures]
<1>1. (CHOOSE o \in Objects : TRUE) \in Objects
  BY MintingAssumption
<1>2. NoPayload \in Payloads
  BY NamesAssumption DEF NoPayload, Payloads, ClaimsObjects, NatsTypes, Untyped, ObjectTypes, TypeFields, Bodies
<1>3. NoSig \in Signatures
  BY <1>2, NamesAssumption DEF NoSig, Signatures
<1> QED
  BY <1>1, <1>2, <1>3, NamesAssumption DEF Idle, PCs

LEMMA TypeInit == Init => TypeOK
<1> SUFFICES ASSUME Init PROVE TypeOK
  OBVIOUS
<1>1. frame \in [Frames -> [pc : PCs, obj : Objects, key : Names, since : Nat,
                            payload : Payloads, sig : Signatures]]
  BY IdleType DEF Init
<1>2. obj \in [Objects -> ClaimsObjects]
  BY MintingAssumption DEF Init
<1> QED
  BY <1>1, <1>2 DEF Init, TypeOK

LEMMA TypeStep == TypeOK /\ [Next]_vars => TypeOK'
<1> SUFFICES ASSUME TypeOK, [Next]_vars PROVE TypeOK'
  OBVIOUS
<1> DEFINE FrameType == [pc : PCs, obj : Objects, key : Names, since : Nat,
                         payload : Payloads, sig : Signatures]
<1>i. Idle \in FrameType
  BY IdleType
<1>t. /\ now \in Nat /\ obj \in [Objects -> ClaimsObjects]
      /\ frame \in [Frames -> FrameType] /\ minted \subseteq MintedTokens
  BY DEF TypeOK
<1>s. SUFFICES /\ now' \in Nat /\ obj' \in [Objects -> ClaimsObjects]
               /\ frame' \in [Frames -> FrameType] /\ minted' \subseteq MintedTokens
  BY DEF TypeOK
<1>f. \A f \in Frames : frame[f] \in FrameType
  BY <1>t
<1> HIDE DEF FrameType
<1>g. ASSUME NEW f \in Frames, NEW pc \in PCs, Goto(f, pc)
      PROVE  frame' \in [Frames -> FrameType]
  <2>1. [frame[f] EXCEPT !.pc = pc] \in FrameType
    BY <1>f DEF FrameType
  <2> QED
    BY <1>g, <2>1, <1>t DEF Goto
<1>r. ASSUME NEW f \in Frames, Return(f)
      PROVE  frame' \in [Frames -> FrameType]
  BY <1>r, <1>t, <1>i DEF Return
<1>1. ASSUME Tick PROVE TypeOK'
  BY <1>1, <1>t DEF Tick, TypeOK, FrameType
<1>2. ASSUME NEW f \in Frames, EncodeStep(f)
      PROVE  /\ now' \in Nat /\ obj' \in [Objects -> ClaimsObjects]
             /\ frame' \in [Frames -> FrameType] /\ minted' \subseteq MintedTokens
  <2>1. ASSUME NEW o \in Objects, NEW k \in Names, Enter(f, o, k)
        PROVE  frame' \in [Frames -> FrameType] /\ UNCHANGED <<now, obj, minted>>
    <3>1. [Idle EXCEPT !.pc = "entered", !.obj = o, !.key = k, !.since = now] \in FrameType
      BY <1>i, <1>t DEF FrameType, PCs
    <3> QED
      BY <2>1, <3>1, <1>i, <1>t DEF Enter
  <2>2. ASSUME StampIssuer(f)
        PROVE  frame' \in [Frames -> FrameType] /\ obj' \in [Objects -> ClaimsObjects]
    <3>1. frame[f].obj \in Objects /\ frame[f].key \in Names
      BY <1>f DEF FrameType
    <3>2. [obj[frame[f].obj] EXCEPT !.iss = frame[f].key] \in ClaimsObjects
      BY <3>1, <1>t DEF ClaimsObjects
    <3>3. frame' \in [Frames -> FrameType]
      BY <2>2, <1>g DEF StampIssuer, PCs
    <3> QED
      BY <2>2, <3>1, <3>2, <3>3, <1>t DEF StampIssuer
  <2>3. ASSUME StampTime(f)
        PROVE  frame' \in [Frames -> FrameType] /\ obj' \in [Objects -> ClaimsObjects]
    <3>1. frame[f].obj \in Objects
      BY <1>f DEF FrameType
    <3>2. [obj[frame[f].obj] EXCEPT !.iat = now] \in ClaimsObjects
      BY <3>1, <1>t DEF ClaimsObjects
    <3>3. frame' \in [Frames -> FrameType]
      BY <2>3, <1>g DEF StampTime, PCs
    <3> QED
      BY <2>3, <3>1, <3>2, <3>3, <1>t DEF StampTime
  <2>4. ASSUME Validate(f) PROVE frame' \in [Frames -> FrameType]
    BY <2>4, <1>g, <1>r DEF Validate, PCs
  <2>5. ASSUME Serialise(f) PROVE frame' \in [Frames -> FrameType]
    <3>1. obj[frame[f].obj] \in Payloads
      BY <1>f, <1>t DEF FrameType, Payloads
    <3>2. [frame[f] EXCEPT !.pc = "signing", !.payload = obj[frame[f].obj]] \in FrameType
      BY <3>1, <1>f DEF FrameType, PCs
    <3>3. CASE obj[frame[f].obj].body = "non-utf8"
      BY <2>5, <3>3, <1>r DEF Serialise
    <3>4. CASE obj[frame[f].obj].body # "non-utf8"
      <4>1. frame' = [frame EXCEPT ![f] = [frame[f] EXCEPT !.pc = "signing",
                                                           !.payload = obj[frame[f].obj]]]
        BY <2>5, <3>4, <1>t DEF Serialise, FrameType
      <4> QED
        BY <4>1, <3>2, <1>t
    <3> QED
      BY <3>3, <3>4
  <2>6. ASSUME NEW s \in Answers, SignerReturns(f, s) PROVE frame' \in [Frames -> FrameType]
    <3>1. Shown \subseteq Payloads
      BY <1>f, <1>t DEF Shown, FrameType, MintedTokens
    <3>2. s \in Signatures
      BY <3>1 DEF Answers, Signatures
    <3>3. [frame[f] EXCEPT !.pc = "signed", !.sig = s] \in FrameType
      BY <3>2, <1>f DEF FrameType, PCs
    <3>4. frame' = [frame EXCEPT ![f] = [frame[f] EXCEPT !.pc = "signed", !.sig = s]]
      BY <2>6, <1>t DEF SignerReturns, FrameType
    <3> QED
      BY <3>3, <3>4, <1>t
  <2>7. ASSUME SignerThrows(f) PROVE frame' \in [Frames -> FrameType]
    BY <2>7, <1>r DEF SignerThrows
  <2>8. ASSUME signAndAssemble(f)
        PROVE  frame' \in [Frames -> FrameType] /\ minted' \subseteq MintedTokens
    <3>1. [payload |-> frame[f].payload, sig |-> frame[f].sig] \in MintedTokens
      BY <1>f DEF FrameType, MintedTokens
    <3>2. frame' \in [Frames -> FrameType]
      BY <2>8, <1>r DEF signAndAssemble
    <3> QED
      BY <2>8, <3>1, <3>2, <1>t DEF signAndAssemble
  <2> QED
    BY <1>2, <1>t, <2>1, <2>2, <2>3, <2>4, <2>5, <2>6, <2>7, <2>8
    DEF EncodeStep, StampIssuer, StampTime, Validate, Serialise, SignerReturns,
        SignerThrows, signAndAssemble
<1>3. ASSUME NEW c \in Callers, SetterStep(c)
      PROVE  UNCHANGED <<now, frame, minted>> /\ obj' \in [Objects -> ClaimsObjects]
  <2>1. ASSUME NEW o \in Objects, NEW k \in Names, setIssuer(c, o, k)
        PROVE  UNCHANGED <<now, frame, minted>> /\ obj' \in [Objects -> ClaimsObjects]
    BY <2>1, <1>t DEF setIssuer, ClaimsObjects
  <2>2. ASSUME NEW o \in Objects, NEW b \in Bodies, SetBody(c, o, b)
        PROVE  UNCHANGED <<now, frame, minted>> /\ obj' \in [Objects -> ClaimsObjects]
    BY <2>2, <1>t DEF SetBody, ClaimsObjects
  <2>3. ASSUME NEW o \in Objects, NEW d \in GenericData, setDataJson(c, o, d)
        PROVE  UNCHANGED <<now, frame, minted>> /\ obj' \in [Objects -> ClaimsObjects]
    <3>1. [obj[o] EXCEPT !.data = d] \in ClaimsObjects
      BY <1>t, MintingAssumption DEF ClaimsObjects
    <3> QED
      BY <2>3, <3>1, <1>t DEF setDataJson
  <2> QED
    BY <1>3, <2>1, <2>2, <2>3 DEF SetterStep
<1>4. CASE UNCHANGED vars
  BY <1>4, <1>t DEF vars
<1> QED
  BY <1>1, <1>2, <1>3, <1>4, <1>t DEF Next, TypeOK, FrameType

(* Type correctness of Minting, whoever shares the objects.                *)
THEOREM TypeCorrect == Spec => []TypeOK
<1> QED
  BY TypeInit, TypeStep, PTL DEF Spec

------------------------------------------------------------------------------
(* A step of encode changes its own frame only, and runs on top of the     *)
(* call stack of its thread or starts one level above it.                  *)
LEMMA OnlyOwnFrame ==
    ASSUME TypeOK, NEW f \in Frames, EncodeStep(f)
    PROVE  /\ \A g \in Frames : g # f => frame'[g] = frame[g]
           /\ Running(f) \/ CallableAt(f)
<1>1. frame \in [Frames -> [pc : PCs, obj : Objects, key : Names, since : Nat,
                            payload : Payloads, sig : Signatures]]
  BY DEF TypeOK
<1> QED
  BY <1>1 DEF EncodeStep, Enter, StampIssuer, StampTime, Validate, Serialise, SignerReturns,
              SignerThrows, signAndAssemble, Goto, Return

(* What a step does to the objects: their types stay, whoever takes it,    *)
(* and so does the type that a typed one will write.                       *)
LEMMA TypesStay ==
    ASSUME TypeOK, [Next]_vars, NEW o \in Objects
    PROVE  /\ obj'[o].type = obj[o].type
           /\ obj[o].type # "generic" => obj'[o].data = obj[o].data
<1>o. obj \in [Objects -> ClaimsObjects]
  BY DEF TypeOK
<1> DEFINE Stays == /\ obj'[o].type = obj[o].type
                    /\ obj[o].type # "generic" => obj'[o].data = obj[o].data
<1>1. CASE UNCHANGED obj
  BY <1>1
<1>2. ASSUME NEW f \in Frames, StampIssuer(f) \/ StampTime(f) PROVE Stays
  BY <1>2, <1>o DEF StampIssuer, StampTime, ClaimsObjects
<1>3. ASSUME NEW c \in Callers, SetterStep(c) PROVE Stays
  <2>1. ASSUME NEW p \in Objects, NEW k \in Names, setIssuer(c, p, k) PROVE Stays
    BY <2>1, <1>o DEF setIssuer, ClaimsObjects
  <2>2. ASSUME NEW p \in Objects, NEW b \in Bodies, SetBody(c, p, b) PROVE Stays
    BY <2>2, <1>o DEF SetBody, ClaimsObjects
  <2>3. ASSUME NEW p \in Objects, NEW d \in GenericData, setDataJson(c, p, d) PROVE Stays
    BY <2>3, <1>o DEF setDataJson, ClaimsObjects
  <2> QED
    BY <1>3, <2>1, <2>2, <2>3 DEF SetterStep
<1> QED
  BY <1>1, <1>2, <1>3 DEF Next, vars, Tick, EncodeStep, Enter, Validate, Serialise, SignerReturns,
                          SignerThrows, signAndAssemble

(* The key of a call stays of the right kind for the object, then for the  *)
(* payload, then for the token: no lock is needed for that.                *)
LEMMA KindsStep == TypeOK /\ KindsHold /\ [Next]_vars => KindsHold'
<1> SUFFICES ASSUME TypeOK, KindsHold, [Next]_vars PROVE KindsHold'
  OBVIOUS
<1>n. /\ obj \in [Objects -> ClaimsObjects]
      /\ frame \in [Frames -> [pc : PCs, obj : Objects, key : Names, since : Nat,
                               payload : Payloads, sig : Signatures]]
  BY DEF TypeOK
<1> DEFINE Called(g) == /\ frame[g].pc \in {"entered", "stamped", "dated", "checked"} =>
                               checkIssuerKind(obj[frame[g].obj].type, frame[g].key)
                        /\ frame[g].pc \in {"signing", "signed"} =>
                               /\ SaysItsType(frame[g].payload)
                               /\ checkIssuerKind(frame[g].payload.type, frame[g].key)
<1>1. \A o \in Objects : SaysItsType(obj[o])'
  BY TypesStay DEF KindsHold, SaysItsType
<1>2. ASSUME NEW g \in Frames PROVE Called(g)'
  <2>g. Called(g)
    BY DEF KindsHold
  <2>o. frame[g].obj \in Objects /\ Idle.pc = "idle"
    BY <1>n DEF Idle
  <2>s. ASSUME UNCHANGED frame \/ frame'[g] = frame[g] PROVE Called(g)'
    BY <2>s, <2>g, <2>o, TypesStay DEF SaysItsType, checkIssuerKind
  <2>1. ASSUME NEW f \in Frames, EncodeStep(f), f # g PROVE Called(g)'
    BY <2>1, <2>s, OnlyOwnFrame
  <2>2. ASSUME NEW o \in Objects, NEW k \in Names, Enter(g, o, k) PROVE Called(g)'
    <3>1. CASE checkIssuerKind(obj[o].type, k)
      <4>1. frame'[g].pc = "entered" /\ frame'[g].obj = o /\ frame'[g].key = k /\ obj' = obj
        BY <2>2, <3>1, <1>n DEF Enter, Idle
      <4> QED
        BY <4>1, <3>1 DEF checkIssuerKind
    <3>2. CASE ~checkIssuerKind(obj[o].type, k)
      BY <2>2, <3>2, <1>n, <2>o DEF Enter
    <3> QED
      BY <3>1, <3>2
  <2>3. ASSUME StampIssuer(g) \/ StampTime(g) \/ Validate(g) PROVE Called(g)'
    <3>1. /\ frame[g].pc \in {"entered", "stamped", "dated"}
          /\ \/ frame'[g].pc = "idle"
             \/ /\ frame'[g].pc \in {"stamped", "dated", "checked"}
                /\ frame'[g].obj = frame[g].obj /\ frame'[g].key = frame[g].key
      BY <2>3, <1>n, <2>o DEF StampIssuer, StampTime, Validate, Goto, Return
    <3> QED
      BY <3>1, <2>g, <2>o, TypesStay DEF checkIssuerKind
  <2>4. ASSUME Serialise(g) PROVE Called(g)'
    <3>1. /\ frame[g].pc = "checked"
          /\ \/ frame'[g].pc = "idle"
             \/ /\ frame'[g].pc = "signing"
                /\ frame'[g].payload = obj[frame[g].obj] /\ frame'[g].key = frame[g].key
      BY <2>4, <1>n, <2>o DEF Serialise, Return
    <3> QED
      BY <3>1, <2>g, <2>o DEF KindsHold, SaysItsType, checkIssuerKind
  <2>5. ASSUME NEW s \in Answers, SignerReturns(g, s) PROVE Called(g)'
    <3>1. /\ frame[g].pc = "signing" /\ frame'[g].pc = "signed"
          /\ frame'[g].payload = frame[g].payload /\ frame'[g].key = frame[g].key
      BY <2>5, <1>n DEF SignerReturns
    <3> QED
      BY <3>1, <2>g DEF SaysItsType, checkIssuerKind
  <2>6. ASSUME SignerThrows(g) \/ signAndAssemble(g) PROVE Called(g)'
    BY <2>6, <1>n, <2>o DEF SignerThrows, signAndAssemble, Return
  <2>7. ASSUME NEW c \in Callers, SetterStep(c) PROVE UNCHANGED frame
    BY <2>7 DEF SetterStep, setIssuer, SetBody, setDataJson
  <2>8. Tick => UNCHANGED frame
    BY DEF Tick
  <2> QED
    BY <2>s, <2>1, <2>2, <2>3, <2>4, <2>5, <2>6, <2>7, <2>8 DEF Next, EncodeStep, vars
<1>3. ASSUME NEW m \in minted'
      PROVE  /\ SaysItsType(m.payload) /\ checkIssuerKind(m.payload.type, m.sig.by)
             /\ Verifies(m.sig.by, m.payload, m.sig)
  <2>1. CASE m \in minted
    BY <2>1 DEF KindsHold
  <2>2. CASE m \notin minted
    <3>1. PICK f \in Frames : signAndAssemble(f)
      BY <2>2 DEF Next, vars, Tick, EncodeStep, SetterStep, Enter, StampIssuer, StampTime,
                  Validate, Serialise, SignerReturns, SignerThrows, setIssuer, SetBody, setDataJson
    <3>2. /\ frame[f].pc = "signed"
          /\ m.payload = frame[f].payload /\ m.sig = frame[f].sig
          /\ Verifies(frame[f].key, m.payload, m.sig)
      BY <3>1, <2>2 DEF signAndAssemble
    <3> QED
      BY <3>2 DEF KindsHold, Verifies
  <2> QED
    BY <2>1, <2>2
<1>4. \A m \in minted' : /\ SaysItsType(m.payload)' /\ checkIssuerKind(m.payload.type, m.sig.by)'
                         /\ Verifies(m.sig.by, m.payload, m.sig)'
  BY <1>3 DEF SaysItsType, checkIssuerKind, Verifies
<1> QED
  BY <1>1, <1>2, <1>4 DEF KindsHold

LEMMA KindsInit == Init => KindsHold
<1> SUFFICES ASSUME Init PROVE KindsHold
  OBVIOUS
<1>1. \A f \in Frames : frame[f].pc = "idle"
  BY DEF Init, Idle
<1>2. \A o \in Objects : SaysItsType(obj[o])
  BY MintingAssumption DEF Init, SaysItsType
<1> QED
  BY <1>1, <1>2 DEF KindsHold, Init

(* Calls of one thread stay nested: everything below the top waits in its  *)
(* signer.                                                                 *)
LEMMA CallStackStep == TypeOK /\ CallStack /\ [Next]_vars => CallStack'
<1> SUFFICES ASSUME TypeOK, CallStack, [Next]_vars,
                    NEW c \in Callers, NEW d \in 1..MaxDepth, NEW e \in 1..MaxDepth,
                    d < e, frame'[<<c, e>>].pc # "idle"
             PROVE  frame'[<<c, d>>].pc = "signing"
  BY DEF CallStack
<1> DEFINE low == <<c, d>>
           high == <<c, e>>
<1>f. low \in Frames /\ high \in Frames /\ low # high
  BY MintingAssumption DEF Frames
<1>1. CASE UNCHANGED frame
  BY <1>1 DEF CallStack
<1>2. ASSUME NEW f \in Frames, EncodeStep(f) PROVE frame'[low].pc = "signing"
  <2>1. CASE f = high
    <3>1. frame[low].pc = "signing"
      <4>1. CASE Running(f)
        BY <4>1, <2>1 DEF Running, CallStack
      <4>2. CASE CallableAt(f)
        BY <4>2, <2>1, MintingAssumption DEF CallableAt
      <4> QED
        BY <1>2, <4>1, <4>2, OnlyOwnFrame
    <3> QED
      BY <3>1, <2>1, <1>2, <1>f, OnlyOwnFrame
  <2>2. CASE f = low
    <3>1. frame[high].pc # "idle"
      BY <1>2, <2>2, <1>f, OnlyOwnFrame
    <3>2. ~Running(f)
      BY <3>1, <2>2 DEF Running
    <3>3. ~CallableAt(f)
      BY <3>1, <2>2, MintingAssumption DEF CallableAt
    <3> QED
      BY <1>2, <3>2, <3>3, OnlyOwnFrame
  <2>3. CASE f # low /\ f # high
    BY <1>2, <1>f, <2>3, OnlyOwnFrame DEF CallStack
  <2> QED
    BY <2>1, <2>2, <2>3
<1>3. ASSUME NEW t \in Callers, SetterStep(t) PROVE UNCHANGED frame
  BY <1>3 DEF SetterStep, setIssuer, SetBody, setDataJson
<1>4. CASE Tick
  BY <1>4, <1>1 DEF Tick
<1> QED
  BY <1>1, <1>2, <1>3, <1>4 DEF Next, vars

(* With one thread per object, the frame that runs is the only one between *)
(* its entry and its signer on that object...                              *)
LEMMA AloneOnObject ==
    ASSUME Exclusive, CallStack, StampsHold,
           NEW f \in Frames, NEW g \in Frames, f # g, Running(f),
           frame[g].pc \in {"entered", "stamped", "dated", "checked"}
    PROVE  frame[f].obj # frame[g].obj
<1> SUFFICES ASSUME frame[f].obj = frame[g].obj PROVE FALSE
  OBVIOUS
<1>1. PICK c \in Callers, d \in 1..MaxDepth : f = <<c, d>>
  BY DEF Frames
<1>2. PICK t \in Callers, e \in 1..MaxDepth : g = <<t, e>>
  BY DEF Frames
<1>3. frame[f].obj \in MayUse[c] /\ frame[g].obj \in MayUse[t]
  BY <1>1, <1>2 DEF Running, StampsHold
<1>4. c = t
  BY <1>3 DEF Exclusive
<1>5. d < e \/ e < d
  BY <1>1, <1>2, <1>4, MintingAssumption
<1>6. CASE d < e
  BY <1>1, <1>2, <1>4, <1>6 DEF Running
<1>7. CASE e < d
  BY <1>1, <1>2, <1>4, <1>7 DEF Running, CallStack
<1> QED
  BY <1>5, <1>6, <1>7

(* ... and no setter reaches the object in that time.                      *)
LEMMA NoSetterDuringEncode ==
    ASSUME Exclusive, StampsHold, NEW c \in Callers, OwnCode(c), NEW o \in MayUse[c],
           NEW g \in Frames, frame[g].pc \in {"entered", "stamped", "dated", "checked"}
    PROVE  frame[g].obj # o
<1>1. PICK t \in Callers, e \in 1..MaxDepth : g = <<t, e>>
  BY DEF Frames
<1>2. frame[g].obj \in MayUse[t]
  BY <1>1 DEF StampsHold
<1>3. c # t
  BY <1>1 DEF OwnCode
<1> QED
  BY <1>2, <1>3 DEF Exclusive

------------------------------------------------------------------------------
(* The stamps a frame put on its object stay until it has serialised them. *)
LEMMA StampsStep ==
    ASSUME Exclusive, IInv, [Next]_vars PROVE StampsHold'
<1>t. TypeOK /\ CallStack /\ StampsHold
  BY DEF IInv
<1>n. now \in Nat /\ obj \in [Objects -> ClaimsObjects]
      /\ frame \in [Frames -> [pc : PCs, obj : Objects, key : Names, since : Nat,
                               payload : Payloads, sig : Signatures]]
  BY <1>t DEF TypeOK
<1> DEFINE Stamps(g) ==
        LET c == obj[frame[g].obj]
        IN  /\ frame[g].pc # "idle" => frame[g].obj \in MayUse[g[1]]
            /\ frame[g].pc \in {"entered", "stamped", "dated", "checked"} =>
                   checkIssuerKind(c.type, frame[g].key) /\ frame[g].since <= now
            /\ frame[g].pc \in {"stamped", "dated", "checked"} => c.iss = frame[g].key
            /\ frame[g].pc \in {"dated", "checked"} => c.iat \in frame[g].since..now
            /\ frame[g].pc = "checked" => checkStructure(c.type, c.sub, c.iss) /\ ~Blocking(c)
<1> SUFFICES ASSUME NEW g \in Frames PROVE Stamps(g)'
  BY DEF StampsHold
<1>g. Stamps(g)
  BY <1>t DEF StampsHold
<1>o. /\ frame[g].obj \in Objects /\ frame[g].since \in Nat /\ frame[g].pc \in PCs
      /\ obj[frame[g].obj].iat \in Nat
  BY <1>n DEF ClaimsObjects
<1>1. CASE UNCHANGED vars
  BY <1>1, <1>g DEF vars, checkIssuerKind, checkStructure, Blocking
<1>2. CASE Tick
  <2>1. now' = now + 1 /\ UNCHANGED <<obj, frame>>
    BY <1>2 DEF Tick
  <2>2. \A s \in Nat : /\ s <= now => s <= now'
                       /\ \A i : i \in s..now => i \in s..now'
    BY <2>1, <1>n
  <2>3. /\ checkIssuerKind(obj[frame[g].obj].type, frame[g].key)'
              <=> checkIssuerKind(obj[frame[g].obj].type, frame[g].key)
        /\ checkStructure(obj[frame[g].obj].type, obj[frame[g].obj].sub, obj[frame[g].obj].iss)'
              <=> checkStructure(obj[frame[g].obj].type, obj[frame[g].obj].sub, obj[frame[g].obj].iss)
        /\ Blocking(obj[frame[g].obj])' <=> Blocking(obj[frame[g].obj])
    BY <2>1 DEF checkIssuerKind, checkStructure, Blocking
  <2> QED
    BY <2>1, <2>2, <2>3, <1>g, <1>o
<1>3. ASSUME NEW c \in Callers, SetterStep(c) PROVE Stamps(g)'
  <2>1. PICK o \in MayUse[c] : /\ OwnCode(c)
                               /\ UNCHANGED <<now, frame>>
                               /\ \A p \in Objects : p # o => obj'[p] = obj[p]
    BY <1>3, <1>n DEF SetterStep, setIssuer, SetBody, setDataJson
  <2>2. CASE frame[g].pc \in {"entered", "stamped", "dated", "checked"}
    <3>1. obj'[frame[g].obj] = obj[frame[g].obj]
      BY <2>1, <2>2, <1>t, <1>o, NoSetterDuringEncode
    <3> QED
      BY <3>1, <2>1, <1>g DEF checkIssuerKind, checkStructure, Blocking
  <2>3. CASE frame[g].pc \notin {"entered", "stamped", "dated", "checked"}
    BY <2>3, <2>1, <1>g
  <2> QED
    BY <2>2, <2>3
<1>4. ASSUME NEW f \in Frames, EncodeStep(f), f # g PROVE Stamps(g)'
  <2>1. frame'[g] = frame[g] /\ now' = now
    BY <1>4, <1>t, OnlyOwnFrame
    DEF EncodeStep, Enter, StampIssuer, StampTime, Validate, Serialise, SignerReturns,
        SignerThrows, signAndAssemble
  <2>2. CASE frame[g].pc \in {"entered", "stamped", "dated", "checked"}
    <3>1. Running(f) => frame[f].obj # frame[g].obj
      BY <2>2, <1>4, <1>t, AloneOnObject
    <3>2. obj'[frame[g].obj] = obj[frame[g].obj]
      BY <3>1, <1>4, <1>n, <1>o
      DEF EncodeStep, Enter, StampIssuer, StampTime, Validate, Serialise, SignerReturns,
          SignerThrows, signAndAssemble
    <3> QED
      BY <3>2, <2>1, <1>g DEF checkIssuerKind, checkStructure, Blocking
  <2>3. CASE frame[g].pc \notin {"entered", "stamped", "dated", "checked"}
    BY <2>3, <2>1, <1>g
  <2> QED
    BY <2>2, <2>3
<1>5. ASSUME EncodeStep(g) PROVE Stamps(g)'
  <2>i. Idle.pc = "idle"
    BY DEF Idle
  <2>1. ASSUME NEW o \in Objects, NEW k \in Names, Enter(g, o, k) PROVE Stamps(g)'
    <3>1. CASE checkIssuerKind(obj[o].type, k)
      <4>1. /\ frame'[g].pc = "entered" /\ frame'[g].obj = o /\ frame'[g].key = k
            /\ frame'[g].since = now
        BY <2>1, <3>1, <1>n DEF Enter, Idle
      <4>2. o \in MayUse[g[1]] /\ UNCHANGED <<now, obj>>
        BY <2>1 DEF Enter
      <4> QED
        BY <4>1, <4>2, <3>1, <1>n DEF checkIssuerKind
    <3>2. CASE ~checkIssuerKind(obj[o].type, k)
      BY <2>1, <3>2, <1>n, <2>i DEF Enter
    <3> QED
      BY <3>1, <3>2
  <2>2. ASSUME StampIssuer(g) PROVE Stamps(g)'
    <3>1. /\ frame'[g] = [frame[g] EXCEPT !.pc = "stamped"] /\ frame[g].pc = "entered"
          /\ now' = now
      BY <2>2, <1>n DEF StampIssuer, Goto
    <3>2. obj'[frame[g].obj] = [obj[frame[g].obj] EXCEPT !.iss = frame[g].key]
      BY <2>2, <1>n, <1>o DEF StampIssuer
    <3> QED
      BY <3>1, <3>2, <1>g, <1>n, <1>o DEF checkIssuerKind, ClaimsObjects
  <2>3. ASSUME StampTime(g) PROVE Stamps(g)'
    <3>1. /\ frame'[g] = [frame[g] EXCEPT !.pc = "dated"] /\ frame[g].pc = "stamped"
          /\ now' = now
      BY <2>3, <1>n DEF StampTime, Goto
    <3>2. obj'[frame[g].obj] = [obj[frame[g].obj] EXCEPT !.iat = now]
      BY <2>3, <1>n, <1>o DEF StampTime
    <3> QED
      BY <3>1, <3>2, <1>g, <1>n, <1>o DEF checkIssuerKind, ClaimsObjects
  <2>4. ASSUME Validate(g) PROVE Stamps(g)'
    <3> DEFINE c == obj[frame[g].obj]
    <3>1. CASE checkStructure(c.type, c.sub, c.iss) /\ ~Blocking(c)
      <4>1. /\ frame'[g] = [frame[g] EXCEPT !.pc = "checked"] /\ frame[g].pc = "dated"
            /\ UNCHANGED <<now, obj>>
        BY <2>4, <3>1, <1>n DEF Validate, Goto
      <4>2. /\ checkIssuerKind(c.type, frame[g].key)' <=> checkIssuerKind(c.type, frame[g].key)
            /\ checkStructure(c.type, c.sub, c.iss)' <=> checkStructure(c.type, c.sub, c.iss)
            /\ Blocking(c)' <=> Blocking(c)
        BY <4>1, <1>n DEF checkIssuerKind, checkStructure, Blocking
      <4> HIDE DEF c
      <4>3. frame'[g].obj = frame[g].obj /\ c' = c
        BY <4>1, <1>n DEF c
      <4> QED
        BY <4>1, <4>2, <4>3, <3>1, <1>g, <1>n DEF c
    <3>2. CASE ~(checkStructure(c.type, c.sub, c.iss) /\ ~Blocking(c))
      BY <2>4, <3>2, <1>n, <2>i DEF Validate, Return
    <3> QED
      BY <3>1, <3>2
  <2>5. ASSUME Serialise(g) PROVE Stamps(g)'
    <3>1. frame'[g].pc \in {"idle", "signing"}
          /\ (frame'[g].pc = "signing" => frame'[g].obj = frame[g].obj)
      BY <2>5, <1>n, <2>i DEF Serialise, Return
    <3>2. frame[g].pc = "checked"
      BY <2>5 DEF Serialise
    <3> QED
      BY <3>1, <3>2, <1>g
  <2>6. ASSUME NEW s \in Answers, SignerReturns(g, s) PROVE Stamps(g)'
    <3>1. frame'[g].pc = "signed" /\ frame'[g].obj = frame[g].obj /\ frame[g].pc = "signing"
      BY <2>6, <1>n DEF SignerReturns
    <3> QED
      BY <3>1, <1>g
  <2>7. ASSUME SignerThrows(g) \/ signAndAssemble(g) PROVE Stamps(g)'
    BY <2>7, <1>n, <2>i DEF SignerThrows, signAndAssemble, Return
  <2> QED
    BY <1>5, <2>1, <2>2, <2>3, <2>4, <2>5, <2>6, <2>7 DEF EncodeStep
<1> QED
  BY <1>1, <1>2, <1>3, <1>4, <1>5 DEF Next

(* What a signer is shown was serialised from an object whose stamps and   *)
(* validation still held.                                                  *)
LEMMA AskedStep ==
    ASSUME IInv, [Next]_vars PROVE SignerAskedInOrder'
<1>t. TypeOK /\ StampsHold /\ SignerAskedInOrder
  BY DEF IInv
<1>n. now \in Nat /\ now' \in Nat /\ now <= now'
      /\ frame \in [Frames -> [pc : PCs, obj : Objects, key : Names, since : Nat,
                               payload : Payloads, sig : Signatures]]
  <2>1. TypeOK'
    BY <1>t, TypeStep
  <2>2. now' = now \/ now' = now + 1
    BY DEF Next, vars, Tick, EncodeStep, SetterStep, Enter, StampIssuer, StampTime, Validate,
           Serialise, SignerReturns, SignerThrows, signAndAssemble, setIssuer, SetBody, setDataJson
  <2> QED
    BY <1>t, <2>1, <2>2 DEF TypeOK
<1> DEFINE Asked(g) ==
        frame[g].pc \in {"signing", "signed"} =>
            LET p == frame[g].payload
            IN  /\ checkStructure(p.type, p.sub, p.iss)
                /\ checkIssuerKind(p.type, p.iss)
                /\ ~Blocking(p)
                /\ p.iss = frame[g].key
                /\ p.iat \in frame[g].since..now
<1> SUFFICES ASSUME NEW g \in Frames PROVE Asked(g)'
  BY DEF SignerAskedInOrder
<1>g. Asked(g)
  BY <1>t DEF SignerAskedInOrder
<1>y. frame[g].since \in Nat /\ frame[g].payload.iat \in Nat
  BY <1>n DEF Payloads, ClaimsObjects
<1>k. ASSUME frame'[g].pc = frame[g].pc \/ frame[g].pc = "signing",
             frame'[g].payload = frame[g].payload, frame'[g].key = frame[g].key,
             frame'[g].since = frame[g].since
      PROVE  Asked(g)'
  BY <1>k, <1>g, <1>n, <1>y DEF checkIssuerKind, checkStructure, Blocking
<1>1. CASE UNCHANGED frame
  BY <1>1, <1>k
<1>2. ASSUME NEW f \in Frames, EncodeStep(f), f # g PROVE Asked(g)'
  BY <1>2, <1>t, <1>k, OnlyOwnFrame
<1>3. ASSUME EncodeStep(g) PROVE Asked(g)'
  <2>1. CASE frame'[g].pc \notin {"signing", "signed"}
    BY <2>1
  <2>2. CASE Serialise(g) /\ frame'[g].pc = "signing"
    <3>1. /\ frame'[g].payload = obj[frame[g].obj]
          /\ frame'[g].key = frame[g].key /\ frame'[g].since = frame[g].since
          /\ frame[g].pc = "checked" /\ now' = now
      BY <2>2, <1>n DEF Serialise, Return, Idle
    <3> QED
      BY <3>1, <1>t DEF StampsHold, checkIssuerKind, checkStructure, Blocking
  <2>3. CASE \E s \in Answers : SignerReturns(g, s)
    <3>1. /\ frame[g].pc = "signing"
          /\ frame'[g].payload = frame[g].payload
          /\ frame'[g].key = frame[g].key /\ frame'[g].since = frame[g].since
      BY <2>3, <1>n DEF SignerReturns
    <3> QED
      BY <3>1, <1>k
  <2>4. frame'[g].pc \in {"signing", "signed"} =>
            Serialise(g) \/ \E s \in Answers : SignerReturns(g, s)
    <3>1. Idle.pc = "idle" /\ [Idle EXCEPT !.pc = "entered"].pc = "entered"
      BY DEF Idle
    <3>2. ASSUME NEW o \in Objects, NEW k \in Names, Enter(g, o, k)
          PROVE  frame'[g].pc \in {"idle", "entered"}
      BY <3>2, <1>n DEF Enter, Idle
    <3>3. StampIssuer(g) \/ StampTime(g) => frame'[g].pc \in {"stamped", "dated"}
      BY <1>n DEF StampIssuer, StampTime, Goto
    <3>4. Validate(g) => frame'[g].pc \in {"idle", "checked"}
      BY <1>n, <3>1 DEF Validate, Goto, Return
    <3>5. SignerThrows(g) \/ signAndAssemble(g) => frame'[g].pc = "idle"
      BY <1>n, <3>1 DEF SignerThrows, signAndAssemble, Return
    <3> QED
      BY <1>3, <3>2, <3>3, <3>4, <3>5 DEF EncodeStep
  <2>5. CASE Serialise(g) /\ frame'[g].pc # "signing"
    <3>1. frame'[g].pc = "idle"
      BY <2>5, <1>n DEF Serialise, Return, Idle
    <3> QED
      BY <3>1
  <2> QED
    BY <2>1, <2>2, <2>3, <2>4, <2>5
<1>4. ASSUME NEW c \in Callers, SetterStep(c) PROVE UNCHANGED frame
  BY <1>4 DEF SetterStep, setIssuer, SetBody, setDataJson
<1>5. CASE Tick
  BY <1>5, <1>1 DEF Tick
<1> QED
  BY <1>1, <1>2, <1>3, <1>4, <1>5 DEF Next, vars

------------------------------------------------------------------------------
(* The abstract specification's Genuine, in this module's own operators.   *)
LEMMA GenuineDef ==
    ASSUME NEW m
    PROVE  Abstract!Genuine(m) <=> /\ checkStructure(m.payload.type, m.payload.sub, m.payload.iss)
                                   /\ checkIssuerKind(m.payload.type, m.payload.iss)
                                   /\ Verifies(m.payload.iss, m.payload, m.sig)
BY DEF Abstract!Genuine, Abstract!WellFormed, Abstract!checkStructure, checkStructure,
       Abstract!checkIssuerKind, checkIssuerKind, Abstract!checkSubjectKind, checkSubjectKind,
       Abstract!Verifies, Verifies, Abstract!IssuerKinds, IssuerKinds, Abstract!SubjectKinds,
       SubjectKinds, Abstract!Keys, Keys, Abstract!KeyKinds, KeyKinds

(* Either nothing is minted, or one token that is genuine and not dated    *)
(* ahead of the clock.                                                     *)
LEMMA MintStep ==
    ASSUME IInv, [Next]_vars
    PROVE  \/ minted' = minted
           \/ \E m \in minted' : /\ minted' = minted \cup {m}
                                 /\ Abstract!Genuine(m) /\ m.payload.iat <= now /\ now' = now
<1>1. ASSUME NEW f \in Frames, signAndAssemble(f), minted' # minted
      PROVE  \E m \in minted' : /\ minted' = minted \cup {m}
                                /\ Abstract!Genuine(m) /\ m.payload.iat <= now /\ now' = now
  <2> DEFINE m == [payload |-> frame[f].payload, sig |-> frame[f].sig]
  <2>1. /\ frame[f].pc = "signed" /\ Verifies(frame[f].key, m.payload, m.sig)
        /\ minted' = minted \cup {m} /\ now' = now
    BY <1>1 DEF signAndAssemble
  <2>2. /\ checkStructure(m.payload.type, m.payload.sub, m.payload.iss)
        /\ checkIssuerKind(m.payload.type, m.payload.iss)
        /\ m.payload.iss = frame[f].key
        /\ m.payload.iat \in frame[f].since..now
    BY <2>1 DEF IInv, SignerAskedInOrder
  <2>3. frame[f].since \in Nat /\ now \in Nat
    BY DEF IInv, TypeOK
  <2>4. Abstract!Genuine(m)
    BY <2>1, <2>2, GenuineDef
  <2> WITNESS m \in minted'
  <2> QED
    BY <2>1, <2>2, <2>3, <2>4
<1>2. ASSUME NEW f \in Frames, EncodeStep(f), ~signAndAssemble(f) PROVE minted' = minted
  BY <1>2 DEF EncodeStep, Enter, StampIssuer, StampTime, Validate, Serialise, SignerReturns,
              SignerThrows
<1>3. ASSUME NEW c \in Callers, SetterStep(c) PROVE minted' = minted
  BY <1>3 DEF SetterStep, setIssuer, SetBody, setDataJson
<1> QED
  BY <1>1, <1>2, <1>3 DEF Next, Tick, vars

LEMMA IInvInit == Init => IInv
<1> SUFFICES ASSUME Init PROVE IInv
  OBVIOUS
<1>1. \A f \in Frames : frame[f].pc = "idle"
  BY DEF Init, Idle
<1>2. TypeOK
  BY TypeInit
<1>3. CallStack
  BY <1>1, MintingAssumption DEF CallStack, Frames
<1> QED
  BY <1>1, <1>2, <1>3, KindsInit DEF IInv, StampsHold, SignerAskedInOrder, MintedGenuine, Init

LEMMA IInvStep == ASSUME Exclusive, IInv, [Next]_vars PROVE IInv'
<1>1. TypeOK'
  BY TypeStep DEF IInv
<1>2. CallStack' /\ KindsHold'
  BY CallStackStep, KindsStep DEF IInv
<1>3. StampsHold' /\ SignerAskedInOrder'
  BY StampsStep, AskedStep
<1>4. MintedGenuine'
  <2>1. now \in Nat /\ now' \in Nat /\ (now' = now \/ now' = now + 1)
        /\ \A m \in minted : m.payload.iat \in Nat
    <3>1. now' = now \/ now' = now + 1
      BY DEF Next, vars, Tick, EncodeStep, SetterStep, Enter, StampIssuer, StampTime, Validate,
             Serialise, SignerReturns, SignerThrows, signAndAssemble, setIssuer, SetBody, setDataJson
    <3> QED
      BY <1>1, <3>1 DEF IInv, TypeOK, MintedTokens, Payloads, ClaimsObjects
  <2>2. ASSUME NEW m \in minted' PROVE Abstract!Genuine(m) /\ m.payload.iat <= now'
    BY <2>1, MintStep DEF IInv, MintedGenuine
  <2> QED
    BY <2>2, GenuineDef DEF MintedGenuine
<1> QED
  BY <1>1, <1>2, <1>3, <1>4 DEF IInv

(* One thread per object suffices for the whole invariant: a signer is     *)
(* asked only for well-formed payloads naming its key, and every token is  *)
(* genuine.                                                                *)
THEOREM EncodeInvariant == ASSUME Exclusive PROVE Spec => []IInv
<1>1. IInv /\ [Next]_vars => IInv'
  BY IInvStep
<1> QED
  BY <1>1, IInvInit, PTL DEF Spec

(* The signer is asked in order, after the kind check and the validation.  *)
THEOREM SignerAsked == ASSUME Exclusive PROVE Spec => []SignerAskedInOrder
<1>1. IInv => SignerAskedInOrder
  BY DEF IInv
<1> QED
  BY <1>1, EncodeInvariant, PTL

(* iss can never disagree with the signature, while each object has one    *)
(* thread.                                                                 *)
THEOREM IssMatchesSignature == ASSUME Exclusive PROVE Spec => []IssNeverDisagrees
<1>1. IInv => IssNeverDisagrees
  BY GenuineDef DEF IInv, MintedGenuine, IssNeverDisagrees, Verifies
<1> QED
  BY <1>1, EncodeInvariant, PTL

(* A minted token as its readers see it: version 2, the type it was given, *)
(* and a signature over header and payload.                                *)
LEMMA WireIsRead ==
    ASSUME IInv, NEW m \in minted
    PROVE  LET t == Wire(m)
           IN  /\ EnvelopeVersion(t.payload) = JWT_VERSION
               /\ ~v1Layout(t.payload) /\ t.payload.top = Absent
               /\ m.payload.type # "generic" =>
                      /\ m.payload.data = m.payload.type /\ m.payload.type \in TypedClaims
                      /\ DispatchType(t.payload) = m.payload.type
               /\ EnvelopeInput(t) = HeaderAndPayload(t) /\ GenericInput(t) = HeaderAndPayload(t)
               /\ Verifies(t.payload.iss, HeaderAndPayload(t), t.sig)
<1> DEFINE t == Wire(m)
           p == WirePayload(m.payload)
           d == m.payload.data
<1>1. /\ t.payload = p /\ t.head = "ed25519-nkey" /\ p.top = Absent
      /\ p.nats = IF d = NotAString THEN Untyped ELSE d
      /\ p.ver = JWT_VERSION /\ p.iss = m.payload.iss
  BY DEF Wire, WirePayload
<1>2. m.payload \in ClaimsObjects
  BY DEF IInv, TypeOK, MintedTokens, Payloads
<1>3. p.nats # Absent
  <2>1. d # Absent
    BY <1>2 DEF ClaimsObjects, NatsTypes, NotAString, TypeFields, TypedClaims, UnsupportedClaims,
                Absent, Untyped
  <2> QED
    BY <1>1, <2>1 DEF Absent, Untyped
<1>4. ~v1Layout(p) /\ EnvelopeVersion(p) = JWT_VERSION
  BY <1>1, <1>3 DEF v1Layout, EnvelopeVersion
<1>5. ASSUME m.payload.type # "generic"
      PROVE  d = m.payload.type /\ m.payload.type \in TypedClaims
             /\ DispatchType(p) = m.payload.type
  <2>1. d = m.payload.type /\ m.payload.type \in TypedClaims
    BY <1>2, <1>5 DEF IInv, KindsHold, SaysItsType, ClaimsObjects, ObjectTypes
  <2>2. d # NotAString /\ d # Untyped
    BY <2>1 DEF TypedClaims, NotAString, Untyped
  <2> QED
    BY <1>1, <1>3, <1>4, <2>1, <2>2 DEF DispatchType
<1>6. EnvelopeInput(t) = HeaderAndPayload(t) /\ GenericInput(t) = HeaderAndPayload(t)
  BY <1>1, <1>4 DEF EnvelopeInput, GenericInput, JWT_VERSION
<1>7. Verifies(m.payload.iss, m.payload, m.sig)
  BY GenuineDef DEF IInv, MintedGenuine
<1>8. t.sig = [by |-> m.sig.by, over |-> [head |-> "ed25519-nkey", payload |-> WirePayload(m.sig.over)]]
  BY DEF Wire
<1>9. Verifies(p.iss, HeaderAndPayload(t), t.sig)
  BY <1>1, <1>7, <1>8 DEF Verifies, HeaderAndPayload
<1> QED
  BY <1>1, <1>4, <1>5, <1>6, <1>9

(* Two programs far apart agree on every token encode returns, and on the  *)
(* three kinds it should not have returned: one too long for every reader, *)
(* a generic one whose type is no string for verify, a request with a      *)
(* negative protocol for decode.  Every other one is read as the type it   *)
(* was encoded as (jwt_utils.cpp, decodeEnvelope; jwt.cpp, decode).        *)
THEOREM MintedTokensDecode == ASSUME Exclusive PROVE Spec => []MintedDecodes
<1>1. IInv => MintedDecodes
  <2> SUFFICES ASSUME IInv, NEW m \in minted
               PROVE  LET p    == m.payload
                          fits == p.body # "oversized"
                      IN  /\ decodeGeneric(Wire(m)) = "ok" <=> fits
                          /\ verify(Wire(m)) <=> fits /\ p.data # NotAString
                          /\ p.type # "generic" =>
                                 /\ decode(Wire(m)) = "ok" <=> fits /\ p.body # "unreadable"
                                 /\ DecodedAs(WirePayload(p)) = p.type
    BY DEF MintedDecodes
  <2> DEFINE t    == Wire(m)
             p    == m.payload
             fits == p.body # "oversized"
  <2>1. /\ t.whole <=> fits
        /\ t.head = "ed25519-nkey" /\ t.payload = WirePayload(p)
        /\ t.payload.form = IF p.data = NotAString THEN "typestr"
                            ELSE IF p.body = "unreadable" THEN "body" ELSE "ok"
        /\ t.payload.sub = p.sub /\ t.payload.iss = p.iss
        /\ p.data # NotAString => t.payload.nats = p.data
    BY DEF Wire, WirePayload
  <2>2. checkStructure(p.type, p.sub, p.iss) /\ p.sub \in Names
    BY GenuineDef DEF IInv, MintedGenuine, TypeOK, MintedTokens, Payloads, ClaimsObjects
  <2>w. /\ EnvelopeVersion(t.payload) = JWT_VERSION /\ t.payload.top = Absent
        /\ p.type # "generic" =>
               p.data = p.type /\ p.type \in TypedClaims /\ DispatchType(t.payload) = p.type
        /\ EnvelopeInput(t) = HeaderAndPayload(t) /\ GenericInput(t) = HeaderAndPayload(t)
        /\ Verifies(t.payload.iss, HeaderAndPayload(t), t.sig)
    BY WireIsRead
  <2>v. EnvelopeVersion(t.payload) = 2
    <3>1. EnvelopeVersion(t.payload) = JWT_VERSION
      BY <2>w
    <3> HIDE DEF t
    <3> QED
      BY <3>1 DEF JWT_VERSION
  <2> HIDE DEF t, p
  <2>3. decodeGeneric(t) = "ok" <=> fits
    <3>1. checkStructure("generic", p.sub, p.iss)
      BY <2>2, NamesAssumption DEF checkStructure, checkSubjectKind, SubjectKinds
    <3> QED
      BY <2>1, <2>w, <3>1, GenericAccepts
  <2>4. decodeEnvelope(t) = "ok" <=> fits /\ p.data # NotAString
    <3>1. EnvelopeVersion(t.payload) \in {1, JWT_VERSION} /\ EnvelopeVersion(t.payload) # 1
      BY <2>v DEF JWT_VERSION
    <3> QED
      BY <2>1, <2>w, <3>1, EnvelopeAccepts
  <2>5. ASSUME p.type # "generic"
        PROVE  /\ decode(t) = "ok" <=> fits /\ p.body # "unreadable"
               /\ DecodedAs(t.payload) = p.type
    <3>1. p.data = p.type /\ p.type \in TypedClaims /\ DispatchType(t.payload) = p.type
      BY <2>w, <2>5
    <3>2. p.data # NotAString /\ p.type \notin UnsupportedClaims /\ p.type # "generic"
      BY <3>1 DEF TypedClaims, UnsupportedClaims, NotAString
    <3>3. DecodedAs(t.payload) = p.type
      BY <3>1 DEF DecodedAs
    <3>4. MigratedType(t.payload) = p.type
      BY <2>1, <2>v, <3>1, <3>2 DEF MigratedType
    <3>5. decodeTyped(t, p.type) = "ok" <=> fits /\ p.body # "unreadable"
      BY <2>1, <2>2, <2>4, <3>2, <3>4, TypedAccepts
    <3> QED
      BY <2>1, <3>1, <3>2, <3>3, <3>5, DecodeAccepts
  <2> QED
    BY <2>1, <2>3, <2>4, <2>5 DEF verify, t, p
<1> QED
  BY <1>1, EncodeInvariant, PTL

(* encode, with nesting and concurrency, implements atomic issuance.       *)
THEOREM MintingImplementsIssuance == ASSUME Exclusive PROVE Spec => ImplementsIssuance
<1>1. Init => Abstract!Init
  BY DEF Init, Abstract!Init
<1>2. IInv /\ [Next]_vars => [Abstract!Next]_(Abstract!avars)
  <2> SUFFICES ASSUME IInv, [Next]_vars PROVE [Abstract!Next]_(Abstract!avars)
    OBVIOUS
  <2>1. CASE minted' = minted
    <3>1. now' = now \/ now' = now + 1
      BY DEF Next, vars, Tick, EncodeStep, SetterStep, Enter, StampIssuer, StampTime, Validate,
             Serialise, SignerReturns, SignerThrows, signAndAssemble, setIssuer, SetBody, setDataJson
    <3> QED
      BY <2>1, <3>1 DEF Abstract!Next, Abstract!Tick, Abstract!avars
  <2>2. CASE \E m \in minted' : /\ minted' = minted \cup {m}
                                /\ Abstract!Genuine(m) /\ m.payload.iat <= now /\ now' = now
    BY <2>2 DEF Abstract!Next, Abstract!Issue, Abstract!avars
  <2> QED
    BY <2>1, <2>2, MintStep
<1> QED
  BY <1>1, <1>2, EncodeInvariant, PTL DEF Spec, ImplementsIssuance, Abstract!Spec

==============================================================================
