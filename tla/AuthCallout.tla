----------------------------- MODULE AuthCallout ----------------------------
(***************************************************************************)
(* Auth callout: nats-servers ask a service of the account whether to let  *)
(* a connection in.  The request and the response are claims of this       *)
(* library, the response says for which user nkey and which server it is,  *)
(* and when the account has an xkey both travel in boxes sealed from one   *)
(* curve key to another.  The service is the one of the interop driver;    *)
(* the server is modelled from what the README and SECURITY.md say of it.  *)
(*                                                                         *)
(* Nothing on the network can be relied on: a message may be lost,         *)
(* delivered late or again, under another header, in the clear or sealed   *)
(* anew with another curve key, mixed up with another client's payload,    *)
(* and an answer may reach the wrong connection.  The service may crash at *)
(* any point and come back, with another curve seed too, and the server    *)
(* stops waiting whenever it likes.                                        *)
(***************************************************************************)
EXTENDS Tokens

CONSTANTS Connections,  \* connection attempts
          Question,     \* what the server has to say about each of them
          Account,      \* the account whose service this is,
          SigningKey,   \* its signing key, which issues the responses,
          ServiceXKey,  \* the curve key in its authorization.xkey,
          OtherXKey,    \* and a curve key that somebody else holds
          Nothing       \* an empty hand of the service

(* What a client presents in connect_opts.jwt, as far as the service can   *)
(* tell: nothing, something that does not decode, a user of another        *)
(* issuer, a user it does not know, a user it admits.                      *)
Sentinels == {"none", "garbled", "foreign", "unknown", "welcome"}

(* key signs the requests of the server, id and xkey are what it puts into *)
(* server_id; it seals when its xkey is set.                               *)
Questions == [key : Names, id : Names, xkey : Names, nkey : Names,
              account : Names, sentinel : Sentinels]

ASSUME CalloutAssumption ==
    /\ Question \in [Connections -> Questions]
    /\ Account \in Names /\ SigningKey \in Names
    /\ KindOf[Account] = "A" /\ KindOf[SigningKey] = "A"
    /\ ServiceXKey \in Names /\ OtherXKey \in Names
    /\ ServiceXKey # Empty /\ OtherXKey # ServiceXKey

(* A server makes a nkey for one connection and uses it for no other.      *)
ASSUME NkeyAssumption ==
    \A c, d \in Connections : Question[c].nkey = Question[d].nkey => c = d

XKeys == {ServiceXKey, OtherXKey} \cup ({Question[c].xkey : c \in Connections} \ {Empty})

-----------------------------------------------------------------------------
(* AuthorizationRequestClaims.                                             *)

RequestClaims == [iss : Names, sub : Names, id : Names, xkey : Names, userNkey : Names,
                  sentinel : Sentinels]

RequestTokens == [claims : RequestClaims, sig : [by : Names, over : RequestClaims]]

Request(c) == [iss |-> Question[c].key, sub |-> Question[c].account, id |-> Question[c].id,
               xkey |-> Question[c].xkey, userNkey |-> Question[c].nkey,
               sentinel |-> Question[c].sentinel]

(* Mutant of encodeRequest: the checks of decode only.                     *)
EncodeUnvalidated(rq) ==
    FirstFailure(<<
        <<~checkStructure("authorization_request", rq.sub, rq.iss), "InvalidClaimsError">>
    >>)

(* encodeWithSigner: the issuer kind, the structure and validate().        *)
encodeRequest(rq) ==
    FirstFailure(<<
        <<~checkIssuerKind("authorization_request", rq.iss),        "InvalidClaimsError">>,
        <<~checkStructure("authorization_request", rq.sub, rq.iss), "InvalidClaimsError">>,
        <<KindOf[rq.userNkey] # "U",                                "InvalidClaimsError">>
    >>)

(* Mutant of decodeRequest: the signature is left to the box.              *)
DecodeUnverified(t) ==
    FirstFailure(<<
        <<~checkStructure("authorization_request", t.claims.sub, t.claims.iss),
                                                   "InvalidClaimsError">>
    >>)

(* decodeAuthorizationRequestClaims: authenticated, issued by a server,    *)
(* and nothing else: neither the nkey nor the server's id is looked at.    *)
decodeRequest(t) ==
    FirstFailure(<<
        <<~Verifies(t.claims.iss, t.claims, t.sig), "SignatureError">>,
        <<~checkStructure("authorization_request", t.claims.sub, t.claims.iss),
                                                    "InvalidClaimsError">>
    >>)

-----------------------------------------------------------------------------
(* Bodies on the wire: the token in the clear, or in a box from one curve  *)
(* key to another.  A box opens with the receiver's seed and the sender's  *)
(* public key, or not at all.                                              *)

Boxes(tokens, keys) == [form : {"box"}, from : keys, to : keys, token : tokens]
Plain(tokens) == [form : {"plain"}, token : tokens]

isSealedCalloutBody(body) == body.form = "box"

open(body, curveSeed, sender) == body.to = curveSeed /\ body.from = sender

Messages == [header : XKeys \cup {Empty},
             body : Plain(RequestTokens) \cup Boxes(RequestTokens, XKeys)]

(* Mutant of decodeSealedAuthorizationRequest: whoever the box is from.    *)
DecodeSealedUnmatched(m, curveSeed) ==
    FirstFailure(<<
        <<~open(m.body, curveSeed, m.header),         "DecryptionError">>,
        <<decodeRequest(m.body.token) # "ok",    decodeRequest(m.body.token)>>
    >>)

(* The header is on the outside; the claim is signed by the server.        *)
decodeSealedAuthorizationRequest(m, curveSeed) ==
    FirstFailure(<<
        <<~open(m.body, curveSeed, m.header),         "DecryptionError">>,
        <<decodeRequest(m.body.token) # "ok",    decodeRequest(m.body.token)>>,
        <<m.body.token.claims.xkey # m.header,   "InvalidClaimsError">>
    >>)

(* How the service reads a message: a box needs the header.                *)
readRequest(m, curveSeed) ==
    CASE ~isSealedCalloutBody(m.body)                    -> decodeRequest(m.body.token)
      [] isSealedCalloutBody(m.body) /\ m.header = Empty -> "runtime_error"
      [] OTHER                    -> decodeSealedAuthorizationRequest(m, curveSeed)

-----------------------------------------------------------------------------
(* AuthorizationResponseClaims.  The user JWT granted is for the same nkey *)
(* as the response, so that there is one is all it has to say here.        *)

ResponseClaims == [iss : Names, sub : Names, aud : Names, issuerAccount : Names,
                   jwt : BOOLEAN, error : BOOLEAN]

(* encodeWithSigner of the response: the rules nats-server has for it.     *)
encodeResponse(rs) ==
    FirstFailure(<<
        <<~checkIssuerKind("authorization_response", rs.iss),          "InvalidClaimsError">>,
        <<~checkStructure("authorization_response", rs.sub, rs.iss),   "InvalidClaimsError">>,
        <<KindOf[rs.sub] # "U",                                        "InvalidClaimsError">>,
        <<KindOf[rs.aud] # "N",                                        "InvalidClaimsError">>,
        <<rs.jwt = rs.error,                                           "InvalidClaimsError">>,
        <<KindOf[rs.issuerAccount] # "A",                              "InvalidClaimsError">>
    >>)

(* Addressed to this account, and a sentinel it issued and knows.  Every   *)
(* request asks with the one audience there is, so that it is the right    *)
(* one is no condition here.                                               *)
Admits(rq) == rq.sub = Account /\ rq.sentinel = "welcome"

(* Only a sentinel of a request to this account is decoded, and then it    *)
(* may throw.                                                              *)
DecisionFails(rq) == rq.sub = Account /\ rq.sentinel = "garbled"

calloutDecision(rq) ==
    [iss |-> SigningKey, sub |-> rq.userNkey, aud |-> rq.id, issuerAccount |-> Account,
     jwt |-> Admits(rq), error |-> ~Admits(rq)]

Answers == Plain(ResponseClaims) \cup
           [form : {"box"}, from : Names, to : Names, token : ResponseClaims]

ASSUME NothingAssumption == Nothing \notin Messages \cup ResponseClaims

-----------------------------------------------------------------------------
VARIABLES conn,      \* conn[c]: what the server has made of connection c
          requests,  \* the connections whose request is on the network
          answers,   \* every answer the service has published
          seed,      \* the curve key whose seed the service runs with
          pc,        \* what the service is about to do
          msg,       \* the message in its hands
          rs         \* the response it has decided on

vars == <<conn, requests, answers, seed, pc, msg, rs>>

Handler == <<pc, msg, rs>>

Init == /\ conn = [c \in Connections |-> "idle"]
        /\ requests = {}
        /\ answers = {}
        /\ seed \in {ServiceXKey, OtherXKey}
        /\ pc = "listening" /\ msg = Nothing /\ rs = Nothing

-----------------------------------------------------------------------------
(* The server.                                                             *)

(* It asks, or finds that it cannot even encode the question.              *)
Ask(c) ==
    /\ conn[c] = "idle"
    /\ IF encodeRequest(Request(c)) = "ok"
       THEN /\ conn' = [conn EXCEPT ![c] = "asking"]
            /\ requests' = requests \cup {c}
       ELSE /\ conn' = [conn EXCEPT ![c] = "refused"]
            /\ UNCHANGED requests
    /\ UNCHANGED <<answers, seed, Handler>>

(* Whether an answer is one to question c: it opens, it comes from the     *)
(* account (a box shows that by itself), and it is about this very nkey    *)
(* and server.                                                             *)
Fits(c, a) ==
    /\ IF a.form = "box" THEN open(a, Question[c].xkey, ServiceXKey)
                         ELSE a.token.issuerAccount = Question[c].account
    /\ a.token.sub = Question[c].nkey
    /\ a.token.aud = Question[c].id

(* The first answer decides; one that does not fit refuses.                *)
Take(c, a) ==
    /\ conn[c] = "asking"
    /\ conn' = [conn EXCEPT ![c] = IF Fits(c, a) /\ a.token.jwt /\ ~a.token.error
                                   THEN "admitted" ELSE "refused"]
    /\ UNCHANGED <<requests, answers, seed, Handler>>

(* It stops waiting.                                                       *)
Timeout(c) ==
    /\ conn[c] = "asking"
    /\ conn' = [conn EXCEPT ![c] = "refused"]
    /\ UNCHANGED <<requests, answers, seed, Handler>>

-----------------------------------------------------------------------------
(* The network: what may arrive at the service, from the requests sent.    *)

(* A request as it was signed, or mixed up with another client's payload.  *)
Circulating ==
    {[claims |-> [Request(c) EXCEPT !.sentinel = s], sig |-> [by |-> Question[c].key,
                                                              over |-> Request(c)]] :
        c \in requests, s \in {Question[d].sentinel : d \in Connections}}

(* Sealed for the service by anybody, under any header; the header of a    *)
(* body in the clear is never read.                                        *)
Deliverable ==
    [header : {Empty}, body : Plain(Circulating)] \cup
    [header : XKeys \cup {Empty},
     body : [form : {"box"}, from : XKeys, to : {ServiceXKey}, token : Circulating]]

-----------------------------------------------------------------------------
(* The service: one message at a time; whatever goes wrong with one is     *)
(* caught, logged and left unanswered.                                     *)

(* Mutant of Listen: the response is kept for the next message.            *)
ListenKeepingResponse == pc' = "listening" /\ msg' = Nothing /\ UNCHANGED rs

Listen == pc' = "listening" /\ msg' = Nothing /\ rs' = Nothing

(* Mutant of Caught: only this library's own errors are.                   *)
CaughtJwtErrors(error) ==
    IF error \in JwtErrors THEN Listen ELSE pc' = "dead" /\ UNCHANGED <<msg, rs>>

(* catch (const std::exception&)                                           *)
Caught(error) == Listen

Receive(m) ==
    /\ pc = "listening"
    /\ IF readRequest(m, seed) = "ok"
       THEN pc' = "received" /\ msg' = m /\ UNCHANGED rs
       ELSE Caught(readRequest(m, seed))
    /\ UNCHANGED <<conn, requests, answers, seed>>

Decide ==
    /\ pc = "received"
    /\ IF DecisionFails(msg.body.token.claims)
       THEN Caught("MalformedTokenError")
       ELSE pc' = "decided" /\ rs' = calloutDecision(msg.body.token.claims) /\ UNCHANGED msg
    /\ UNCHANGED <<conn, requests, answers, seed>>

(* The answer goes back the way the question came: sealed to the header's  *)
(* key, or in the clear.                                                   *)
Reply ==
    IF isSealedCalloutBody(msg.body)
    THEN [form |-> "box", from |-> seed, to |-> msg.header, token |-> rs]
    ELSE [form |-> "plain", token |-> rs]

Answer ==
    /\ pc = "decided"
    /\ IF encodeResponse(rs) = "ok"
       THEN answers' = answers \cup {Reply} /\ Listen
       ELSE UNCHANGED answers /\ Caught(encodeResponse(rs))
    /\ UNCHANGED <<conn, requests, seed>>

(* A crash loses what was in hand; whoever starts the service again        *)
(* chooses the seed.                                                       *)
Restart(x) ==
    /\ seed' = x
    /\ Listen
    /\ UNCHANGED <<conn, requests, answers>>

Next == \/ \E c \in Connections : Ask(c) \/ Timeout(c) \/ \E a \in answers : Take(c, a)
        \/ \E m \in Deliverable : Receive(m)
        \/ Decide
        \/ Answer
        \/ \E x \in {ServiceXKey, OtherXKey} : Restart(x)

Spec == Init /\ [][Next]_vars

(* A handler that has started is a sequence of calls that return.  Nothing *)
(* is assumed of the network, of servers and clients or of whoever         *)
(* restarts the service.                                                   *)
FairSpec == Spec /\ WF_vars(Decide) /\ WF_vars(Answer)

-----------------------------------------------------------------------------
ConnStates == {"idle", "asking", "admitted", "refused"}

TypeOK ==
    /\ conn \in [Connections -> ConnStates]
    /\ requests \subseteq Connections
    /\ answers \subseteq Answers
    /\ seed \in {ServiceXKey, OtherXKey}
    /\ pc \in {"listening", "received", "decided"}
    /\ msg \in Messages \cup {Nothing} /\ (msg = Nothing <=> pc = "listening")
    /\ rs \in ResponseClaims \cup {Nothing} /\ (rs = Nothing <=> pc # "decided")

(* The question a message in hand is about: as some server signed it, and  *)
(* from that server when it is in a box.                                   *)
Asked(m, c) == /\ m.body.token.claims = Request(c)
               /\ m.body.form = "box" => m.header = Question[c].xkey

MessageIsAQuestion == pc # "listening" => \E c \in requests : Asked(msg, c)

ResponseIsTheDecision == pc = "decided" => rs = calloutDecision(msg.body.token.claims)

AnswersAreDecisions ==
    \A a \in answers : \E c \in requests :
        /\ a.token = calloutDecision(Request(c))
        /\ a.form = "box" => a.to = Question[c].xkey

RequestsAreEncodable == \A c \in requests : encodeRequest(Request(c)) = "ok"

(* The inductive invariant: everything in the service's hands, and every   *)
(* answer on the network, goes back to one question a server really asked. *)
IInv == TypeOK /\ MessageIsAQuestion /\ ResponseIsTheDecision /\ AnswersAreDecisions
        /\ RequestsAreEncodable

(* SECURITY.md, Encrypted callout traffic: "a captured request cannot be   *)
(* re-sealed by a third party".  A sealed answer can only be opened by the *)
(* server it is addressed to, whoever sealed the request again on the way. *)
SealedForItsServer ==
    \A a \in answers : a.form = "box" =>
        \E c \in requests : /\ a.token.aud = Question[c].id
                            /\ a.token.sub = Question[c].nkey
                            /\ a.to = Question[c].xkey

(* Two validations that have to agree although they are far apart: what    *)
(* encode accepts as a request and decode reads, the service can answer.   *)
(* decode checks neither the nkey nor the server id, and no request        *)
(* encoder checks the latter, which therefore has to be a server key.      *)
ReadableIsAnswerable ==
    pc = "decided" /\ KindOf[msg.body.token.claims.id] = "N" => encodeResponse(rs) = "ok"

(* Which of the fitting answers comes first does not matter: one that is   *)
(* late, repeated, sealed again or made after a restart says to this very  *)
(* connection what the policy says of it, and grants or refuses, not both. *)
FittingAnswersAgree ==
    \A c \in Connections, a \in answers : Fits(c, a) =>
        /\ a.token.jwt <=> Admits(Request(c))
        /\ a.token.error <=> ~Admits(Request(c))

(* A connection is let in only if the policy admits this very client: not  *)
(* by an answer to another connection, an old one, one of another account, *)
(* or one made for a payload its server did not sign.                      *)
Policy == INSTANCE Admission WITH Admissible <- {c \in Connections : Admits(Request(c))}

ImplementsAdmission == Policy!Spec

(* cpp_driver.cpp: "no reply -> the server times out -> refused".  Whatever *)
(* message the service is handed, it comes back to listen for the next.    *)
ListensAgain == pc # "listening" ~> pc = "listening"

=============================================================================
