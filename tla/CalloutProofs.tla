---------------------------- MODULE CalloutProofs ---------------------------
(***************************************************************************)
(* Proofs about AuthCallout for any servers, clients, keys and messages:   *)
(* whatever the network delivers, everything the service holds or has      *)
(* published goes back to a question some server asked, and the exchange   *)
(* implements Admission.                                                   *)
(***************************************************************************)
EXTENDS AuthCallout, TokenProofs

(* What a server asks is well typed.                                       *)
LEMMA RequestType ==
    ASSUME NEW c \in Connections
    PROVE  Request(c) \in RequestClaims /\ Question[c] \in Questions
BY CalloutAssumption DEF Request, Questions, RequestClaims

(* decode() of a request has established that its issuer signed it.        *)
LEMMA DecodedRequest ==
    ASSUME NEW t
    PROVE  decodeRequest(t) = "ok" <=>
               /\ Verifies(t.claims.iss, t.claims, t.sig)
               /\ checkStructure("authorization_request", t.claims.sub, t.claims.iss)
<1> DEFINE unsigned == ~Verifies(t.claims.iss, t.claims, t.sig)
           misnamed == ~checkStructure("authorization_request", t.claims.sub, t.claims.iss)
<1>1. decodeRequest(t) = FirstFailure(<<<<unsigned, "SignatureError">>,
                                         <<misnamed, "InvalidClaimsError">>>>)
  BY DEF decodeRequest
<1>2. unsigned \in BOOLEAN /\ misnamed \in BOOLEAN
  OBVIOUS
<1> HIDE DEF unsigned, misnamed
<1>3. decodeRequest(t) = "ok" <=> ~unsigned /\ ~misnamed
  BY <1>1, <1>2, TwoChecks
<1> QED
  BY <1>3 DEF unsigned, misnamed

(* A request that encode lets out names a server as its issuer and a user  *)
(* key.                                                                    *)
LEMMA EncodedRequest ==
    ASSUME NEW rq, encodeRequest(rq) = "ok"
    PROVE  KindOf[rq.userNkey] = "U"
<1> DEFINE issuer    == ~checkIssuerKind("authorization_request", rq.iss)
           structure == ~checkStructure("authorization_request", rq.sub, rq.iss)
           nkey      == KindOf[rq.userNkey] # "U"
<1>1. encodeRequest(rq) = FirstFailure(<<<<issuer,    "InvalidClaimsError">>,
                                         <<structure, "InvalidClaimsError">>,
                                         <<nkey,      "InvalidClaimsError">>>>)
  BY DEF encodeRequest
<1>2. issuer \in BOOLEAN /\ structure \in BOOLEAN /\ nkey \in BOOLEAN
  OBVIOUS
<1> HIDE DEF issuer, structure, nkey
<1>3. ~nkey
  BY <1>1, <1>2, ThreeChecks
<1> QED
  BY <1>3 DEF nkey

(* A message the service can read holds a request its issuer signed, and a *)
(* box comes from the curve key that the request names.                    *)
LEMMA ReadMessage ==
    ASSUME NEW m, NEW x, readRequest(m, x) = "ok"
    PROVE  /\ Verifies(m.body.token.claims.iss, m.body.token.claims, m.body.token.sig)
           /\ m.body.form = "box" => m.header # Empty /\ m.header = m.body.token.claims.xkey
<1>1. CASE m.body.form = "box"
  <2>1. /\ m.header # Empty
        /\ decodeSealedAuthorizationRequest(m, x) = "ok"
    BY <1>1 DEF readRequest, isSealedCalloutBody
  <2>2. /\ decodeRequest(m.body.token) = "ok"
        /\ m.body.token.claims.xkey = m.header
    <3> DEFINE shut      == ~open(m.body, x, m.header)
               decoded   == decodeRequest(m.body.token)
               unread    == decoded # "ok"
               unmatched == m.body.token.claims.xkey # m.header
    <3>1. decodeSealedAuthorizationRequest(m, x) =
              FirstFailure(<<<<shut, "DecryptionError">>, <<unread, decoded>>,
                             <<unmatched, "InvalidClaimsError">>>>)
      BY DEF decodeSealedAuthorizationRequest
    <3>2. shut \in BOOLEAN /\ unread \in BOOLEAN /\ unmatched \in BOOLEAN
      OBVIOUS
    <3>3. unread <=> decoded # "ok"
      OBVIOUS
    <3> HIDE DEF shut, decoded, unread, unmatched
    <3>4. ~unread /\ ~unmatched
      BY <2>1, <3>1, <3>2, <3>3, ThreeChecks
    <3> QED
      BY <3>3, <3>4 DEF decoded, unmatched
  <2> QED
    BY <2>1, <2>2, DecodedRequest
<1>2. CASE m.body.form # "box"
  <2>1. decodeRequest(m.body.token) = "ok"
    BY <1>2 DEF readRequest, isSealedCalloutBody
  <2> QED
    BY <1>2, <2>1, DecodedRequest
<1> QED
  BY <1>1, <1>2

(* Whatever the network makes of the requests, what the service reads is   *)
(* one of them, unchanged.                                                 *)
LEMMA ReadIsAsked ==
    ASSUME requests \subseteq Connections, NEW m \in Deliverable, NEW x,
           readRequest(m, x) = "ok"
    PROVE  m \in Messages /\ \E c \in requests : Asked(m, c)
<1>1. PICK c \in requests, s \in Sentinels :
          m.body.token = [claims |-> [Request(c) EXCEPT !.sentinel = s],
                          sig |-> [by |-> Question[c].key, over |-> Request(c)]]
  <2>1. m.body.token \in Circulating
    BY DEF Deliverable, Plain
  <2>2. \A d \in Connections : Question[d].sentinel \in Sentinels
    BY CalloutAssumption DEF Questions
  <2> QED
    BY <2>1, <2>2 DEF Circulating
<1>2. c \in Connections /\ Request(c) \in RequestClaims /\ Question[c].key \in Names
  BY <1>1, RequestType DEF Questions
<1>3. m.body.token.claims \in RequestClaims
  BY <1>1, <1>2 DEF RequestClaims
<1>4. m.body.token.claims = Request(c)
  BY <1>1, <1>2, ReadMessage DEF Verifies
<1>5. m.body.token \in RequestTokens
  BY <1>1, <1>2, <1>3 DEF RequestTokens
<1>6. m \in Messages
  BY <1>5 DEF Deliverable, Messages, Plain, Boxes, XKeys
<1>7. Asked(m, c)
  BY <1>4, ReadMessage DEF Asked, Request
<1> QED
  BY <1>1, <1>6, <1>7

(* The service decides on a typed response.                                *)
LEMMA DecisionType ==
    ASSUME NEW rq \in RequestClaims
    PROVE  calloutDecision(rq) \in ResponseClaims
BY CalloutAssumption DEF calloutDecision, ResponseClaims, RequestClaims, Admits

-----------------------------------------------------------------------------
(* What the service publishes is the decision on a question, sealed, if it *)
(* is, to the curve key of the server that asked.                          *)
LEMMA ReplyIsDecision ==
    ASSUME IInv, pc = "decided"
    PROVE  /\ Reply \in Answers
           /\ \E c \in requests : /\ Reply.token = calloutDecision(Request(c))
                                  /\ Reply.form = "box" => Reply.to = Question[c].xkey
<1>1. PICK c \in requests : Asked(msg, c)
  BY DEF IInv, MessageIsAQuestion
<1>2. c \in Connections /\ Question[c].xkey \in Names
  BY <1>1, RequestType DEF IInv, TypeOK, Questions
<1>3. rs = calloutDecision(Request(c)) /\ rs \in ResponseClaims
  BY <1>1, <1>2, RequestType, DecisionType DEF IInv, ResponseIsTheDecision, Asked
<1>4. seed \in Names
  BY CalloutAssumption DEF IInv, TypeOK
<1>5. CASE isSealedCalloutBody(msg.body)
  <2>1. Reply = [form |-> "box", from |-> seed, to |-> Question[c].xkey, token |-> rs]
    BY <1>1, <1>5 DEF Reply, Asked, isSealedCalloutBody
  <2> QED
    BY <2>1, <1>1, <1>2, <1>3, <1>4 DEF Answers
<1>6. CASE ~isSealedCalloutBody(msg.body)
  <2>1. Reply = [form |-> "plain", token |-> rs]
    BY <1>6 DEF Reply
  <2> QED
    BY <2>1, <1>1, <1>3 DEF Answers, Plain
<1> QED
  BY <1>5, <1>6

-----------------------------------------------------------------------------
(* The state a callout starts in.                                          *)
LEMMA InitIInv == Init => IInv
BY CalloutAssumption, NothingAssumption
   DEF Init, IInv, TypeOK, ConnStates, MessageIsAQuestion, ResponseIsTheDecision,
       AnswersAreDecisions, RequestsAreEncodable

(* Steps of the server leave the service's hands alone; requests only grow.*)
LEMMA ServerStep ==
    ASSUME IInv, UNCHANGED <<answers, seed, Handler>>, requests \subseteq requests',
           requests' \subseteq Connections, conn' \in [Connections -> ConnStates],
           \A c \in requests' : encodeRequest(Request(c)) = "ok"
    PROVE  IInv'
<1>1. TypeOK'
  BY DEF IInv, TypeOK, Handler
<1>2. MessageIsAQuestion' /\ ResponseIsTheDecision'
  BY DEF IInv, MessageIsAQuestion, ResponseIsTheDecision, Handler, Asked
<1>3. AnswersAreDecisions'
  BY DEF IInv, AnswersAreDecisions
<1>4. RequestsAreEncodable'
  BY DEF RequestsAreEncodable
<1> QED
  BY <1>1, <1>2, <1>3, <1>4 DEF IInv

(* A service that listens has nothing in its hands.                        *)
LEMMA ListenStep ==
    ASSUME IInv, Listen, UNCHANGED <<conn, requests, answers>>,
           seed' \in {ServiceXKey, OtherXKey}
    PROVE  IInv'
<1>1. TypeOK'
  BY NothingAssumption DEF IInv, TypeOK, Listen
<1>2. MessageIsAQuestion' /\ ResponseIsTheDecision'
  BY DEF Listen, MessageIsAQuestion, ResponseIsTheDecision
<1>3. AnswersAreDecisions' /\ RequestsAreEncodable'
  BY DEF IInv, AnswersAreDecisions, RequestsAreEncodable
<1> QED
  BY <1>1, <1>2, <1>3 DEF IInv

(* One case per action.                                                    *)
LEMMA InvariantStep == IInv /\ [Next]_vars => IInv'
<1> SUFFICES ASSUME IInv, [Next]_vars PROVE IInv'
  OBVIOUS
<1>1. ASSUME NEW c \in Connections, Ask(c) PROVE IInv'
  <2>1. conn' \in [Connections -> ConnStates] /\ requests' \subseteq Connections
    BY <1>1 DEF Ask, IInv, TypeOK, ConnStates
  <2>2. requests \subseteq requests' /\ UNCHANGED <<answers, seed, Handler>>
    BY <1>1 DEF Ask
  <2>3. \A d \in requests' : encodeRequest(Request(d)) = "ok"
    BY <1>1 DEF Ask, IInv, RequestsAreEncodable
  <2> QED
    BY <2>1, <2>2, <2>3, ServerStep
<1>2. ASSUME NEW c \in Connections, Timeout(c) \/ \E a \in answers : Take(c, a) PROVE IInv'
  <2>1. conn' \in [Connections -> ConnStates] /\ UNCHANGED <<requests, answers, seed, Handler>>
    BY <1>2 DEF Timeout, Take, IInv, TypeOK, ConnStates
  <2>2. /\ requests' \subseteq Connections
        /\ \A d \in requests' : encodeRequest(Request(d)) = "ok"
    BY <2>1 DEF IInv, TypeOK, RequestsAreEncodable
  <2> QED
    BY <2>1, <2>2, ServerStep
<1>3. ASSUME NEW m \in Deliverable, Receive(m) PROVE IInv'
  <2>1. CASE readRequest(m, seed) # "ok"
    BY <1>3, <2>1, ListenStep DEF Receive, Caught, IInv, TypeOK
  <2>2. CASE readRequest(m, seed) = "ok"
    <3>1. m \in Messages /\ \E c \in requests : Asked(m, c)
      BY <2>2, ReadIsAsked DEF IInv, TypeOK
    <3>2. pc = "listening" /\ pc' = "received" /\ msg' = m /\ UNCHANGED rs
      BY <1>3, <2>2 DEF Receive
    <3>3. UNCHANGED <<conn, requests, answers, seed>>
      BY <1>3 DEF Receive
    <3>4. TypeOK'
      BY <3>1, <3>2, <3>3, NothingAssumption DEF IInv, TypeOK
    <3>5. MessageIsAQuestion' /\ ResponseIsTheDecision'
      BY <3>1, <3>2, <3>3 DEF MessageIsAQuestion, ResponseIsTheDecision
    <3>6. AnswersAreDecisions' /\ RequestsAreEncodable'
      BY <3>3 DEF IInv, AnswersAreDecisions, RequestsAreEncodable
    <3> QED
      BY <3>4, <3>5, <3>6 DEF IInv
  <2> QED
    BY <2>1, <2>2
<1>4. ASSUME Decide PROVE IInv'
  <2>0. UNCHANGED <<conn, requests, answers, seed>> /\ pc = "received"
    BY <1>4 DEF Decide
  <2>1. CASE DecisionFails(msg.body.token.claims)
    BY <1>4, <2>0, <2>1, ListenStep DEF Decide, Caught, IInv, TypeOK
  <2>2. CASE ~DecisionFails(msg.body.token.claims)
    <3>1. /\ pc' = "decided" /\ UNCHANGED msg
          /\ rs' = calloutDecision(msg.body.token.claims)
      BY <1>4, <2>2 DEF Decide
    <3>2. PICK c \in requests : Asked(msg, c)
      BY <2>0 DEF IInv, MessageIsAQuestion
    <3>3. rs' \in ResponseClaims
      BY <3>1, <3>2, RequestType, DecisionType DEF Asked, IInv, TypeOK
    <3>4. TypeOK'
      BY <2>0, <3>1, <3>3, NothingAssumption DEF IInv, TypeOK
    <3>5. MessageIsAQuestion' /\ ResponseIsTheDecision'
      BY <2>0, <3>1, <3>2 DEF MessageIsAQuestion, ResponseIsTheDecision
    <3>6. AnswersAreDecisions' /\ RequestsAreEncodable'
      BY <2>0 DEF IInv, AnswersAreDecisions, RequestsAreEncodable
    <3> QED
      BY <3>4, <3>5, <3>6 DEF IInv
  <2> QED
    BY <2>1, <2>2
<1>5. ASSUME Answer PROVE IInv'
  <2>0. UNCHANGED <<conn, requests, seed>> /\ pc = "decided" /\ Listen
    BY <1>5 DEF Answer, Caught
  <2>1. CASE UNCHANGED answers
    BY <2>0, <2>1, ListenStep DEF IInv, TypeOK
  <2>2. CASE answers' = answers \cup {Reply}
    <3>1. TypeOK'
      BY <2>0, <2>2, ReplyIsDecision, NothingAssumption DEF IInv, TypeOK, Listen
    <3>2. MessageIsAQuestion' /\ ResponseIsTheDecision'
      BY <2>0 DEF Listen, MessageIsAQuestion, ResponseIsTheDecision
    <3>3. AnswersAreDecisions'
      BY <2>0, <2>2, ReplyIsDecision DEF IInv, AnswersAreDecisions
    <3>4. RequestsAreEncodable'
      BY <2>0 DEF IInv, RequestsAreEncodable
    <3> QED
      BY <3>1, <3>2, <3>3, <3>4 DEF IInv
  <2> QED
    BY <1>5, <2>1, <2>2 DEF Answer
<1>6. ASSUME NEW x \in {ServiceXKey, OtherXKey}, Restart(x) PROVE IInv'
  BY <1>6, ListenStep DEF Restart
<1>7. CASE UNCHANGED vars
  BY <1>7 DEF vars, Handler, IInv, TypeOK, MessageIsAQuestion, ResponseIsTheDecision,
              AnswersAreDecisions, RequestsAreEncodable, Asked
<1> QED
  BY <1>1, <1>2, <1>3, <1>4, <1>5, <1>6, <1>7 DEF Next

(* Every reachable state of the callout satisfies the inductive invariant: *)
(* nothing the network does puts anything into the service's hands, or     *)
(* among its answers, that no server asked for.                            *)
THEOREM CalloutInvariant == Spec => []IInv
<1> QED
  BY InitIInv, InvariantStep, PTL DEF Spec

(* Every reachable state of the callout has its type.                      *)
THEOREM TypeCorrect == Spec => []TypeOK
<1>1. IInv => TypeOK
  BY DEF IInv
<1> QED
  BY <1>1, CalloutInvariant, PTL

-----------------------------------------------------------------------------
(* A sealed answer can only be opened by the server it is addressed to.    *)
THEOREM AnswersStaySealed == Spec => []SealedForItsServer
<1>1. IInv => SealedForItsServer
  <2> SUFFICES ASSUME IInv, NEW a \in answers, a.form = "box"
               PROVE  \E c \in requests : /\ a.token.aud = Question[c].id
                                         /\ a.token.sub = Question[c].nkey
                                         /\ a.to = Question[c].xkey
    BY DEF SealedForItsServer
  <2>1. PICK c \in requests : a.token = calloutDecision(Request(c)) /\ a.to = Question[c].xkey
    BY DEF IInv, AnswersAreDecisions
  <2> QED
    BY <2>1 DEF calloutDecision, Request
<1> QED
  BY <1>1, CalloutInvariant, PTL

(* What encode lets out as a request and decode reads, the service can     *)
(* answer, provided the server gave its key as its id.                     *)
THEOREM RequestsAreAnswerable == Spec => []ReadableIsAnswerable
<1>1. IInv => ReadableIsAnswerable
  <2> SUFFICES ASSUME IInv, pc = "decided", KindOf[msg.body.token.claims.id] = "N"
               PROVE  encodeResponse(rs) = "ok"
    BY DEF ReadableIsAnswerable
  <2>1. PICK c \in requests : Asked(msg, c)
    BY DEF IInv, MessageIsAQuestion
  <2>r. rs = calloutDecision(Request(c)) /\ KindOf[Request(c).id] = "N"
    BY <2>1 DEF IInv, ResponseIsTheDecision, Asked
  <2>2. /\ rs.iss = SigningKey /\ rs.issuerAccount = Account
        /\ rs.sub = Request(c).userNkey /\ KindOf[rs.aud] = "N"
        /\ rs.jwt # rs.error
    BY <2>r DEF calloutDecision, Admits
  <2>3. KindOf[rs.sub] = "U"
    BY <2>1, <2>2, EncodedRequest DEF IInv, RequestsAreEncodable
  <2>4. checkIssuerKind("authorization_response", rs.iss)
    BY <2>2, CalloutAssumption DEF checkIssuerKind, IssuerKinds
  <2>5. checkStructure("authorization_response", rs.sub, rs.iss)
    BY <2>3, <2>4, NamesAssumption DEF checkStructure, checkSubjectKind, SubjectKinds, KeyKinds
  <2> DEFINE issuer    == ~checkIssuerKind("authorization_response", rs.iss)
             structure == ~checkStructure("authorization_response", rs.sub, rs.iss)
             subject   == KindOf[rs.sub] # "U"
             audience  == KindOf[rs.aud] # "N"
             both      == rs.jwt = rs.error
             account   == KindOf[rs.issuerAccount] # "A"
  <2>6. encodeResponse(rs) = FirstFailure(<<
            <<issuer,    "InvalidClaimsError">>, <<structure, "InvalidClaimsError">>,
            <<subject,   "InvalidClaimsError">>, <<audience,  "InvalidClaimsError">>,
            <<both,      "InvalidClaimsError">>, <<account,   "InvalidClaimsError">>>>)
    BY DEF encodeResponse
  <2>7. ~issuer /\ ~structure /\ ~subject /\ ~audience /\ ~both /\ ~account
    BY <2>2, <2>3, <2>4, <2>5, CalloutAssumption
  <2>8. /\ issuer \in BOOLEAN /\ structure \in BOOLEAN /\ subject \in BOOLEAN
        /\ audience \in BOOLEAN /\ both \in BOOLEAN /\ account \in BOOLEAN
    OBVIOUS
  <2> HIDE DEF issuer, structure, subject, audience, both, account
  <2> QED
    BY <2>6, <2>7, <2>8, SixChecks
<1> QED
  BY <1>1, CalloutInvariant, PTL

(* An answer that fits a connection is the decision on its own question:   *)
(* no two connections share a nkey.                                        *)
LEMMA FittingAnswer ==
    ASSUME IInv, NEW c \in Connections, NEW a \in answers, Fits(c, a)
    PROVE  a.token = calloutDecision(Request(c))
<1>1. PICK d \in requests : a.token = calloutDecision(Request(d))
  BY DEF IInv, AnswersAreDecisions
<1>2. d \in Connections /\ Question[d].nkey = Question[c].nkey
  BY <1>1 DEF Fits, calloutDecision, Request, IInv, TypeOK
<1>3. d = c
  BY <1>2, NkeyAssumption
<1> QED
  BY <1>1, <1>3

(* A decision grants exactly what the policy admits, and refuses the rest. *)
LEMMA DecisionSays ==
    ASSUME NEW rq
    PROVE  /\ calloutDecision(rq).jwt <=> Admits(rq)
           /\ calloutDecision(rq).error <=> ~Admits(rq)
<1> DEFINE admits  == Admits(rq)
           refuses == ~Admits(rq)
<1>1. calloutDecision(rq) =
          [iss |-> SigningKey, sub |-> rq.userNkey, aud |-> rq.id, issuerAccount |-> Account,
           jwt |-> admits, error |-> refuses]
  BY DEF calloutDecision
<1>2. admits \in BOOLEAN /\ refuses \in BOOLEAN /\ (refuses <=> ~admits)
  BY DEF Admits
<1> HIDE DEF admits, refuses
<1>3. calloutDecision(rq).jwt = admits /\ calloutDecision(rq).error = refuses
  BY <1>1
<1>4. (calloutDecision(rq).jwt <=> admits) /\ (calloutDecision(rq).error <=> ~admits)
  BY <1>2, <1>3
<1> QED
  BY <1>4 DEF admits

(* So whichever fitting answer a server takes, however late and whatever   *)
(* happened to the service in between, it decides as the policy does.      *)
THEOREM FittingAnswersDecideAlike == Spec => []FittingAnswersAgree
<1>1. IInv => FittingAnswersAgree
  <2> SUFFICES ASSUME IInv, NEW c \in Connections, NEW a \in answers, Fits(c, a)
               PROVE  /\ a.token.jwt <=> Admits(Request(c))
                      /\ a.token.error <=> ~Admits(Request(c))
    BY DEF FittingAnswersAgree
  <2>1. a.token = calloutDecision(Request(c))
    BY FittingAnswer
  <2> QED
    BY <2>1, DecisionSays
<1> QED
  BY <1>1, CalloutInvariant, PTL

(* The callout, its lossy network and its crashing service implement the   *)
(* admission of exactly the clients the policy admits, each at most once.  *)
THEOREM CalloutImplementsAdmission == Spec => ImplementsAdmission
<1>1. Init => Policy!Init
  BY DEF Init, Policy!Init
<1>2. IInv /\ [Next]_vars => [Policy!Next]_conn
  <2> SUFFICES ASSUME IInv, [Next]_vars PROVE [Policy!Next]_conn
    OBVIOUS
  <2>0. conn \in [Connections -> ConnStates]
    BY DEF IInv, TypeOK
  <2>1. ASSUME NEW c \in Connections, Ask(c) PROVE Policy!Ask(c) \/ Policy!Refuse(c)
    BY <2>1 DEF Ask, Policy!Ask, Policy!Refuse
  <2>2. ASSUME NEW c \in Connections, Timeout(c) PROVE Policy!Refuse(c)
    BY <2>2 DEF Timeout, Policy!Refuse
  <2>3. ASSUME NEW c \in Connections, NEW a \in answers, Take(c, a)
        PROVE  Policy!Admit(c) \/ Policy!Refuse(c)
    <3>1. CASE Fits(c, a) /\ a.token.jwt /\ ~a.token.error
      <4>1. Admits(Request(c))
        BY <3>1, FittingAnswer, DecisionSays
      <4> QED
        BY <2>3, <3>1, <4>1 DEF Take, Policy!Admit
    <3>2. CASE ~(Fits(c, a) /\ a.token.jwt /\ ~a.token.error)
      BY <2>3, <3>2 DEF Take, Policy!Refuse
    <3> QED
      BY <3>1, <3>2
  <2>4. ASSUME \/ \E m \in Deliverable : Receive(m)
               \/ Decide \/ Answer
               \/ \E x \in {ServiceXKey, OtherXKey} : Restart(x)
               \/ UNCHANGED vars
        PROVE  UNCHANGED conn
    BY <2>4 DEF Receive, Decide, Answer, Restart, vars
  <2> QED
    BY <2>1, <2>2, <2>3, <2>4 DEF Next, Policy!Next
<1> QED
  BY <1>1, <1>2, CalloutInvariant, PTL DEF Spec, ImplementsAdmission, Policy!Spec

(* What that comes to for a client: one whom the policy of the account     *)
(* does not admit is never let in, whatever is lost, repeated, resealed or *)
(* answered late (cpp_driver.cpp, calloutDecision), ...                    *)
THEOREM OnlyAdmissibleGetIn ==
    Spec => [](\A c \in Connections : conn[c] = "admitted" => Admits(Request(c)))
<1> DEFINE Inv == /\ conn \in [Connections -> ConnStates]
                  /\ \A c \in Connections : conn[c] = "admitted" => Admits(Request(c))
<1>1. Policy!Init => Inv
  BY DEF Policy!Init, ConnStates
<1>2. Inv /\ [Policy!Next]_conn => Inv'
  <2> SUFFICES ASSUME Inv, [Policy!Next]_conn PROVE Inv'
    OBVIOUS
  <2>1. ASSUME NEW c \in Connections, Policy!Ask(c) \/ Policy!Refuse(c) PROVE Inv'
    BY <2>1 DEF Policy!Ask, Policy!Refuse, ConnStates, Request
  <2>2. ASSUME NEW c \in Connections, Policy!Admit(c) PROVE Inv'
    BY <2>2 DEF Policy!Admit, ConnStates, Request
  <2>3. CASE UNCHANGED conn
    BY <2>3 DEF Request
  <2> QED
    BY <2>1, <2>2, <2>3 DEF Policy!Next
<1>3. Inv => \A c \in Connections : conn[c] = "admitted" => Admits(Request(c))
  OBVIOUS
<1> HIDE DEF Inv
<1> QED
  BY <1>1, <1>2, <1>3, CalloutImplementsAdmission, PTL DEF ImplementsAdmission, Policy!Spec

(* ... and a decision is final: a late or second answer changes nothing.   *)
THEOREM DecisionsAreFinal ==
    Spec => [][\A c \in Connections :
                   conn[c] \in {"admitted", "refused"} => conn'[c] = conn[c]]_vars
<1>1. TypeOK /\ [Next]_vars /\ [Policy!Next]_conn =>
          [\A c \in Connections :
               conn[c] \in {"admitted", "refused"} => conn'[c] = conn[c]]_vars
  <2> SUFFICES ASSUME TypeOK, [Policy!Next]_conn, NEW c \in Connections,
                      conn[c] \in {"admitted", "refused"}
               PROVE  conn'[c] = conn[c]
    OBVIOUS
  <2>1. conn \in [Connections -> ConnStates]
    BY DEF TypeOK
  <2>2. ASSUME NEW d \in Connections, Policy!Ask(d) \/ Policy!Admit(d) \/ Policy!Refuse(d)
        PROVE  conn'[c] = conn[c]
    BY <2>1, <2>2 DEF Policy!Ask, Policy!Admit, Policy!Refuse
  <2> QED
    BY <2>2 DEF Policy!Next
<1> QED
  BY <1>1, TypeCorrect, CalloutImplementsAdmission, PTL
     DEF Spec, ImplementsAdmission, Policy!Spec

=============================================================================
