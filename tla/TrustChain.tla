----------------------------- MODULE TrustChain ------------------------------
(***************************************************************************)
(* What validateChain promises, as one question and one answer.  The       *)
(* question is a chain, options and the time it was asked; the answer is   *)
(* given at some later time.  An accepted chain passes every check at some *)
(* moment in between (each token at a moment of its own: the clock is read *)
(* token by token); a refused one fails some check at such a moment.       *)
(***************************************************************************)
EXTENDS TrustLinks

VARIABLES now, question, answer

tvars == <<now, question, answer>>

(* Token c alone passes at time t.  Only a negative tolerance can carry    *)
(* nbf beyond 64 bits, and nothing is promised then.                       *)
Passes(c, opts, t) ==
    /\ c.decodes /\ c.sound
    /\ opts.checkSignature => c.verifies
    /\ opts.checkNotBefore /\ c.nbf > 0 /\ c.nbf - opts.clockSkewSeconds <= MaxInt =>
           c.nbf <= t + opts.clockSkewSeconds
    /\ opts.checkExpiration /\ c.exp > 0 => t - opts.clockSkewSeconds <= c.exp

(* A token whose times the tolerance carries beyond 64 bits may be refused *)
(* whatever the clock says.                                                *)
Overflows(c, opts) ==
    \/ opts.checkNotBefore /\ c.nbf > 0 /\ c.nbf - opts.clockSkewSeconds > MaxInt
    \/ opts.checkExpiration /\ c.exp > 0 /\ c.exp + opts.clockSkewSeconds > MaxInt

(* The kinds of key that may stand above one another.                      *)
Above == {<<"O", "O">>, <<"O", "A">>, <<"A", "U">>}

(* The parent is answerable for the child: it or one of its keys signed    *)
(* it, at a level above, and for nobody else.                              *)
Vouched(child, parent) ==
    /\ child.iss \in {parent.sub} \cup signingKeys(parent)
    /\ <<Prefix[child.iss], Prefix[child.sub]>> \in Above
    /\ Prefix[parent.sub] = Prefix[child.iss]
    /\ Prefix[child.sub] = "O" => child.sub = parent.sub
    /\ child.type \in {"user", "authorization_response"} =>
           child.issuerAccount \in {None, parent.sub}
    /\ child.type = "user" /\ parent.type = "account" /\ child.permissions =>
           child.iss \notin parent.scoped

Linked(q) == q.opts.checkIssuerChain =>
                 \A i \in 2..Len(q.chain) : Vouched(q.chain[i], q.chain[i - 1])

Init == now = 0 /\ answer = "none"

Tick == /\ now' = now + 1
        /\ UNCHANGED <<question, answer>>

Ask == /\ answer = "none"
       /\ answer' = "pending"
       /\ question'.since = now
       /\ UNCHANGED now

Accept == LET q == question
          IN  /\ answer = "pending"
              /\ q.chain # <<>>
              /\ \A i \in DOMAIN q.chain :
                     \E t \in q.since..now : Passes(q.chain[i], q.opts, t)
              /\ Linked(q)
              /\ answer' = "valid"
              /\ UNCHANGED <<now, question>>

Refuse == LET q == question
          IN  /\ answer = "pending"
              /\ \/ q.chain = <<>>
                 \/ \E i \in DOMAIN q.chain :
                        \E t \in q.since..now : ~Passes(q.chain[i], q.opts, t)
                 \/ \E i \in DOMAIN q.chain : Overflows(q.chain[i], q.opts)
                 \/ ~Linked(q)
              /\ answer' = "invalid"
              /\ UNCHANGED <<now, question>>

Forget == /\ answer \in {"valid", "invalid"}
          /\ answer' = "none"
          /\ UNCHANGED now

Next == Tick \/ Ask \/ Accept \/ Refuse \/ Forget

Spec == Init /\ [][Next]_tvars

=============================================================================
