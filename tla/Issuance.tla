------------------------------ MODULE Issuance ------------------------------
(***************************************************************************)
(* What encoding promises, without saying how: tokens appear one at a      *)
(* time, never disappear, and each is genuine from the moment it exists:   *)
(* signed, over the very payload it carries, by the key it names, which is *)
(* a key of a kind that may issue that claim type, about a subject that    *)
(* may hold it, and dated by the clock of the moment.                      *)
(***************************************************************************)
EXTENDS Tokens

VARIABLES now,     \* the wall clock, in seconds
          minted   \* every token handed to a caller so far

avars == <<now, minted>>

(* A payload whose claims stand on their own.                              *)
WellFormed(p) == /\ checkStructure(p.type, p.sub, p.iss)
                 /\ checkIssuerKind(p.type, p.iss)

(* A token made of payload p and signature s that any decoder can verify.  *)
Genuine(m) == /\ WellFormed(m.payload)
              /\ Verifies(m.payload.iss, m.payload, m.sig)

Init == now = 0 /\ minted = {}

Tick == /\ now' = now + 1
        /\ UNCHANGED minted

Issue(m) == /\ Genuine(m)
            /\ m.payload.iat <= now
            /\ minted' = minted \cup {m}
            /\ UNCHANGED now

Next == Tick \/ \E m \in minted' : Issue(m)

Spec == Init /\ [][Next]_avars

=============================================================================
