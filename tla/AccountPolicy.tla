---------------------------- MODULE AccountPolicy ----------------------------
(***************************************************************************)
(* What re-signing an account owes its owner.  A policy is what a server   *)
(* makes of an account's token; each administrator has a draft of it.  An  *)
(* edit touches one aspect, publishing and loading copy the policy whole:  *)
(* no restriction is lost and no removed setting comes back on the way     *)
(* through JSON.                                                           *)
(***************************************************************************)
CONSTANTS Admins, Times, Absent, Refused(_, _, _),
          New  \* the policy of a draft just begun

VARIABLES published,  \* no policy yet, or the set of the one in force
          draft

vars == <<published, draft>>

(* The edit of one aspect f leaves every other aspect of the draft alone.  *)
OnlyAspect(a, f) ==
    /\ DOMAIN draft'[a] = DOMAIN draft[a]
    /\ \A g \in DOMAIN draft[a] \ {f} : draft'[a][g] = draft[a][g]
    /\ \A b \in Admins \ {a} : draft'[b] = draft[b]
    /\ published' = published

(* Settings are free to change, ...                                        *)
Configure(a) == \E f \in DOMAIN draft[a] \ {"signers", "revocations", "extra"} : OnlyAspect(a, f)

(* ... signing keys are never dropped nor freed of their scope, ...        *)
Entrust(a) ==
    /\ OnlyAspect(a, "signers")
    /\ draft[a].signers.listed \subseteq draft'[a].signers.listed
    /\ \A k \in DOMAIN draft[a].signers.template :
           draft[a].signers.template[k] # Absent => draft'[a].signers.template[k] # Absent

(* ... a token that is refused stays refused ...                           *)
Revoke(a) ==
    /\ OnlyAspect(a, "revocations")
    /\ \A u \in DOMAIN draft[a].revocations, t \in Times :
           Refused(draft[a].revocations, u, t) => Refused(draft'[a].revocations, u, t)

(* ... until its entry is cleared.                                         *)
Clear(a) == /\ OnlyAspect(a, "revocations")
            /\ \E k \in DOMAIN draft[a].revocations :
                   draft'[a].revocations = [draft[a].revocations EXCEPT ![k] = Absent]

Publish(a) == published' = {draft[a]} /\ draft' = draft

Load(a) == /\ \E policy \in published : draft' = [draft EXCEPT ![a] = policy]
           /\ published' = published

(* A draft begun afresh carries nothing over from the one it replaces.     *)
Begin(a) == draft' = [draft EXCEPT ![a] = New] /\ published' = published

Next == \E a \in Admins : \/ Configure(a) \/ Entrust(a) \/ Revoke(a) \/ Clear(a)
                          \/ Publish(a) \/ Load(a) \/ Begin(a)

Init == draft = [a \in Admins |-> New]

Spec == Init /\ [][Next]_vars
==============================================================================
