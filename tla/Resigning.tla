------------------------------ MODULE Resigning ------------------------------
(***************************************************************************)
(* What setters, decode and encode owe whoever keeps claims: a draft of    *)
(* what a token shall mean, aspect by aspect, and the meaning of the token *)
(* that is out.  An edit touches what it is named for, publishing and      *)
(* loading copy the meaning whole, and what the library has no field for   *)
(* is carried along.                                                       *)
(***************************************************************************)
CONSTANTS Permissions, Limits,   \* the aspects that a scope replaces; the limits among them
          Denied(_), Unlimited(_),
          Issued                   \* the aspects that whoever issues a user in one go chooses

VARIABLES settings,   \* the aspects that there are setters for
          fresh,      \* the draft that a constructor makes
          published,  \* no token yet, or the set of the meaning of the one that is out
          draft

vars == <<settings, fresh, published, draft>>

Init == draft = fresh

Changed == {f \in DOMAIN draft : draft'[f] # draft[f]}

Configure == /\ Changed \subseteq settings
             /\ \A f, g \in Changed : f = g
             /\ UNCHANGED <<settings, fresh, published>>

(* A scoped user has no permissions of its own, ...                        *)
Scope == /\ draft' = [f \in DOMAIN draft |-> IF f \in Permissions THEN Denied(f) ELSE draft[f]]
         /\ UNCHANGED <<settings, fresh, published>>

(* ... and one that is scoped no longer only gets its limits back.         *)
Unscope == /\ draft' = [f \in DOMAIN draft |-> IF f \in Limits THEN Unlimited(f) ELSE draft[f]]
           /\ UNCHANGED <<settings, fresh, published>>

Publish == published' = {draft} /\ UNCHANGED <<settings, fresh, draft>>

Load == draft' \in published /\ UNCHANGED <<settings, fresh, published>>

(* A draft begun afresh takes nothing over from the one it replaces, ...   *)
Begin == draft' = fresh /\ UNCHANGED <<settings, fresh, published>>

(* ... and a user issued in one go starts from there: he is scoped and has *)
(* what was chosen for him.                                                *)
Issue == /\ \E policy \in published' :
                /\ published' = {policy}
                /\ DOMAIN policy = DOMAIN fresh
                /\ \A f \in DOMAIN fresh \ Issued :
                       policy[f] = IF f \in Permissions THEN Denied(f) ELSE fresh[f]
         /\ UNCHANGED <<settings, fresh, draft>>

Next == Configure \/ Scope \/ Unscope \/ Publish \/ Load \/ Begin \/ Issue

Spec == Init /\ [][Next]_vars
==============================================================================
