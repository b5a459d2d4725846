---------------------------- MODULE MCClaimBodies ---------------------------
(***************************************************************************)
(* Tokens of other programs: each type with everything set in version 2,   *)
(* and in version 1 with no value for a limit, or beside nats; those that  *)
(* say as little as they may, a scoped user among them; and an activation  *)
(* of a kind that nobody knows.                                            *)
(***************************************************************************)
EXTENDS ClaimBodies

CONSTANTS sound, unsound

MCBounds == {-1, 0, 1}
MCMoments == {-1, 0, 1}

Filled(t) == [k \in Keys |-> CASE Shape[t][k] \in {"limit", "time"} -> 1
                              [] OTHER -> sound]

Bare(t) == [k \in Keys |-> IF k \in {"user_nkey", "aud", "subject"} \/ (t # "user" /\ k = "jwt")
                           THEN sound ELSE Absent]

V2(nats) == [version |-> 2, nats |-> [nats EXCEPT !["type"] = Absent],
             beside |-> [k \in Moved |-> Absent]]
V1(nats, v) == [version |-> 1, nats |-> [nats EXCEPT !["kind"] = Absent],
                beside |-> [k \in Moved |-> v]]

MCForeign ==
    [t \in Types |->
        {V2(Filled(t)), V1([Filled(t) EXCEPT !["subs"] = Absent], Blank)} \cup
        CASE t = "user"       -> {V2([Bare(t) EXCEPT !["pub"] = Blank, !["subs"] = 0, !["exp"] = -1])}
          [] t = "activation" -> {V1([Bare(t) EXCEPT !["type"] = k], sound) : k \in {sound, Unreadable}}
          [] OTHER            -> {V2(Bare(t))}]
==============================================================================
