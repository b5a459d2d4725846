---------------------------- MODULE MCAuthCallout ---------------------------
(***************************************************************************)
(* Two servers, one of which seals.  A client that is admitted and one the *)
(* service does not know on the sealing one; on the other a client of      *)
(* another account, one whose sentinel does not decode and one whose       *)
(* server gives no id, or a nkey that is no user key.                      *)
(***************************************************************************)
EXTENDS AuthCallout

MCNames == {"acc", "sign", "acc2", "srv1", "srv2", "u1", "u2", "u3", "u4",
            "srvx", "svcx", "othx", "nobody"}
MCKindOf == [acc |-> "A", sign |-> "A", acc2 |-> "A", srv1 |-> "N", srv2 |-> "N",
             u1 |-> "U", u2 |-> "U", u3 |-> "U", u4 |-> "U",
             srvx |-> "X", svcx |-> "X", othx |-> "X", nobody |-> "-"]

Sealing(id, nkey, account, sentinel) ==
    [key |-> "srv1", id |-> id, xkey |-> "srvx", nkey |-> nkey, account |-> account,
     sentinel |-> sentinel]

Clear(id, nkey, account, sentinel) ==
    [key |-> "srv2", id |-> id, xkey |-> "nobody", nkey |-> nkey, account |-> account,
     sentinel |-> sentinel]

MCQuestion == [c1 |-> Sealing("srv1", "u1", "acc", "welcome"),
               c2 |-> Sealing("srv1", "u2", "acc", "unknown"),
               c3 |-> Clear("srv2", "u3", "acc2", "welcome"),
               c4 |-> Clear("nobody", "u4", "acc", "garbled"),
               c5 |-> Clear("srv2", "acc", "acc", "welcome")]

MCConnections == DOMAIN MCQuestion
=============================================================================
