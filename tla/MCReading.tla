------------------------------ MODULE MCReading -----------------------------
(***************************************************************************)
(* Every layout of type fields and version for a user of an account, every *)
(* pair of names for a claim of each type in both layouts, and every       *)
(* malformed payload.                                                      *)
(***************************************************************************)
EXTENDS Reading

MCNames == {"op", "acc", "usr", "srv", "nobody"}
MCKindOf == [op |-> "O", acc |-> "A", usr |-> "U", srv |-> "N", nobody |-> "-"]

Payload(form, top, nats, ver, iss, sub) ==
    [form |-> form, top |-> top, nats |-> nats, ver |-> ver, iss |-> iss, sub |-> sub]

Layouts == {Payload("ok", top, nats, ver, "acc", "usr") :
                top \in {Absent, "", "user", "account", "custom", "server"},
                nats \in {Absent, Untyped, "", "user", "custom", "cluster"}, ver \in Versions}

Claims == {Payload("ok", Absent, type, 2, iss, sub) :
               type \in TypedClaims \cup {"custom"}, iss \in MCNames, sub \in MCNames}
          \cup {Payload("ok", type, Absent, 0, iss, "usr") : type \in TypedClaims, iss \in MCNames}

Malformed == {Payload(form, Absent, type, 2, "acc", "usr") :
                  form \in PayloadForms, type \in {"user", "custom"}}

MCSignable == Layouts \cup Claims \cup Malformed
=============================================================================
