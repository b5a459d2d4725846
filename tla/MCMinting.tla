----------------------------- MODULE MCMinting ------------------------------
(***************************************************************************)
(* One thread, one claims object of any type, about any subject; a signer  *)
(* that calls back into the library once.                                  *)
(***************************************************************************)
EXTENDS Minting

MCNames == {"op", "acc", "usr", "srv", "nobody"}
MCKindOf == [op |-> "O", acc |-> "A", usr |-> "U", srv |-> "N", nobody |-> "-"]

Constructed(type, data, sub) ==
    [type |-> type, data |-> data, sub |-> sub, body |-> "good", iat |-> 0,
     iss |-> IF type = "operator" THEN sub ELSE "nobody"]

(* A typed object writes its own type; a generic one what its JSON says.   *)
MCGenesis == {[o \in {"claims"} |-> Constructed(t, t, sub)] : t \in TypedClaims, sub \in MCNames}
             \cup {[o \in {"claims"} |-> Constructed("generic", d, "usr")] :
                      d \in {"cluster", "user"}}

MCGenericData == {"custom", Untyped, NotAString}

OneThread == [thread |-> {"claims"}]
TwoThreads == [thread1 |-> {"claims"}, thread2 |-> {"claims"}]
=============================================================================
