--------------------------- MODULE MCAccountBody ----------------------------
(* An instance of AccountBody: one value of every kind that the rules tell *)
(* apart, and what other programs may have published before.               *)
EXTENDS AccountBody, TLC

Symmetry == Permutations(Admins)

MCSigningKeys == {"A1"}
MCUsers == {"U1"}
MCTiers == {"R1", ""}
MCExports == {"q.>", "q.a"}
MCOverlapping == {MCExports}
MCData == {"sound", "unsound"}
MCLimits == {-1, 0, 1}
MCTimes == {1, 2}

Doc(limit, jetStream, tiers, keys, rev, imports, top, inside) ==
    [EmptyDoc EXCEPT !.limit = limit, !.jetStream = jetStream, !.tiers = tiers,
                     !.signing_keys = keys, !.revocations["*"] = rev,
                     !.optional["imports"] = imports,
                     !.unmodelled = [top |-> top, inside |-> inside]]

Scope(limit) == [key |-> "A1", kind |-> "user_scope", limit |-> limit]

(* Flat limits beside tiers, and keys that this library does not know at   *)
(* either place; limits left out, with a template that leaves out its own; *)
(* an entry that is no signing key.                                        *)
MCForeign ==
    {Doc(1, 1, {"R1"}, {Scope(1)}, 1, "sound", "sound", "sound"),
     Doc(Absent, Absent, {}, {Scope(Absent)}, 2, Absent, Absent, Absent),
     Doc(-1, 1, {}, {[Scope(1) EXCEPT !.kind = "other"]}, Absent, Absent, Absent, Absent)}
=============================================================================
