------------------------------ MODULE Admission -----------------------------
(***************************************************************************)
(* What auth callout promises, without services, seals or messages: a      *)
(* server that asks about a connection lets it in at most once, and only   *)
(* when the policy of the account admits this very client; it may turn     *)
(* anybody away, as services fail and networks lose messages.              *)
(***************************************************************************)
CONSTANTS Connections,  \* connection attempts, each with a nkey of its own
          Admissible    \* those the account's policy admits

VARIABLES conn          \* what has become of each

Init == conn = [c \in Connections |-> "idle"]

Ask(c) == /\ conn[c] = "idle"
          /\ conn' = [conn EXCEPT ![c] = "asking"]

Admit(c) == /\ conn[c] = "asking"
            /\ c \in Admissible
            /\ conn' = [conn EXCEPT ![c] = "admitted"]

(* A server that cannot ask turns the client away at once.                 *)
Refuse(c) == /\ conn[c] \in {"idle", "asking"}
             /\ conn' = [conn EXCEPT ![c] = "refused"]

Next == \E c \in Connections : Ask(c) \/ Admit(c) \/ Refuse(c)

Spec == Init /\ [][Next]_conn

=============================================================================
