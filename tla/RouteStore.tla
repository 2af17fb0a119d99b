----------------------------- MODULE RouteStore -----------------------------
(***************************************************************************)
(* What the load balancer promises about the stored configuration: it only *)
(* ever changes by one whole call applied to one configuration that was    *)
(* stored before.  No configuration mixes two calls or holds half of one.  *)
(* It is not promised that the configuration a call starts from is the     *)
(* last one stored: the operator reads through a cache.                    *)
(***************************************************************************)
EXTENDS RouterTable, Sequences, Naturals

VARIABLE history  \* every configuration stored so far, oldest first

Init == history = <<EmptyTable>>

Commit(c, i) == history' = Append(history, Apply(history[i], c))

Next == \E c \in Call, i \in 1..Len(history) : Commit(c, i)

Spec == Init /\ [][Next]_history
=============================================================================
