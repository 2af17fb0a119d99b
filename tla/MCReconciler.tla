---------------------------- MODULE MCReconciler ----------------------------
(* Small instances of Reconciler for TLC. *)
EXTENDS Reconciler, TLC

CONSTANTS nsA, web, p1, r1, r2, i1, i2

Alone == {<<nsA, nsA>>}

One == {[ns |-> nsA, name |-> web]}

\* With a Min above zero, which smart reload may find in the Deployment, or not.
Wants(image, min, routing) == [image |-> image, min |-> min, routing |-> routing]

\* A microservice that changes its image, or loses its routing.
Full == {Wants(i1, TRUE, p1 :> r1), Wants(i2, TRUE, p1 :> r1), Wants(i1, FALSE, NoRouting)}

\* The same in one edit.
Both == {Wants(i1, FALSE, p1 :> r1), Wants(i2, TRUE, NoRouting)}
=============================================================================
