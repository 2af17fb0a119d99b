-------------------------- MODULE ReconcilerHistory --------------------------
(***************************************************************************)
(* The meeting of Reconciler and LoadBalancer.  Reconciler makes a call of *)
(* the load balancer in one step, and LoadBalancer lets any caller make    *)
(* any call; here Reconciler is shown to keep to the very interface that   *)
(* LoadBalancer implements, RouteStore.  For that it is given the history  *)
(* of the stored configurations, which it has no use for itself.           *)
(***************************************************************************)
EXTENDS Reconciler, Sequences

VARIABLE tables  \* every configuration stored so far, oldest first (history)

InitH == Init /\ tables = <<table>>

NextH == Next /\ tables' = IF table' = table THEN tables ELSE Append(tables, table')

SpecH == InitH /\ [][NextH]_<<vars, tables>>

\* Every configuration the reconciler has stored is one whole call, with
\* arguments RouterTable allows, applied to one configuration stored before.
Store == INSTANCE RouteStore WITH history <- tables
KeepsToRouteStore == Store!Spec

\* The configuration stored, and the copy the reconciler edits, have a router
\* for every service and a service for every router: when the services of a
\* microservice have gone, so have its routers.
TablePaired == WellFormed(table) /\ WellFormed(tableSeen)
=============================================================================
