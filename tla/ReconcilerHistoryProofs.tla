---------------------- MODULE ReconcilerHistoryProofs ----------------------
(***************************************************************************)
(* Proofs about ReconcilerHistory: the reconciler calls the load balancer  *)
(* as RouteStore lets it, whatever fails, and for any microservices, specs *)
(* and bounds.                                                             *)
(***************************************************************************)
EXTENDS ReconcilerHistory, ReconcilerProofs, SequenceTheorems

-----------------------------------------------------------------------------
(* The inductive invariant *)

\* The history ends with the stored configuration, and holds the one the
\* informer shows, however old that is.
Recorded ==
  /\ tables \in Seq(Table) /\ Len(tables) \in Nat \ {0}
  /\ tables[Len(tables)] = table
  /\ \E i \in 1..Len(tables) : tableSeen = tables[i]

\* The worker only asks for routes when there are some.
RoutesWanted ==
  pc \in {"createRouter", "recreateRouter"} => Routers(inst) # NoRoutes

HistoryInv == IInv /\ Recorded /\ RoutesWanted /\ TablePaired

\* A table stored by another step of the worker is the informer's copy without
\* the routes of the microservice at hand.
LEMMA DropSteps ==
  ASSUME TypeOK, [Next]_vars, pc \notin {"createRouter", "recreateRouter"}, table' # table
  PROVE  pc # "idle" /\ table' = DropRoutes(tableSeen, cur.ns, cur.name)
<1> USE DEF informers, server, job, operator
<1>1. CASE CreateRouter \/ RecreateRouter
  BY <1>1 DEF CreateRouter, RecreateRouter
<1>2. CASE Finalize \/ RemoveRouter
  BY <1>2 DEF Finalize, RemoveRouter, CallLoadBalancer
<1>3. CASE Reconcile /\ ~(CreateRouter \/ RecreateRouter \/ Finalize \/ RemoveRouter)
  BY <1>3 DEF Reconcile, Dequeue, AddFinalizer, DropFinalizer, Lookup, CreateDeployment,
     CreateService, UpdateDeployment, DeleteService, RecreateService, ReportSuccess, ReportFailure
<1>4. CASE ~Reconcile
  BY <1>4 DEF Next, User, Create, Edit, Delete, Collect, Release, SyncResource, SyncDeployment,
              SyncService, SyncTable, Crash, vars
<1> QED
  BY <1>1, <1>2, <1>3, <1>4

\* The worker comes to a place where it asks for routes from one that looks
\* whether there are any.
LEMMA RoutesWantedNext == TypeOK /\ RoutesWanted /\ [Next]_vars => RoutesWanted'
<1> SUFFICES ASSUME TypeOK, RoutesWanted, [Next]_vars, pc' \in {"createRouter", "recreateRouter"}
             PROVE  Routers(inst)' # NoRoutes
  BY DEF RoutesWanted
<1> USE DEF Go, Done, Retry, Restart, informers, server, job, operator, Routers
<1>1. CASE CreateService \/ RecreateService
  BY <1>1 DEF CreateService, RecreateService
<1>2. CASE AddFinalizer \/ Finalize \/ DropFinalizer \/ Lookup \/ CreateDeployment
  BY <1>2 DEF AddFinalizer, Finalize, DropFinalizer, Lookup, CreateDeployment
<1>3. CASE CreateRouter \/ RemoveRouter \/ RecreateRouter
  BY <1>3 DEF CreateRouter, RemoveRouter, RecreateRouter, CallLoadBalancer, RoutesWanted
<1>4. CASE UpdateDeployment \/ DeleteService \/ ReportSuccess \/ ReportFailure \/ Crash
  BY <1>4 DEF UpdateDeployment, DeleteService, ReportSuccess, ReportFailure, Crash
<1>5. ASSUME NEW m \in Microservice, Dequeue(m) PROVE Routers(inst)' # NoRoutes
  BY <1>5 DEF Dequeue, RoutesWanted
<1>6. CASE ~Reconcile /\ ~Crash
  <2>1. UNCHANGED job
    BY <1>6 DEF Next, User, Create, Edit, Delete, Collect, Release, SyncResource, SyncDeployment,
                SyncService, SyncTable, vars
  <2> QED
    BY <2>1 DEF RoutesWanted
<1> QED
  BY <1>1, <1>2, <1>3, <1>4, <1>5, <1>6 DEF Reconcile

\* How one step extends the history: a call the load balancer may be asked
\* for, applied to the copy the informer shows.
LEMMA CallSteps ==
  ASSUME IInv, RoutesWanted, [Next]_vars, table' # table
  PROVE  \E c \in Call : table' = Apply(tableSeen, c)
<1>0. pc # "idle" => /\ cur \in Microservice /\ cur.ns \in Namespace /\ cur.name \in Name
                     /\ Routers(inst) \in Routes
  BY ObjectFacts, MicroserviceAssumption DEF IInv, TypeOK, JobTyped
<1>1. CASE pc \in {"createRouter", "recreateRouter"}
  <2> DEFINE c == [kind |-> "create", ns |-> cur.ns, name |-> cur.name,
                   routes |-> Routers(inst), reload |-> TRUE]
  <2>1. table' = AddRoutes(tableSeen, cur.ns, cur.name, Routers(inst))
    BY <1>1, RouteSteps DEF IInv
  <2>2. Routers(inst) \in Routes \ {NoRoutes}
    BY <1>0, <1>1 DEF RoutesWanted
  <2>3. c \in Call
    BY <1>0, <1>1, <2>2 DEF Call
  <2>4. table' = Apply(tableSeen, c)
    BY <2>1 DEF Apply
  <2> QED
    BY <2>3, <2>4
<1>2. CASE pc \notin {"createRouter", "recreateRouter"}
  <2>1. pc # "idle" /\ table' = DropRoutes(tableSeen, cur.ns, cur.name)
    BY <1>2, DropSteps DEF IInv
  <2> DEFINE c == [kind |-> "remove", ns |-> cur.ns, name |-> cur.name,
                   routes |-> NoRoutes, reload |-> TRUE]
  <2>2. c \in Call
    BY <1>0, <2>1 DEF Call
  <2>3. table' = Apply(tableSeen, c)
    BY <2>1 DEF Apply
  <2> QED
    BY <2>2, <2>3
<1> QED
  BY <1>1, <1>2

LEMMA InitHistory == InitH => HistoryInv
<1> SUFFICES ASSUME InitH PROVE HistoryInv
  OBVIOUS
<1>1. IInv
  BY InitIInv DEF InitH
<1>2. table \in Table /\ tableSeen = table /\ tables = <<table>> /\ pc = "idle"
  BY <1>1 DEF InitH, Init, IInv, TypeOK, ServerTyped
<1>3. Recorded
  BY <1>2 DEF Recorded
<1>4. TablePaired
  BY EmptyTableFacts DEF InitH, Init, TablePaired
<1> QED
  BY <1>1, <1>2, <1>3, <1>4 DEF HistoryInv, RoutesWanted

\* A call keeps the services and the routers it finds in pairs.
LEMMA TablePairedNext ==
  IInv /\ RoutesWanted /\ TablePaired /\ [Next]_vars => TablePaired'
<1> SUFFICES ASSUME IInv, RoutesWanted, TablePaired, [Next]_vars PROVE TablePaired'
  OBVIOUS
<1>1. WellFormed(table')
  <2>1. CASE table' = table
    BY <2>1 DEF TablePaired
  <2>2. CASE table' # table
    <3>1. PICK c \in Call : table' = Apply(tableSeen, c)
      BY <2>2, CallSteps
    <3>2. tableSeen \in Table
      BY DEF IInv, TypeOK, InformersTyped
    <3> QED
      BY <3>1, <3>2, ApplyFacts DEF TablePaired
  <2> QED
    BY <2>1, <2>2
<1>2. tableSeen' \in {tableSeen, table'}
  BY TableSteps DEF IInv
<1> QED
  BY <1>1, <1>2 DEF TablePaired

LEMMA NextHistory == HistoryInv /\ [NextH]_<<vars, tables>> => HistoryInv'
<1> SUFFICES ASSUME HistoryInv, [NextH]_<<vars, tables>> PROVE HistoryInv'
  OBVIOUS
<1>1. [Next]_vars /\ tables' = IF table' = table THEN tables ELSE Append(tables, table')
  BY DEF NextH, vars
<1>2. IInv' /\ RoutesWanted' /\ TablePaired'
  BY <1>1, NextIInv, RoutesWantedNext, TablePairedNext DEF HistoryInv, IInv
<1>3. table' \in Table /\ tableSeen' \in {tableSeen, table'}
  BY <1>1, <1>2, TableSteps DEF HistoryInv, IInv, TypeOK, ServerTyped
<1>4. CASE table' = table
  <2>1. tables' = tables
    BY <1>1, <1>4
  <2> QED
    BY <1>2, <1>3, <1>4, <2>1 DEF HistoryInv, Recorded
<1>5. CASE table' # table
  <2>1. /\ tables' \in Seq(Table) /\ Len(tables') = Len(tables) + 1
        /\ \A i \in 1..Len(tables) : tables'[i] = tables[i]
        /\ tables'[Len(tables) + 1] = table'
    BY <1>1, <1>3, <1>5 DEF HistoryInv, Recorded
  <2>2. \E i \in 1..Len(tables') : tableSeen' = tables'[i]
    <3>1. CASE tableSeen' = table'
      BY <2>1, <3>1 DEF HistoryInv, Recorded
    <3>2. CASE tableSeen' = tableSeen
      <4>1. PICK i \in 1..Len(tables) : tableSeen = tables[i]
        BY DEF HistoryInv, Recorded
      <4>2. i \in 1..Len(tables') /\ tables'[i] = tables[i]
        BY <2>1 DEF HistoryInv, Recorded
      <4> QED
        BY <3>2, <4>1, <4>2
    <3> QED
      BY <1>3, <3>1, <3>2
  <2>3. Recorded'
    BY <2>1, <2>2 DEF HistoryInv, Recorded
  <2> QED
    BY <1>2, <2>3 DEF HistoryInv
<1> QED
  BY <1>4, <1>5

-----------------------------------------------------------------------------
(* Theorems *)

\* The inductive invariant holds in every reachable state.
THEOREM HistoryInvariance == SpecH => []HistoryInv
<1> QED
  BY InitHistory, NextHistory, PTL DEF SpecH

\* Routers and services stay paired through every reconcile, so that removing
\* a microservice's services removes its routers (RemoveRouter looks at routers
\* only behind a service).
THEOREM RoutersGoWithServices == SpecH => []TablePaired
<1>1. HistoryInv => TablePaired
  BY DEF HistoryInv
<1> QED
  BY <1>1, HistoryInvariance, PTL

\* The reconciler keeps to RouteStore, which LoadBalancer implements: each
\* configuration it has stored is one whole call, of those LoadBalancer allows,
\* applied to one configuration stored before (CallLoadBalancer, finalize).
THEOREM Composition == SpecH => KeepsToRouteStore
<1>1. InitH => Store!Init
  BY DEF InitH, Init, Store!Init, EmptyTable, Store!EmptyTable, NoRouters, Store!NoRouters
<1>2. ASSUME HistoryInv, [NextH]_<<vars, tables>> PROVE [Store!Next]_tables
  <2> SUFFICES ASSUME tables' # tables PROVE Store!Next
    OBVIOUS
  <2>1. [Next]_vars /\ table' # table /\ tables' = Append(tables, table')
    BY <1>2 DEF NextH, vars
  <2>2. PICK c \in Call : table' = Apply(tableSeen, c)
    BY <1>2, <2>1, CallSteps DEF HistoryInv
  <2>3. PICK i \in 1..Len(tables) : tableSeen = tables[i]
    BY <1>2 DEF HistoryInv, Recorded
  <2>4. Store!Call = Call
    BY DEF Call, Store!Call, Routes, Store!Routes, NoRoutes, Store!NoRoutes
  <2>5. \A t, d : Store!Apply(t, d) = Apply(t, d)
    BY DEF Apply, Store!Apply, AddRoutes, Store!AddRoutes, DropRoutes, Store!DropRoutes,
           KeysFor, Store!KeysFor, Contains, Store!Contains, Restrict, Store!Restrict
  <2>6. Store!Commit(c, i)
    BY <2>1, <2>2, <2>3, <2>5 DEF Store!Commit
  <2> QED
    BY <2>4, <2>6 DEF Store!Next
<1> QED
  BY <1>1, <1>2, HistoryInvariance, PTL DEF SpecH, KeepsToRouteStore, Store!Spec
=============================================================================
