----------------------------- MODULE Reconciler -----------------------------
(***************************************************************************)
(* MicroserviceReconciler (internal/controller/microservice_controller.go):*)
(* the one worker that takes microservices from the work queue and brings  *)
(* Deployment, Service and Traefik routes in line with each.               *)
(*                                                                         *)
(* Every request to the API server is a step of its own, so users, the     *)
(* garbage collector, the informers and a crash come in between.  Reads go *)
(* through informers, each of which catches up at moments of its own; a    *)
(* write of the Microservice carries its resourceVersion, a write of the   *)
(* Deployment, of the Service or of the ConfigMap does not.                *)
(*                                                                         *)
(* A call of the load balancer is one step here: the module LoadBalancer   *)
(* has its inside.  AutoScalingHandler.Run only touches the autoscaler and *)
(* is left to the module Autoscaler.                                       *)
(***************************************************************************)
EXTENDS RouterTable, Naturals

CONSTANTS Microservice,  \* the custom resources, by namespace and name
          Image,         \* container images; stands for what hasChanges compares of
                         \* the containers, and for the service account
          NoRule,        \* the empty rule: a port without a route
          Wishes,        \* the specs users ask for
          None,          \* no object
          SmartReload,   \* SMART_RELOAD is not "false"
          MaxUid,        \* bound: custom resources ever created
          MaxEdits,      \* bound: edits of custom resources
          MaxFaults      \* bound: failed requests, crashes and foreground deletions

Routing == UNION {[P -> Rule \union {NoRule}] : P \in SUBSET Port}

NoRouting == [p \in {} |-> NoRule]

Wish == [image : Image,
         min : BOOLEAN,  \* Spec.Autoscaling.Min is above zero
         routing : Routing]

ASSUME MicroserviceAssumption == Microservice \subseteq [ns : Namespace, name : Name]
ASSUME WishesAssumption == Wishes \subseteq Wish
ASSUME NoRuleAssumption == NoRule \notin Rule
ASSUME BoundsAssumption == MaxUid \in Nat /\ MaxEdits \in Nat /\ MaxFaults \in Nat

VARIABLES
  \* the API server
  cr,         \* microservice -> its custom resource
  dep,        \* microservice -> its Deployment
  svc,        \* microservice -> its Service
  table,      \* the Traefik configuration in the ConfigMap
  \* the informers, one per kind
  crSeen, depSeen, svcSeen, tableSeen,
  \* the operator
  queue,      \* the work queue
  pc, cur,    \* where Reconcile is, and on which request
  inst,       \* its local variable instance
  \* bookkeeping of the environment
  uids, edits, faults

server == <<cr, dep, svc, table>>
informers == <<crSeen, depSeen, svcSeen, tableSeen>>
job == <<pc, cur, inst>>
vars == <<cr, dep, svc, table, crSeen, depSeen, svcSeen, tableSeen,
          queue, pc, cur, inst, uids, edits, faults>>

\* router.finalizers.kom.kaiso.github.io, and the one by which Kubernetes
\* deletes the owned objects before their owner (foreground deletion).
Finalizer == {"router", "foreground"}

Resource == [uid : 1..MaxUid, gen : 1..MaxEdits + 1, wish : Wish,
             fin : SUBSET Finalizer,
             del : BOOLEAN,  \* deletionTimestamp is set
             status : [routing : Routing, phase : {"none", "Success", "Failure"}]]

DeploymentOf == [owner : 1..MaxUid, image : Image, ports : SUBSET Port]

ServiceOf == [owner : 1..MaxUid, ports : SUBSET Port]

ASSUME NoneAssumption == None \notin Resource /\ None \notin DeploymentOf /\ None \notin ServiceOf

-----------------------------------------------------------------------------
(* getInstanceObjects *)

\* The container ports are those of the routing, with a rule or without.
Deployment(i) == [owner |-> i.uid, image |-> i.wish.image, ports |-> DOMAIN i.wish.routing]

HasService(i) == i.wish.routing # NoRouting

Service(i) == [owner |-> i.uid, ports |-> DOMAIN i.wish.routing]

\* Only a port with a rule gets a route.
Routers(i) == Restrict(i.wish.routing, {p \in DOMAIN i.wish.routing : i.wish.routing[p] # NoRule})

-----------------------------------------------------------------------------
(* hasChanges, or SMART_RELOAD=false: everything counts as changed *)

\* The Deployment counts as changed on every reconcile: its replicas are never
\* zero (the module Autoscaler), and so differ from a Min of zero.
Replaced(i) == SmartReload => ~i.wish.min

\* A slip for the mutants: the replicas are not compared.
ImageChanged(i, d) == {SmartReload => i.wish.image # d.image}

\* The answers hasChanges may give.  A Min above zero may or may not be the
\* replicas the Deployment has, which Kubernetes changes too.
DeploymentChanged(i, d) ==
  IF Replaced(i) \/ i.wish.image # d.image THEN {TRUE} ELSE BOOLEAN

ServiceChanged(i) == SmartReload => i.status.routing # i.wish.routing

-----------------------------------------------------------------------------
Init ==
  /\ cr = [m \in Microservice |-> None] /\ crSeen = cr
  /\ dep = [m \in Microservice |-> None] /\ depSeen = dep
  /\ svc = [m \in Microservice |-> None] /\ svcSeen = svc
  /\ table = EmptyTable /\ tableSeen = table
  /\ queue = {}
  /\ pc = "idle" /\ cur = None /\ inst = None
  /\ uids = 0 /\ edits = 0 /\ faults = 0

-----------------------------------------------------------------------------
(* How a reconcile ends *)

\* A slip for the mutants: the request stays marked as being processed.
DoneButHeld == pc' = "idle" /\ UNCHANGED <<cur, inst>>

\* return reconcile.Result{}, nil
Done == pc' = "idle" /\ cur' = None /\ inst' = None

\* return reconcile.Result{}, err: the queue takes the request back.
Retry == Done /\ queue' = queue \union {cur}

Fault == faults < MaxFaults /\ faults' = faults + 1

\* A request fails: it is refused, or there is some other error.
FailsIf(refused) ==
  \/ refused /\ UNCHANGED faults
  \/ Fault

-----------------------------------------------------------------------------
(* The first part of Reconcile: the finalizer *)

\* ContainsString
Registered(i) == "router" \in i.fin

\* RemoveString on the finalizers of a resource that is being deleted: the API
\* server removes it with the last of them.
Without(i, finalizer) ==
  IF i.fin \subseteq {finalizer} THEN None ELSE [i EXCEPT !.fin = @ \ {finalizer}]

\* A slip for the mutants: the finalizer is not registered first.
DequeueUnregistered(m) ==
  /\ pc = "idle" /\ m \in queue
  /\ queue' = queue \ {m}
  /\ LET i == crSeen[m]
     IN  IF i = None \/ (i # None /\ i.del /\ ~Registered(i)) THEN UNCHANGED job
         ELSE /\ cur' = m /\ inst' = i
              /\ pc' = IF i.del THEN IF HasService(i) THEN "finalize" ELSE "dropFinalizer"
                       ELSE "lookup"
  /\ UNCHANGED <<server, informers, uids, edits, faults>>

\* The instance is read from the informer.  One that is gone, or that is being
\* deleted without our finalizer, is none of our business.  finalize only has
\* something to do for a microservice that has a service.
Dequeue(m) ==
  /\ pc = "idle" /\ m \in queue
  /\ queue' = queue \ {m}
  /\ LET i == crSeen[m]
     IN  IF i = None \/ (i # None /\ i.del /\ ~Registered(i)) THEN UNCHANGED job
         ELSE /\ cur' = m /\ inst' = i
              /\ pc' = IF i.del THEN IF HasService(i) THEN "finalize" ELSE "dropFinalizer"
                       ELSE IF Registered(i) THEN "lookup" ELSE "addFinalizer"
  /\ UNCHANGED <<server, informers, uids, edits, faults>>

\* An Update of the Microservice is refused when the resource has changed or
\* is gone.
Refused == FailsIf(cr[cur] # inst)

\* A slip for the mutants: the error of the Update is dropped.
AddFinalizerCarelessly ==
  /\ pc = "addFinalizer"
  /\ inst' = [inst EXCEPT !.fin = @ \union {"router"}]
  /\ \/ cr[cur] = inst /\ cr' = [cr EXCEPT ![cur] = inst'] /\ UNCHANGED faults
     \/ Refused /\ UNCHANGED cr
  /\ pc' = "lookup"
  /\ UNCHANGED <<dep, svc, table, informers, cur, queue, uids, edits>>

AddFinalizer ==
  /\ pc = "addFinalizer"
  /\ \/ /\ cr[cur] = inst
        /\ inst' = [inst EXCEPT !.fin = @ \union {"router"}]
        /\ cr' = [cr EXCEPT ![cur] = inst']
        /\ pc' = "lookup"
        /\ UNCHANGED <<cur, queue, faults>>
     \/ Refused /\ Retry /\ UNCHANGED cr
  /\ UNCHANGED <<dep, svc, table, informers, uids, edits>>

\* A slip for the mutants: the error of RemoveRouter is logged and dropped.
FinalizeCarelessly ==
  /\ pc = "finalize"
  /\ LET t == DropRoutes(tableSeen, cur.ns, cur.name)
     IN  \/ table' = t /\ pc' = "dropFinalizer" /\ UNCHANGED <<cur, inst, queue, faults>>
         \/ table' \in {table, t} /\ Fault /\ pc' = "dropFinalizer" /\ UNCHANGED <<cur, inst, queue>>
  /\ UNCHANGED <<cr, dep, svc, informers, uids, edits>>

\* finalize: RemoveRouter may fail before or after it has stored the table.
Finalize ==
  /\ pc = "finalize"
  /\ LET t == DropRoutes(tableSeen, cur.ns, cur.name)
     IN  \/ table' = t /\ pc' = "dropFinalizer" /\ UNCHANGED <<cur, inst, queue, faults>>
         \/ table' \in {table, t} /\ Fault /\ Retry
  /\ UNCHANGED <<cr, dep, svc, informers, uids, edits>>

\* A slip for the mutants: the error of the Update is dropped.
DropFinalizerOnce ==
  /\ pc = "dropFinalizer"
  /\ \/ cr[cur] = inst /\ cr' = [cr EXCEPT ![cur] = Without(inst, "router")] /\ UNCHANGED faults
     \/ Refused /\ UNCHANGED cr
  /\ Done
  /\ UNCHANGED <<dep, svc, table, informers, queue, uids, edits>>

DropFinalizer ==
  /\ pc = "dropFinalizer"
  /\ \/ /\ cr[cur] = inst
        /\ cr' = [cr EXCEPT ![cur] = Without(inst, "router")]
        /\ Done
        /\ UNCHANGED <<queue, faults>>
     \/ Refused /\ Retry /\ UNCHANGED cr
  /\ UNCHANGED <<dep, svc, table, informers, uids, edits>>

-----------------------------------------------------------------------------
(* The second part of Reconcile: no Deployment in the informer *)

Go(next) == pc' = next /\ UNCHANGED <<cur, inst>>

\* "success" and "failure" are the two ways into udpateStatus.
Lookup ==
  /\ pc = "lookup"
  /\ LET d == depSeen[cur]
     IN  IF d = None THEN Go("createDeployment")
         ELSE \E changed \in DeploymentChanged(inst, d) :
                IF changed THEN Go("updateDeployment")
                ELSE IF ServiceChanged(inst) THEN Go("deleteService")
                ELSE Done
  /\ UNCHANGED <<server, informers, queue, uids, edits, faults>>

\* Slips for the mutants: the route is created before the service.
CreateDeploymentRouteFirst ==
  /\ pc = "createDeployment"
  /\ \/ /\ dep[cur] = None
        /\ dep' = [dep EXCEPT ![cur] = Deployment(inst)]
        /\ Go(IF Routers(inst) # NoRoutes THEN "createRouter" ELSE "success")
        /\ UNCHANGED faults
     \/ /\ FailsIf(dep[cur] # None)
        /\ UNCHANGED dep /\ Go("failure")
  /\ UNCHANGED <<cr, svc, table, informers, queue, uids, edits>>

\* A Create is refused when the object is there already.
CreateDeployment ==
  /\ pc = "createDeployment"
  /\ \/ /\ dep[cur] = None
        /\ dep' = [dep EXCEPT ![cur] = Deployment(inst)]
        /\ Go(IF HasService(inst) THEN "createService" ELSE "success")
        /\ UNCHANGED faults
     \/ /\ FailsIf(dep[cur] # None)
        /\ UNCHANGED dep /\ Go("failure")
  /\ UNCHANGED <<cr, svc, table, informers, queue, uids, edits>>

CreateService ==
  /\ pc = "createService"
  /\ \/ /\ svc[cur] = None
        /\ svc' = [svc EXCEPT ![cur] = Service(inst)]
        /\ Go(IF Routers(inst) # NoRoutes THEN "createRouter" ELSE "success")
        /\ UNCHANGED faults
     \/ /\ FailsIf(svc[cur] # None)
        /\ UNCHANGED svc /\ Go("failure")
  /\ UNCHANGED <<cr, dep, table, informers, queue, uids, edits>>

\* A call of the load balancer that makes the table t: an error comes before
\* or after t is stored, and leads to the place "failed".
CallLoadBalancer(t, done, failed) ==
  /\ \/ table' = t /\ Go(done) /\ UNCHANGED faults
     \/ table' \in {table, t} /\ Fault /\ Go(failed)
  /\ UNCHANGED <<cr, dep, svc, informers, queue, uids, edits>>

CreateRouter ==
  /\ pc = "createRouter"
  /\ CallLoadBalancer(AddRoutes(tableSeen, cur.ns, cur.name, Routers(inst)), "success", "failure")

-----------------------------------------------------------------------------
(* The third part of Reconcile: the Deployment is in the informer.  The err *)
(* of the service block shadows the one of Reconcile: whatever fails there, *)
(* the reconcile goes on to record success.                                 *)

\* A slip for the mutants: the error of the Update is dropped as well.
UpdateDeploymentCarelessly ==
  /\ pc = "updateDeployment"
  /\ \/ /\ dep[cur] # None
        /\ dep' = [dep EXCEPT ![cur] = Deployment(inst)]
        /\ UNCHANGED faults
     \/ /\ FailsIf(dep[cur] = None)
        /\ UNCHANGED dep
  /\ Go(IF ServiceChanged(inst) THEN "deleteService" ELSE "success")
  /\ UNCHANGED <<cr, svc, table, informers, queue, uids, edits>>

\* The whole Deployment is replaced, its owner included.
UpdateDeployment ==
  /\ pc = "updateDeployment"
  /\ \/ /\ dep[cur] # None
        /\ dep' = [dep EXCEPT ![cur] = Deployment(inst)]
        /\ Go(IF ServiceChanged(inst) THEN "deleteService" ELSE "success")
        /\ UNCHANGED faults
     \/ /\ FailsIf(dep[cur] = None)
        /\ UNCHANGED dep /\ Go("failure")
  /\ UNCHANGED <<cr, svc, table, informers, queue, uids, edits>>

\* The process ends and a new one starts: its informers begin with a list of
\* what is there, and every microservice is queued as if it were new.
Restart ==
  /\ crSeen' = cr' /\ depSeen' = dep' /\ svcSeen' = svc' /\ tableSeen' = table'
  /\ queue' = {m \in Microservice : cr'[m] # None}
  /\ Done

\* The service is looked up in the informer and deleted by name.  With the
\* routing gone from the spec the variable service is nil, and reading its
\* namespace for RemoveRouter ends the process.
DeleteService ==
  /\ pc = "deleteService"
  /\ UNCHANGED <<cr, dep, table, uids, edits>>
  /\ \/ /\ svcSeen[cur] = None \/ svc[cur] = None
        /\ UNCHANGED <<svc, faults>>
        /\ Go("success") /\ UNCHANGED <<informers, queue>>
     \/ /\ svcSeen[cur] # None /\ Fault /\ UNCHANGED svc
        /\ Go("success") /\ UNCHANGED <<informers, queue>>
     \/ /\ svcSeen[cur] # None /\ svc[cur] # None
        /\ svc' = [svc EXCEPT ![cur] = None]
        /\ UNCHANGED faults
        /\ IF HasService(inst) THEN Go("removeRouter") /\ UNCHANGED <<informers, queue>>
                               ELSE Restart

RemoveRouter ==
  /\ pc = "removeRouter"
  /\ CallLoadBalancer(DropRoutes(tableSeen, cur.ns, cur.name), "recreateService", "success")

RecreateService ==
  /\ pc = "recreateService"
  /\ \/ /\ svc[cur] = None
        /\ svc' = [svc EXCEPT ![cur] = Service(inst)]
        /\ Go(IF Routers(inst) # NoRoutes THEN "recreateRouter" ELSE "success")
        /\ UNCHANGED faults
     \/ /\ FailsIf(svc[cur] # None)
        /\ UNCHANGED svc /\ Go("success")
  /\ UNCHANGED <<cr, dep, table, informers, queue, uids, edits>>

RecreateRouter ==
  /\ pc = "recreateRouter"
  /\ CallLoadBalancer(AddRoutes(tableSeen, cur.ns, cur.name, Routers(inst)), "success", "success")

-----------------------------------------------------------------------------
(* udpateStatus *)

\* The status records the routing of the spec with either phase.
Reported(phase) == [routing |-> inst.wish.routing, phase |-> phase]

\* It is written only if it changes, the write is refused if the resource has
\* changed, and that error is dropped.
WriteStatus(phase) ==
  \/ /\ inst.status # Reported(phase) /\ cr[cur] = inst
     /\ cr' = [cr EXCEPT ![cur].status = Reported(phase)]
     /\ UNCHANGED faults
  \/ /\ inst.status = Reported(phase) \/ cr[cur] # inst
     /\ UNCHANGED <<cr, faults>>
  \/ inst.status # Reported(phase) /\ Fault /\ UNCHANGED cr

\* A slip for the mutants: success is queued again.
ReportSuccessAgain ==
  /\ pc = "success"
  /\ WriteStatus("Success")
  /\ Retry
  /\ UNCHANGED <<dep, svc, table, informers, uids, edits>>

ReportSuccess ==
  /\ pc = "success"
  /\ WriteStatus("Success")
  /\ Done
  /\ UNCHANGED <<dep, svc, table, informers, queue, uids, edits>>

ReportFailure ==
  /\ pc = "failure"
  /\ WriteStatus("Failure")
  /\ Retry
  /\ UNCHANGED <<dep, svc, table, informers, uids, edits>>

-----------------------------------------------------------------------------
(* The environment *)

operator == <<informers, queue, job>>

Create(m, w) ==
  /\ cr[m] = None /\ uids < MaxUid
  /\ uids' = uids + 1
  /\ cr' = [cr EXCEPT ![m] =
              [uid |-> uids', gen |-> 1, wish |-> w, fin |-> {}, del |-> FALSE,
               status |-> [routing |-> NoRouting, phase |-> "none"]]]
  /\ UNCHANGED <<dep, svc, table, operator, edits, faults>>

\* A change of the spec, allowed during deletion too, bumps the generation.
Edit(m, w) ==
  /\ cr[m] # None /\ w # cr[m].wish
  /\ edits < MaxEdits /\ edits' = edits + 1
  /\ cr' = [cr EXCEPT ![m].wish = w, ![m].gen = @ + 1]
  /\ UNCHANGED <<dep, svc, table, operator, uids, faults>>

\* A finalizer, there or added by the request, turns the removal into a
\* deletionTimestamp.
Delete(m, added) ==
  /\ cr[m] # None /\ ~cr[m].del
  /\ cr' = [cr EXCEPT ![m] = IF cr[m].fin \union added = {} THEN None
                             ELSE [cr[m] EXCEPT !.del = TRUE, !.fin = @ \union added]]
  /\ IF added = {} THEN UNCHANGED faults ELSE Fault
  /\ UNCHANGED <<dep, svc, table, operator, uids, edits>>

Owned(m, o) == o # None /\ cr[m] # None /\ cr[m].uid = o.owner

Foreground(m) == cr[m] # None /\ cr[m].del /\ "foreground" \in cr[m].fin

Condemned(m, o) == o # None /\ (Owned(m, o) => Foreground(m))

\* The garbage collector: an object whose owner is gone goes too, and so does
\* one whose owner waits for it.
Collect(m) ==
  /\ \/ /\ Condemned(m, dep[m])
        /\ dep' = [dep EXCEPT ![m] = None] /\ UNCHANGED svc
     \/ /\ Condemned(m, svc[m])
        /\ svc' = [svc EXCEPT ![m] = None] /\ UNCHANGED dep
  /\ UNCHANGED <<cr, table, operator, uids, edits, faults>>

\* Then the owner goes, unless it has another finalizer.
Release(m) ==
  /\ Foreground(m) /\ ~Owned(m, dep[m]) /\ ~Owned(m, svc[m])
  /\ cr' = [cr EXCEPT ![m] = Without(cr[m], "foreground")]
  /\ UNCHANGED <<dep, svc, table, operator, uids, edits, faults>>

\* ignoreStatusUpdatePredicate; creations and deletions always pass.  A
\* deletionTimestamp bumps the generation (not counted in gen).  Another uid is
\* no field the predicate compares: it stands for a deletion and a creation that
\* reach the informer as one.
Passes(old, new) ==
  \/ old = None \/ new = None
  \/ old.uid # new.uid
  \/ old.gen # new.gen \/ old.del # new.del
  \/ old.fin # new.fin

\* The informers catch up with the API server.
SyncResource(m) ==
  /\ crSeen[m] # cr[m]
  /\ crSeen' = [crSeen EXCEPT ![m] = cr[m]]
  /\ queue' = IF Passes(crSeen[m], cr[m]) THEN queue \union {m} ELSE queue
  /\ UNCHANGED <<server, depSeen, svcSeen, tableSeen, job, uids, edits, faults>>

SyncDeployment(m) ==
  /\ depSeen[m] # dep[m]
  /\ depSeen' = [depSeen EXCEPT ![m] = dep[m]]
  /\ UNCHANGED <<server, crSeen, svcSeen, tableSeen, queue, job, uids, edits, faults>>

SyncService(m) ==
  /\ svcSeen[m] # svc[m]
  /\ svcSeen' = [svcSeen EXCEPT ![m] = svc[m]]
  /\ UNCHANGED <<server, crSeen, depSeen, tableSeen, queue, job, uids, edits, faults>>

SyncTable ==
  /\ tableSeen # table
  /\ tableSeen' = table
  /\ UNCHANGED <<server, crSeen, depSeen, svcSeen, queue, job, uids, edits, faults>>

Crash == UNCHANGED <<server, uids, edits>> /\ Fault /\ Restart

-----------------------------------------------------------------------------
Reconcile ==
  \/ \E m \in Microservice : Dequeue(m)
  \/ AddFinalizer \/ Finalize \/ DropFinalizer
  \/ Lookup \/ CreateDeployment \/ CreateService \/ CreateRouter
  \/ UpdateDeployment \/ DeleteService \/ RemoveRouter \/ RecreateService \/ RecreateRouter
  \/ ReportSuccess \/ ReportFailure

User(m) ==
  \/ \E added \in SUBSET {"foreground"} : Delete(m, added)
  \/ \E w \in Wishes : Create(m, w) \/ Edit(m, w)

Next ==
  \/ Reconcile
  \/ \E m \in Microservice :
       User(m) \/ Collect(m) \/ Release(m) \/ SyncResource(m) \/ SyncDeployment(m) \/ SyncService(m)
  \/ SyncTable
  \/ Crash

Spec == Init /\ [][Next]_vars

\* The worker goes on, the queue is fair to every request, informers and
\* garbage collector get round to every object.  Users owe nothing.
FairSpec ==
  /\ Spec
  /\ WF_vars(Reconcile)
  /\ WF_vars(SyncTable)
  /\ \A m \in Microservice :
       /\ SF_vars(Dequeue(m))
       /\ WF_vars(SyncResource(m))
       /\ WF_vars(SyncDeployment(m))
       /\ WF_vars(SyncService(m))
       /\ WF_vars(Collect(m))
       /\ WF_vars(Release(m))
-----------------------------------------------------------------------------
(* Properties *)

ServerTyped ==
  /\ cr \in [Microservice -> Resource \union {None}]
  /\ dep \in [Microservice -> DeploymentOf \union {None}]
  /\ svc \in [Microservice -> ServiceOf \union {None}]
  /\ table \in Table

InformersTyped ==
  /\ crSeen \in [Microservice -> Resource \union {None}]
  /\ depSeen \in [Microservice -> DeploymentOf \union {None}]
  /\ svcSeen \in [Microservice -> ServiceOf \union {None}]
  /\ tableSeen \in Table

Place == {"idle", "addFinalizer", "finalize", "dropFinalizer", "lookup", "createDeployment",
          "createService", "createRouter", "updateDeployment", "deleteService", "removeRouter",
          "recreateService", "recreateRouter", "success", "failure"}

JobTyped ==
  /\ queue \subseteq Microservice
  /\ pc \in Place
  /\ IF pc = "idle" THEN cur = None /\ inst = None
     ELSE cur \in Microservice /\ inst \in Resource

Counting == uids \in 0..MaxUid /\ edits \in 0..MaxEdits /\ faults \in 0..MaxFaults

\* The variables stay in their types, and the worker has a request and an
\* instance exactly while it is busy.
TypeOK == ServerTyped /\ InformersTyped /\ JobTyped /\ Counting

\* The step makes something for the microservice, or makes it anew (a route may
\* also come back with a stale copy of the table, while the worker is at another
\* one).
Made(m) ==
  \/ dep'[m] # dep[m] /\ dep'[m] # None
  \/ svc'[m] # svc[m] /\ svc'[m] # None
  \/ cur = m /\ ~(OwnKeys(table', m.ns, m.name) \subseteq OwnKeys(table, m.ns, m.name))

\* Whatever is made for a microservice, it is there at that moment, the same
\* resource and no later one of its name, and holds the finalizer: its
\* removal will come back to the operator.  The worker only knows a copy from
\* the informer, so this rests on what the informer can still show.
FinalizerFirst ==
  [][\A m \in Microservice :
       Made(m) => cr[m] # None /\ Registered(cr[m]) /\ cr[m].uid = inst.uid]_vars

\* A route of the microservice at hand is stored only while its service is
\* there with a port for it, and is the service of the same resource: the
\* load balancer is never sent to nowhere.  (Of one that is being deleted in
\* the foreground the service may be gone by then.)
RouteAfterService ==
  [][\A m \in Microservice :
       pc \in {"createRouter", "recreateRouter"} /\ cur = m /\ table' # table
         => \/ cr[m].del
            \/ /\ svc[m] # None /\ svc[m].owner = inst.uid
               /\ \A k \in OwnKeys(table', m.ns, m.name) \ OwnKeys(tableSeen, m.ns, m.name) :
                    k.port \in svc[m].ports]_vars

\* The step takes the finalizer of the operator away.
Unregistered(m) ==
  /\ cr[m] # None /\ Registered(cr[m])
  /\ cr'[m] = None \/ (cr'[m] # None /\ ~Registered(cr'[m]))

\* When the finalizer of a microservice with a service is taken away, no route
\* of it is stored: a failed or interrupted RemoveRouter is made good first.
FinalizedRoutesGone ==
  [][\A m \in Microservice :
       Unregistered(m) /\ HasService(cr[m])
         => OwnKeys(table, m.ns, m.name) = {}]_vars

\* An event the predicate lets pass is on its way to the operator.
Pending(m) == crSeen[m] # cr[m] /\ Passes(crSeen[m], cr[m])

\* The operator has nothing to do, and no event it waits for is on its way.
AtRest == queue = {} /\ pc = "idle" /\ \A m \in Microservice : ~Pending(m)

\* No wakeup is lost: an operator at rest has nothing left to do.  What is
\* wanted holds the finalizer and, unless smart reload may judge it unchanged,
\* has the Deployment of its last spec; what is being deleted has been let go.
RestIsDone ==
  AtRest => \A m \in Microservice :
    cr[m] # None =>
      /\ Registered(cr[m]) <=> ~cr[m].del
      /\ Replaced(cr[m]) /\ ~cr[m].del => dep[m] = Deployment(cr[m])

\* The step records success.
Succeeds(m) ==
  /\ cr[m] # None /\ cr'[m] # None
  /\ cr'[m].status # cr[m].status /\ cr'[m].status.phase = "Success"

\* Success is recorded of a spec whose Deployment is there, just as it wants
\* it, whatever else went on since it was written; unless smart reload may have
\* judged it unchanged, which goes by what the informer shows.
SuccessMeansDeployed ==
  [][\A m \in Microservice :
       Succeeds(m) /\ Replaced(cr'[m]) => dep[m] = Deployment(cr'[m])]_vars

\* A microservice that is being deleted goes, however often requests fail,
\* resources change under the operator's hands or the process dies.
DeletionCompletes ==
  \A m \in Microservice : (cr[m] # None /\ cr[m].del) ~> cr[m] = None

\* Left alone, the operator comes to rest: it does not answer its own writes.
Quiesces == <>[](queue = {} /\ pc = "idle")

\* Left alone, a microservice that is wanted ends up with its Deployment, as
\* its last spec has it, unless smart reload may judge it unchanged.
DeploymentConverges ==
  \A m \in Microservice :
    <>[](cr[m] # None /\ ~cr[m].del /\ Replaced(cr[m]) => dep[m] = Deployment(cr[m]))
-----------------------------------------------------------------------------
(* The refinement *)

Stage(i) ==
  CASE i = None -> "absent"
    [] i # None /\ ~i.del -> IF Registered(i) THEN "kept" ELSE "new"
    [] i # None /\ i.del -> IF Registered(i) THEN "leaving" ELSE "released"

HasRoutes(t, m) == OwnKeys(t, m.ns, m.name) # {}

ThingsOf(m) ==
  (IF dep[m] # None THEN {"deployment"} ELSE {})
    \union (IF svc[m] # None THEN {"service"} ELSE {})
    \union (IF HasRoutes(table, m) THEN {"routes"} ELSE {})

\* The variables of Lifecycle.
AbstractLife == [m \in Microservice |-> Stage(cr[m])]
AbstractRouted == [m \in Microservice |-> cr[m] # None /\ HasService(cr[m])]
AbstractObjects == [m \in Microservice |-> ThingsOf(m)]
AbstractRemembered == [m \in Microservice |-> HasRoutes(tableSeen, m)]

Abstract == INSTANCE Lifecycle WITH
  life <- AbstractLife,
  routed <- AbstractRouted,
  objects <- AbstractObjects,
  remembered <- AbstractRemembered

\* The reconciler implements Lifecycle: between the finalizer's coming and
\* going, and at no other time, does it make anything, and it lets nothing go
\* that still has routes.
ImplementsLifecycle == Abstract!Spec
-----------------------------------------------------------------------------
(* What comments of the code say, and the code does not do *)

\* "our finalizer is present, so lets handle any external dependency": when
\* the finalizer goes, so have the routes.
NoOrphanRoutes ==
  [][\A m \in Microservice :
       Unregistered(m) => OwnKeys(table, m.ns, m.name) = {}]_vars

\* "Success reconcile success": success is recorded only of a microservice
\* that has the service its spec asks for.
SuccessHasService ==
  [][\A m \in Microservice :
       pc = "success" /\ cur = m /\ cr'[m] # cr[m] /\ HasService(inst) => svc[m] # None]_vars
=============================================================================
