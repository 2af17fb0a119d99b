-------------------------- MODULE ReconcilerProofs --------------------------
(***************************************************************************)
(* Proofs about Reconciler: its types, that nothing is made without the    *)
(* finalizer, that routes come after their service and go before the       *)
(* finalizer, and that it implements Lifecycle; for any number of          *)
(* microservices, any specs, and any bounds.                               *)
(***************************************************************************)
EXTENDS Reconciler, RouterTableProofs

-----------------------------------------------------------------------------
(* The inductive invariant *)

\* The counters bound what they count.
Counted ==
  \A m \in Microservice : cr[m] # None => cr[m].uid <= uids /\ cr[m].gen <= edits + 1

\* What a copy c of a resource, however old, still says about the present one
\* r of that name, when so many have been made: a resource once kept by the
\* finalizer is there, and kept, until it has been seen to be deleted; and a
\* deletion is never taken back.
Reflects(c, r, made) ==
  c # None =>
    /\ c.uid <= made
    /\ Registered(c) /\ ~c.del => r # None /\ r.uid = c.uid /\ Registered(r)
    /\ c.del /\ r # None /\ r.uid = c.uid => r.del

\* The informer's copy and the instance in the worker's hands are such.
CopiesReflect ==
  /\ \A m \in Microservice : Reflects(crSeen[m], cr[m], uids)
  /\ pc # "idle" => Reflects(inst, cr[cur], uids)

\* The worker applies an instance that is kept, registers one that is not, and
\* lets go of one that is being deleted.
Finalizing == {"finalize", "dropFinalizer"}

InstanceFits ==
  pc # "idle" =>
    /\ Registered(inst) <=> (pc # "addFinalizer")
    /\ inst.del <=> (pc \in Finalizing)

\* While it lets go of one, its informer no longer shows it as wanted.
DeletionSeen ==
  pc \in Finalizing /\ crSeen[cur] # None /\ crSeen[cur].uid = inst.uid => crSeen[cur].del

\* A route is about to be made: its service is there, or the microservice is
\* being deleted.
ServiceStands ==
  pc \in {"createRouter", "recreateRouter"} => cr[cur].del \/ svc[cur] = Service(inst)

\* The finalizer is about to go: the routes are gone.
RoutesGone ==
  pc = "dropFinalizer" /\ HasService(inst) => OwnKeys(table, cur.ns, cur.name) = {}

IInv == TypeOK /\ Counted /\ CopiesReflect /\ InstanceFits /\ DeletionSeen
        /\ ServiceStands /\ RoutesGone

-----------------------------------------------------------------------------
(* The objects the worker builds *)

LEMMA ResourceFacts ==
  ASSUME NEW i \in Resource
  PROVE  /\ i # None /\ i.uid \in 1..MaxUid /\ i.gen \in 1..MaxEdits + 1 /\ i.wish \in Wish
         /\ i.wish.routing \in Routing /\ i.fin \subseteq Finalizer /\ i.del \in BOOLEAN
<1>1. i.wish \in Wish
  BY DEF Resource
<1>2. i.wish.routing \in Routing
  BY <1>1 DEF Wish
<1> QED
  BY <1>1, <1>2, NoneAssumption DEF Resource

\* What getInstanceObjects makes of an instance.
LEMMA ObjectFacts ==
  ASSUME NEW i \in Resource
  PROVE  /\ Deployment(i) \in DeploymentOf /\ Deployment(i) # None
         /\ Service(i) \in ServiceOf /\ Service(i) # None
         /\ Routers(i) \in Routes
         /\ DOMAIN Routers(i) \subseteq DOMAIN i.wish.routing
<1>1. i.uid \in 1..MaxUid /\ i.wish.image \in Image /\ i.wish.routing \in Routing
  BY DEF Resource, Wish
<1>2. PICK P \in SUBSET Port : i.wish.routing \in [P -> Rule \union {NoRule}]
  BY <1>1 DEF Routing
<1>3. DOMAIN i.wish.routing = P
  BY <1>2
<1>4. Deployment(i) \in DeploymentOf /\ Service(i) \in ServiceOf
  BY <1>1, <1>3 DEF Deployment, DeploymentOf, Service, ServiceOf
<1> DEFINE Q == {p \in DOMAIN i.wish.routing : i.wish.routing[p] # NoRule}
<1>5. Routers(i) \in [Q -> Rule] /\ Q \subseteq P
  BY <1>2, <1>3 DEF Routers, Restrict
<1>6. Q \in SUBSET Port
  BY <1>5
<1> HIDE DEF Q
<1>7. Routers(i) \in Routes
  BY <1>5, <1>6 DEF Routes
<1> QED
  BY <1>3, <1>4, <1>5, <1>7, NoneAssumption

\* RemoveString takes one finalizer away and nothing else.
LEMMA WithoutFacts ==
  ASSUME NEW i \in Resource, NEW f \in Finalizer
  PROVE  LET j == Without(i, f)
         IN  /\ j \in Resource \union {None}
             /\ j # None => /\ j.uid = i.uid /\ j.gen = i.gen /\ j.del = i.del /\ j.wish = i.wish
                            /\ j.fin = i.fin \ {f}
             /\ j = None => i.fin \subseteq {f}
<1>1. CASE i.fin \subseteq {f}
  BY <1>1 DEF Without
<1>2. CASE ~(i.fin \subseteq {f})
  <2> DEFINE j == [i EXCEPT !.fin = @ \ {f}]
  <2>1. j \in Resource
    BY DEF Resource
  <2>2. /\ j.uid = i.uid /\ j.gen = i.gen /\ j.del = i.del /\ j.wish = i.wish
        /\ j.fin = i.fin \ {f}
    BY DEF Resource
  <2> HIDE DEF j
  <2> QED
    BY <1>2, <2>1, <2>2, NoneAssumption DEF Without, j
<1> QED
  BY <1>1, <1>2

\* The tables two calls of the load balancer make of the informer's copy.
LEMMA TableFacts ==
  ASSUME TypeOK, pc # "idle"
  PROVE  /\ DropRoutes(tableSeen, cur.ns, cur.name) \in Table
         /\ AddRoutes(tableSeen, cur.ns, cur.name, Routers(inst)) \in Table
<1>1. cur.ns \in Namespace /\ cur.name \in Name /\ inst \in Resource /\ tableSeen \in Table
  BY MicroserviceAssumption DEF TypeOK, JobTyped, InformersTyped
<1>2. Routers(inst) \in Routes
  BY <1>1, ObjectFacts
<1> QED
  BY <1>1, <1>2, AddRoutesFacts, DropRoutesFacts

\* Faults are counted.
LEMMA FaultFacts == TypeOK /\ (Fault \/ UNCHANGED faults) => faults' \in 0..MaxFaults
  BY BoundsAssumption DEF Fault, TypeOK, Counting

-----------------------------------------------------------------------------
(* Types *)

\* The next process begins with what is stored.
LEMMA RestartTyped == TypeOK /\ ServerTyped' /\ Counting' /\ Restart => TypeOK'
  BY DEF TypeOK, Restart, Done, ServerTyped, InformersTyped, JobTyped, Place

\* How a reconcile goes on, or ends.
LEMMA JobFacts ==
  ASSUME TypeOK, pc # "idle"
  PROVE  /\ \A next \in Place \ {"idle"} : Go(next) /\ UNCHANGED queue => JobTyped'
         /\ Done /\ UNCHANGED queue => JobTyped'
         /\ Retry => JobTyped'
<1>1. cur \in Microservice /\ inst \in Resource /\ queue \subseteq Microservice
  BY DEF TypeOK, JobTyped
<1>2. ASSUME NEW next \in Place \ {"idle"}, Go(next), UNCHANGED queue PROVE JobTyped'
  BY <1>1, <1>2 DEF Go, JobTyped
<1>3. ASSUME Done, UNCHANGED queue \/ queue' = queue \union {cur} PROVE JobTyped'
  BY <1>1, <1>3 DEF Done, JobTyped, Place
<1> QED
  BY <1>2, <1>3 DEF Retry

\* The steps of the worker keep the types.
LEMMA ReconcileTyped == TypeOK /\ Reconcile => TypeOK'
<1> SUFFICES ASSUME TypeOK, Reconcile PROVE TypeOK'
  OBVIOUS
<1>0. ServerTyped /\ InformersTyped /\ JobTyped /\ Counting
  BY DEF TypeOK
<1> USE DEF Place, informers, server, job
<1>1. ASSUME NEW m \in Microservice, Dequeue(m) PROVE TypeOK'
  <2>1. ServerTyped' /\ InformersTyped' /\ Counting'
    BY <1>0, <1>1 DEF Dequeue, ServerTyped, InformersTyped, Counting
  <2>2. JobTyped'
    BY <1>0, <1>1 DEF Dequeue, JobTyped, InformersTyped
  <2> QED
    BY <2>1, <2>2 DEF TypeOK
<1> DEFINE Busy == cur \in Microservice /\ inst \in Resource
<1>b. pc # "idle" => Busy
  BY <1>0 DEF JobTyped
<1>2. CASE AddFinalizer
  <2>1. [inst EXCEPT !.fin = @ \union {"router"}] \in Resource
    BY <1>2, <1>b DEF AddFinalizer, Resource, Finalizer
  <2>2. ServerTyped' /\ InformersTyped'
    <3>1. cr' = cr \/ (inst' \in Resource /\ cr' = [cr EXCEPT ![cur] = inst'])
      BY <1>2, <2>1 DEF AddFinalizer
    <3>2. cr' \in [Microservice -> Resource \union {None}]
      BY <1>0, <3>1 DEF ServerTyped
    <3> QED
      BY <1>0, <1>2, <3>2 DEF AddFinalizer, ServerTyped, InformersTyped
  <2>3. Counting'
    BY <1>0, <1>2, FaultFacts DEF AddFinalizer, Refused, FailsIf, Counting
  <2>4. JobTyped'
    <3>1. CASE Retry
      BY <1>2, <3>1, JobFacts DEF AddFinalizer
    <3>2. CASE ~Retry
      BY <1>0, <1>2, <2>1, <3>2 DEF AddFinalizer, JobTyped
    <3> QED
      BY <3>1, <3>2
  <2> QED
    BY <2>2, <2>3, <2>4 DEF TypeOK
<1>3. CASE Finalize
  <2>1. ServerTyped' /\ InformersTyped'
    BY <1>0, <1>3, TableFacts DEF Finalize, ServerTyped, InformersTyped
  <2>2. Counting'
    BY <1>0, <1>3, FaultFacts DEF Finalize, Counting
  <2>3. JobTyped'
    BY <1>3, JobFacts DEF Finalize, Go
  <2> QED
    BY <2>1, <2>2, <2>3 DEF TypeOK
<1>4. CASE DropFinalizer
  <2>1. Without(inst, "router") \in Resource \union {None}
    BY <1>4, <1>b, WithoutFacts DEF DropFinalizer, Finalizer
  <2>2. ServerTyped' /\ InformersTyped'
    BY <1>0, <1>4, <2>1 DEF DropFinalizer, ServerTyped, InformersTyped
  <2>3. Counting'
    BY <1>0, <1>4, FaultFacts DEF DropFinalizer, Refused, FailsIf, Counting
  <2>4. JobTyped'
    BY <1>4, JobFacts DEF DropFinalizer
  <2> QED
    BY <2>2, <2>3, <2>4 DEF TypeOK
<1>5. CASE Lookup
  <2>1. ServerTyped' /\ InformersTyped' /\ Counting'
    BY <1>0, <1>5 DEF Lookup, ServerTyped, InformersTyped, Counting
  <2>2. JobTyped'
    BY <1>5, JobFacts DEF Lookup
  <2> QED
    BY <2>1, <2>2 DEF TypeOK
<1>6. CASE CreateDeployment
  <2>1. ServerTyped' /\ InformersTyped'
    BY <1>0, <1>6, <1>b, ObjectFacts DEF CreateDeployment, ServerTyped, InformersTyped
  <2>2. Counting'
    BY <1>0, <1>6, FaultFacts DEF CreateDeployment, FailsIf, Counting
  <2>3. JobTyped'
    BY <1>6, JobFacts DEF CreateDeployment
  <2> QED
    BY <2>1, <2>2, <2>3 DEF TypeOK
<1>7. CASE CreateService
  <2>1. ServerTyped' /\ InformersTyped'
    BY <1>0, <1>7, <1>b, ObjectFacts DEF CreateService, ServerTyped, InformersTyped
  <2>2. Counting'
    BY <1>0, <1>7, FaultFacts DEF CreateService, FailsIf, Counting
  <2>3. JobTyped'
    BY <1>7, JobFacts DEF CreateService
  <2> QED
    BY <2>1, <2>2, <2>3 DEF TypeOK
<1>8. ASSUME NEW t \in Table, NEW done \in Place \ {"idle"}, NEW failed \in Place \ {"idle"},
             pc # "idle", CallLoadBalancer(t, done, failed)
      PROVE  TypeOK'
  <2>1. ServerTyped' /\ InformersTyped'
    BY <1>0, <1>8 DEF CallLoadBalancer, ServerTyped, InformersTyped
  <2>2. Counting'
    BY <1>0, <1>8, FaultFacts DEF CallLoadBalancer, Counting
  <2>3. JobTyped'
    BY <1>8, JobFacts DEF CallLoadBalancer
  <2> QED
    BY <2>1, <2>2, <2>3 DEF TypeOK
<1>9. CASE CreateRouter
  BY <1>8, <1>9, TableFacts DEF CreateRouter
<1>10. CASE RemoveRouter
  BY <1>8, <1>10, TableFacts DEF RemoveRouter
<1>11. CASE RecreateRouter
  BY <1>8, <1>11, TableFacts DEF RecreateRouter
<1>12. CASE UpdateDeployment
  <2>1. ServerTyped' /\ InformersTyped'
    BY <1>0, <1>12, <1>b, ObjectFacts DEF UpdateDeployment, ServerTyped, InformersTyped
  <2>2. Counting'
    BY <1>0, <1>12, FaultFacts DEF UpdateDeployment, FailsIf, Counting
  <2>3. JobTyped'
    BY <1>12, JobFacts DEF UpdateDeployment
  <2> QED
    BY <2>1, <2>2, <2>3 DEF TypeOK
<1>13. CASE DeleteService
  <2>1. ServerTyped'
    BY <1>0, <1>13 DEF DeleteService, ServerTyped
  <2>2. Counting'
    BY <1>0, <1>13, FaultFacts DEF DeleteService, Counting
  <2>3. CASE Restart
    BY <2>1, <2>2, <2>3, RestartTyped
  <2>4. CASE ~Restart
    <3>1. InformersTyped'
      BY <1>0, <1>13, <2>4 DEF DeleteService, InformersTyped
    <3>2. JobTyped'
      BY <1>13, <2>4, JobFacts DEF DeleteService
    <3> QED
      BY <2>1, <2>2, <3>1, <3>2 DEF TypeOK
  <2> QED
    BY <2>3, <2>4
<1>14. CASE RecreateService
  <2>1. ServerTyped' /\ InformersTyped'
    BY <1>0, <1>14, <1>b, ObjectFacts DEF RecreateService, ServerTyped, InformersTyped
  <2>2. Counting'
    BY <1>0, <1>14, FaultFacts DEF RecreateService, FailsIf, Counting
  <2>3. JobTyped'
    BY <1>14, JobFacts DEF RecreateService
  <2> QED
    BY <2>1, <2>2, <2>3 DEF TypeOK
<1>15. ASSUME NEW phase \in {"Success", "Failure"}, WriteStatus(phase),
              pc # "idle", Done, UNCHANGED queue \/ queue' = queue \union {cur},
              UNCHANGED <<dep, svc, table, informers, uids, edits>>
       PROVE  TypeOK'
  <2>1. Reported(phase) \in [routing : Routing, phase : {"none", "Success", "Failure"}]
    BY <1>15, <1>b, ResourceFacts DEF Reported
  <2>2. cr' = cr \/ (cr[cur] = inst /\ cr' = [cr EXCEPT ![cur].status = Reported(phase)])
    BY <1>15 DEF WriteStatus
  <2> HIDE DEF Busy
  <2>3. cr' \in [Microservice -> Resource \union {None}]
    <3>1. [inst EXCEPT !.status = Reported(phase)] \in Resource
      BY <1>15, <1>b, <2>1 DEF Resource, Busy
    <3> QED
      BY <1>0, <2>2, <3>1, <1>15, <1>b DEF ServerTyped, Busy
  <2>4. ServerTyped' /\ InformersTyped'
    BY <1>0, <1>15, <2>3 DEF ServerTyped, InformersTyped
  <2>5. Counting'
    BY <1>0, <1>15, FaultFacts DEF WriteStatus, Counting
  <2>6. JobTyped'
    BY <1>15, JobFacts DEF Retry
  <2> QED
    BY <2>4, <2>5, <2>6 DEF TypeOK
<1>16. CASE ReportSuccess
  BY <1>15, <1>16 DEF ReportSuccess
<1>17. CASE ReportFailure
  BY <1>15, <1>17 DEF ReportFailure, Retry
<1> QED
  BY <1>1, <1>2, <1>3, <1>4, <1>5, <1>6, <1>7, <1>9, <1>10, <1>11, <1>12, <1>13, <1>14,
     <1>16, <1>17 DEF Reconcile

\* What users make of a resource is a resource.
LEMMA CreatedFacts ==
  ASSUME NEW m \in Microservice, NEW w \in Wishes, Create(m, w), TypeOK
  PROVE  /\ cr'[m] \in Resource /\ cr' = [cr EXCEPT ![m] = cr'[m]] /\ cr[m] = None
         /\ cr'[m].uid = uids' /\ cr'[m].gen = 1 /\ ~cr'[m].del /\ ~Registered(cr'[m])
         /\ cr'[m].wish = w
         /\ uids' = uids + 1 /\ uids' \in 0..MaxUid
<1> DEFINE new == [uid |-> uids', gen |-> 1, wish |-> w, fin |-> {}, del |-> FALSE,
                   status |-> [routing |-> NoRouting, phase |-> "none"]]
<1>1. uids' = uids + 1 /\ uids' \in 1..MaxUid
  BY BoundsAssumption DEF Create, TypeOK, Counting
<1>2. w \in Wish /\ 1 \in 1..MaxEdits + 1
  BY WishesAssumption, BoundsAssumption
<1>3. NoRouting \in Routing
  <2>1. NoRouting \in [{} -> Rule \union {NoRule}]
    BY DEF NoRouting
  <2> QED
    BY <2>1 DEF Routing
<1>4. new \in Resource
  BY <1>1, <1>2, <1>3 DEF Resource
<1>5. new.uid = uids' /\ new.gen = 1 /\ ~Registered(new) /\ ~new.del /\ new.wish = w
  BY DEF Registered
<1>6. cr' = [cr EXCEPT ![m] = new] /\ cr[m] = None
  BY DEF Create
<1> HIDE DEF new
<1>7. cr'[m] = new
  BY <1>6 DEF TypeOK, ServerTyped
<1>8. uids' \in 0..MaxUid
  BY <1>1, BoundsAssumption
<1> QED
  BY <1>1, <1>4, <1>5, <1>6, <1>7, <1>8

LEMMA EditedFacts ==
  ASSUME NEW m \in Microservice, NEW w \in Wishes, Edit(m, w), TypeOK, Counted
  PROVE  /\ cr'[m] \in Resource /\ cr' = [cr EXCEPT ![m] = cr'[m]] /\ cr[m] \in Resource
         /\ cr'[m].uid = cr[m].uid /\ cr'[m].gen = cr[m].gen + 1 /\ cr'[m].del = cr[m].del
         /\ cr'[m].fin = cr[m].fin /\ cr'[m].wish = w
         /\ edits' = edits + 1 /\ edits' \in 0..MaxEdits
<1> DEFINE new == [cr[m] EXCEPT !.wish = w, !.gen = @ + 1]
<1>1. edits' = edits + 1 /\ edits' \in 0..MaxEdits
  BY BoundsAssumption DEF Edit, TypeOK, Counting
<1>2. cr[m] \in Resource
  BY DEF Edit, TypeOK, ServerTyped
<1>3. cr[m].gen \in 1..MaxEdits + 1 /\ cr[m].gen <= edits + 1
  BY <1>2, NoneAssumption DEF Resource, Counted
<1>4. cr[m].gen + 1 \in 1..MaxEdits + 1 /\ w \in Wish
  BY <1>1, <1>3, BoundsAssumption, WishesAssumption DEF TypeOK, Counting
<1>5. new \in Resource
  BY <1>2, <1>4 DEF Resource
<1>6. /\ new.uid = cr[m].uid /\ new.gen = cr[m].gen + 1 /\ new.fin = cr[m].fin
      /\ new.del = cr[m].del /\ new.wish = w
  BY <1>2 DEF Resource
<1>7. cr' = [cr EXCEPT ![m] = new]
  BY DEF Edit
<1> HIDE DEF new
<1>8. cr'[m] = new
  BY <1>7 DEF TypeOK, ServerTyped
<1> QED
  BY <1>1, <1>2, <1>5, <1>6, <1>7, <1>8

LEMMA DeletedFacts ==
  ASSUME NEW m \in Microservice, NEW added \in SUBSET {"foreground"}, Delete(m, added), TypeOK
  PROVE  /\ cr'[m] \in Resource \union {None} /\ cr' = [cr EXCEPT ![m] = cr'[m]]
         /\ cr[m] \in Resource /\ ~cr[m].del
         /\ cr'[m] = None => ~Registered(cr[m])
         /\ cr'[m] # None => /\ cr'[m].uid = cr[m].uid /\ cr'[m].gen = cr[m].gen
                             /\ cr'[m].wish = cr[m].wish /\ cr'[m].del
                             /\ Registered(cr'[m]) <=> Registered(cr[m])
<1> DEFINE new == [cr[m] EXCEPT !.del = TRUE, !.fin = @ \union added]
<1>1. cr[m] \in Resource /\ ~cr[m].del
  BY DEF Delete, TypeOK, ServerTyped
<1>2. new \in Resource
  BY <1>1 DEF Resource, Finalizer
<1>3. /\ new.uid = cr[m].uid /\ new.gen = cr[m].gen /\ new.wish = cr[m].wish /\ new.del
      /\ new.fin = cr[m].fin \union added
  BY <1>1 DEF Resource
<1>4. cr' = [cr EXCEPT ![m] = IF cr[m].fin \union added = {} THEN None ELSE new]
  BY DEF Delete
<1> HIDE DEF new
<1>5. cr'[m] = IF cr[m].fin \union added = {} THEN None ELSE new
  BY <1>4 DEF TypeOK, ServerTyped
<1>6. cr'[m] = None => ~Registered(cr[m])
  BY <1>2, <1>5, NoneAssumption DEF Registered
<1>7. Registered(new) <=> Registered(cr[m])
  BY <1>3 DEF Registered
<1> QED
  BY <1>1, <1>2, <1>3, <1>4, <1>5, <1>6, <1>7

LEMMA ReleasedFacts ==
  ASSUME NEW m \in Microservice, Release(m), TypeOK
  PROVE  /\ cr'[m] \in Resource \union {None} /\ cr' = [cr EXCEPT ![m] = cr'[m]]
         /\ cr[m] \in Resource /\ cr[m].del
         /\ cr'[m] = None => ~Registered(cr[m])
         /\ cr'[m] # None => /\ cr'[m].uid = cr[m].uid /\ cr'[m].gen = cr[m].gen
                             /\ cr'[m].wish = cr[m].wish /\ cr'[m].del
                             /\ Registered(cr'[m]) <=> Registered(cr[m])
<1>1. cr[m] \in Resource /\ cr[m].del
  BY DEF Release, Foreground, TypeOK, ServerTyped
<1>2. cr' = [cr EXCEPT ![m] = Without(cr[m], "foreground")]
  BY DEF Release
<1>3. cr'[m] = Without(cr[m], "foreground")
  BY <1>2 DEF TypeOK, ServerTyped
<1>4. "foreground" \in Finalizer
  BY DEF Finalizer
<1> DEFINE j == Without(cr[m], "foreground")
<1>5. /\ j \in Resource \union {None}
      /\ j # None => /\ j.uid = cr[m].uid /\ j.gen = cr[m].gen /\ j.wish = cr[m].wish
                     /\ j.del = cr[m].del /\ j.fin = cr[m].fin \ {"foreground"}
      /\ j = None => cr[m].fin \subseteq {"foreground"}
  BY <1>1, <1>4, WithoutFacts
<1> HIDE DEF j
<1>6. j # None => (Registered(j) <=> Registered(cr[m]))
  BY <1>5 DEF Registered
<1>7. j = None => ~Registered(cr[m])
  BY <1>5 DEF Registered
<1> QED
  BY <1>1, <1>2, <1>3, <1>5, <1>6, <1>7 DEF j

\* Everything else that happens keeps the types too.
LEMMA EnvironmentTyped ==
  ASSUME TypeOK, Counted, Next, ~Reconcile
  PROVE  TypeOK'
<1>0. ServerTyped /\ InformersTyped /\ JobTyped /\ Counting
  BY DEF TypeOK
<1> USE DEF informers, server, job, operator
<1>1. ASSUME cr' \in [Microservice -> Resource \union {None}], Counting',
             UNCHANGED <<dep, svc, table, operator>>
      PROVE  TypeOK'
  BY <1>0, <1>1 DEF TypeOK, ServerTyped, InformersTyped, JobTyped
<1>2. ASSUME NEW m \in Microservice, NEW w \in Wishes, Create(m, w) PROVE TypeOK'
  <2>1. cr' \in [Microservice -> Resource \union {None}] /\ uids' \in 0..MaxUid
    BY <1>0, <1>2, CreatedFacts DEF ServerTyped
  <2> QED
    BY <1>0, <1>1, <1>2, <2>1 DEF Create, Counting
<1>3. ASSUME NEW m \in Microservice, NEW w \in Wishes, Edit(m, w) PROVE TypeOK'
  <2>1. cr' \in [Microservice -> Resource \union {None}] /\ edits' \in 0..MaxEdits
    BY <1>0, <1>3, EditedFacts DEF ServerTyped
  <2> QED
    BY <1>0, <1>1, <1>3, <2>1 DEF Edit, Counting
<1>4. ASSUME NEW m \in Microservice, NEW added \in SUBSET {"foreground"}, Delete(m, added)
      PROVE  TypeOK'
  <2>1. cr' \in [Microservice -> Resource \union {None}]
    BY <1>0, <1>4, DeletedFacts DEF ServerTyped
  <2>2. faults' \in 0..MaxFaults
    BY <1>4, FaultFacts DEF Delete
  <2> QED
    BY <1>0, <1>1, <1>4, <2>1, <2>2 DEF Delete, Counting
<1>5. ASSUME NEW m \in Microservice, Collect(m) PROVE TypeOK'
  BY <1>0, <1>5 DEF Collect, TypeOK, ServerTyped, InformersTyped, JobTyped, Counting
<1>6. ASSUME NEW m \in Microservice, Release(m) PROVE TypeOK'
  <2>1. cr' \in [Microservice -> Resource \union {None}]
    BY <1>0, <1>6, ReleasedFacts DEF ServerTyped
  <2> QED
    BY <1>0, <1>1, <1>6, <2>1 DEF Release, Counting
<1>7. ASSUME NEW m \in Microservice,
             SyncResource(m) \/ SyncDeployment(m) \/ SyncService(m)
      PROVE  TypeOK'
  BY <1>0, <1>7 DEF SyncResource, SyncDeployment, SyncService,
                    TypeOK, ServerTyped, InformersTyped, JobTyped, Counting
<1>8. CASE SyncTable
  BY <1>0, <1>8 DEF SyncTable, TypeOK, ServerTyped, InformersTyped, JobTyped, Counting
<1>9. CASE Crash
  BY <1>0, <1>9, RestartTyped, FaultFacts DEF Crash, ServerTyped, Counting
<1> QED
  BY <1>2, <1>3, <1>4, <1>5, <1>6, <1>7, <1>8, <1>9 DEF Next, User

-----------------------------------------------------------------------------
(* What a step does to a resource, to a copy and to the worker *)

\* From the resource r to the resource s of the same name: a new one with a
\* later uid, one that has changed without losing the finalizer or its
\* deletionTimestamp, or one that is gone, not having had the finalizer.
Follows(r, s, made) ==
  \/ s = r
  \/ r = None /\ s # None /\ s.uid = made + 1 /\ ~Registered(s) /\ ~s.del
  \/ /\ r # None /\ s # None /\ s.uid = r.uid
     /\ (r.del => s.del) /\ (Registered(r) => Registered(s))
  \/ r # None /\ s = None /\ ~Registered(r)

\* The step that lets go of the microservice at hand.
Dropped(m) ==
  /\ pc = "dropFinalizer" /\ m = cur /\ cr[m] = inst
  /\ cr'[m] = Without(inst, "router")
  /\ pc' = "idle" /\ UNCHANGED <<dep, svc, table, informers>>

Changes(m) ==
  /\ \/ Follows(cr[m], cr'[m], uids) /\ (cr[m] = None /\ cr'[m] # None => uids' = uids + 1)
     \/ Dropped(m)
  /\ uids' \in {uids, uids + 1}
  /\ cr'[m] # None => cr'[m].uid <= uids' /\ cr'[m].gen <= edits' + 1

LEMMA ReconcileChanges ==
  ASSUME TypeOK, Counted, InstanceFits, Reconcile, NEW m \in Microservice
  PROVE  Changes(m)
<1>0. /\ uids' = uids /\ edits' = edits /\ uids \in Nat
      /\ cr \in [Microservice -> Resource \union {None}]
  BY BoundsAssumption DEF Reconcile, Dequeue, AddFinalizer, Finalize, DropFinalizer, Lookup, CreateDeployment,
    CreateService, CreateRouter, CallLoadBalancer, UpdateDeployment, DeleteService, RemoveRouter,
    RecreateService, RecreateRouter, ReportSuccess, ReportFailure, TypeOK, ServerTyped, Counting
<1>1. cr[m] # None => cr[m].uid <= uids /\ cr[m].gen <= edits + 1
  BY DEF Counted
<1>b. pc # "idle" => cur \in Microservice /\ inst \in Resource
  BY DEF TypeOK, JobTyped
<1>2. ASSUME cr' = cr PROVE Changes(m)
  BY <1>0, <1>1, <1>2 DEF Changes, Follows
<1>3. ASSUME NEW s \in Resource, m = cur, cr' = [cr EXCEPT ![cur] = s], cr[m] = inst, inst # None,
             s.uid = inst.uid, s.gen = inst.gen, s.del = inst.del,
             Registered(inst) => Registered(s)
      PROVE  Changes(m)
  <2>1. cr'[m] = s /\ s # None
    BY <1>0, <1>3, NoneAssumption
  <2> QED
    BY <1>0, <1>1, <1>3, <2>1 DEF Changes, Follows
<1>4. CASE AddFinalizer
  <2> DEFINE s == [inst EXCEPT !.fin = @ \union {"router"}]
  <2>1. inst \in Resource /\ inst # None
    BY <1>4, <1>b, NoneAssumption DEF AddFinalizer
  <2>2. s \in Resource
    BY <2>1 DEF Resource, Finalizer
  <2>3. s.uid = inst.uid /\ s.gen = inst.gen /\ s.del = inst.del /\ s.fin = inst.fin \union {"router"}
    BY <2>1 DEF Resource
  <2>4. cr' = cr \/ (cr[cur] = inst /\ cr' = [cr EXCEPT ![cur] = s])
    BY <1>4 DEF AddFinalizer
  <2> HIDE DEF s
  <2>5. Registered(s)
    BY <2>3 DEF Registered
  <2>6. CASE m # cur
    <3>1. cr'[m] = cr[m]
      BY <1>0, <2>4, <2>6
    <3> QED
      BY <1>0, <1>1, <3>1 DEF Changes, Follows
  <2> QED
    BY <1>2, <1>3, <2>1, <2>2, <2>3, <2>4, <2>5, <2>6
<1>5. CASE DropFinalizer
  <2>1. inst \in Resource /\ "router" \in Finalizer
    BY <1>5, <1>b DEF DropFinalizer, Finalizer
  <2> DEFINE j == Without(inst, "router")
  <2>2. j # None => j.uid = inst.uid /\ j.gen = inst.gen
    BY <2>1, WithoutFacts
  <2>3. cr' = cr \/ (cr[cur] = inst /\ cr' = [cr EXCEPT ![cur] = j] /\ pc' = "idle")
    BY <1>5 DEF DropFinalizer, Done
  <2>4. pc = "dropFinalizer" /\ UNCHANGED <<dep, svc, table, informers>>
    BY <1>5 DEF DropFinalizer
  <2> HIDE DEF j
  <2>5. CASE m # cur
    <3>1. cr'[m] = cr[m]
      BY <1>0, <2>3, <2>5
    <3> QED
      BY <1>0, <1>1, <3>1 DEF Changes, Follows
  <2>6. CASE m = cur /\ cr' # cr
    <3>1. cr'[m] = j /\ cr[m] = inst
      BY <1>0, <2>3, <2>6
    <3>2. Dropped(m)
      BY <2>3, <2>4, <2>6, <3>1 DEF Dropped, j
    <3> QED
      BY <1>0, <1>1, <2>1, <2>2, <3>1, <3>2, NoneAssumption DEF Changes
  <2> QED
    BY <1>2, <2>5, <2>6
<1>6. ASSUME NEW phase \in {"Success", "Failure"}, WriteStatus(phase), pc # "idle" PROVE Changes(m)
  <2> DEFINE s == [inst EXCEPT !.status = Reported(phase)]
  <2>1. inst \in Resource /\ inst # None
    BY <1>6, <1>b, NoneAssumption
  <2>2. Reported(phase) \in [routing : Routing, phase : {"none", "Success", "Failure"}]
    BY <2>1, ResourceFacts DEF Reported
  <2>3. s \in Resource
    BY <2>1, <2>2 DEF Resource
  <2>4. s.uid = inst.uid /\ s.gen = inst.gen /\ s.del = inst.del /\ s.fin = inst.fin
    BY <2>1 DEF Resource
  <2>5. cr' = cr \/ (cr[cur] = inst /\ cr' = [cr EXCEPT ![cur] = s])
    BY <1>6, <1>b, <1>0 DEF WriteStatus
  <2> HIDE DEF s
  <2>6. CASE m # cur
    <3>1. cr'[m] = cr[m]
      BY <1>0, <2>5, <2>6
    <3> QED
      BY <1>0, <1>1, <3>1 DEF Changes, Follows
  <2>7. Registered(inst) => Registered(s)
    BY <2>4 DEF Registered
  <2> QED
    BY <1>2, <1>3, <2>1, <2>3, <2>4, <2>5, <2>6, <2>7
<1>7. CASE ReportSuccess \/ ReportFailure
  BY <1>6, <1>7 DEF ReportSuccess, ReportFailure
<1>8. CASE ~(AddFinalizer \/ DropFinalizer \/ ReportSuccess \/ ReportFailure)
  <2>1. cr' = cr
    BY <1>8 DEF Reconcile, Dequeue, Finalize, Lookup, CreateDeployment, CreateService, CreateRouter,
       CallLoadBalancer, UpdateDeployment, DeleteService, RemoveRouter, RecreateService, RecreateRouter, server
  <2> QED
    BY <1>2, <2>1
<1> QED
  BY <1>4, <1>5, <1>7, <1>8

LEMMA StepChanges ==
  ASSUME TypeOK, Counted, InstanceFits, [Next]_vars, NEW m \in Microservice
  PROVE  Changes(m)
<1>0. /\ uids \in Nat /\ edits \in Nat
      /\ cr \in [Microservice -> Resource \union {None}]
      /\ cr[m] # None => cr[m].uid <= uids /\ cr[m].gen <= edits + 1
      /\ cr[m] # None => cr[m].uid \in Nat /\ cr[m].gen \in Nat
  BY BoundsAssumption, ResourceFacts DEF TypeOK, ServerTyped, Counting, Counted
<1>1. ASSUME cr'[m] = cr[m], uids' \in {uids, uids + 1}, edits' \in {edits, edits + 1}
      PROVE  Changes(m)
  BY <1>0, <1>1 DEF Changes, Follows
<1>2. CASE Reconcile
  BY <1>2, ReconcileChanges
<1>3. ASSUME NEW n \in Microservice, NEW w \in Wishes, Create(n, w) PROVE Changes(m)
  <2>1. edits' = edits
    BY <1>3 DEF Create
  <2>2. CASE m = n
    BY <1>0, <1>3, <2>1, <2>2, CreatedFacts, NoneAssumption DEF Changes, Follows
  <2>3. CASE m # n
    BY <1>0, <1>1, <1>3, <2>1, <2>3, CreatedFacts
  <2> QED
    BY <2>2, <2>3
<1>4. ASSUME NEW n \in Microservice, NEW w \in Wishes, Edit(n, w) PROVE Changes(m)
  <2>1. uids' = uids
    BY <1>4 DEF Edit
  <2>2. CASE m = n
    BY <1>0, <1>4, <2>1, <2>2, EditedFacts, NoneAssumption DEF Changes, Follows, Registered
  <2>3. CASE m # n
    BY <1>0, <1>1, <1>4, <2>1, <2>3, EditedFacts
  <2> QED
    BY <2>2, <2>3
<1>5. ASSUME NEW n \in Microservice, NEW added \in SUBSET {"foreground"}, Delete(n, added)
      PROVE  Changes(m)
  <2>1. uids' = uids /\ edits' = edits
    BY <1>5 DEF Delete
  <2>2. CASE m = n
    BY <1>0, <1>5, <2>1, <2>2, DeletedFacts, NoneAssumption DEF Changes, Follows
  <2>3. CASE m # n
    BY <1>0, <1>1, <1>5, <2>1, <2>3, DeletedFacts
  <2> QED
    BY <2>2, <2>3
<1>6. ASSUME NEW n \in Microservice, Release(n) PROVE Changes(m)
  <2>1. uids' = uids /\ edits' = edits
    BY <1>6 DEF Release
  <2>2. CASE m = n
    BY <1>0, <1>6, <2>1, <2>2, ReleasedFacts, NoneAssumption DEF Changes, Follows
  <2>3. CASE m # n
    BY <1>0, <1>1, <1>6, <2>1, <2>3, ReleasedFacts
  <2> QED
    BY <2>2, <2>3
<1>7. ASSUME NEW n \in Microservice,
             Collect(n) \/ SyncResource(n) \/ SyncDeployment(n) \/ SyncService(n)
               \/ SyncTable \/ Crash \/ UNCHANGED vars
      PROVE  Changes(m)
  <2>1. cr' = cr /\ uids' = uids /\ edits' = edits
    BY <1>7 DEF Collect, SyncResource, SyncDeployment, SyncService, SyncTable, Crash, server, vars
  <2> QED
    BY <1>1, <2>1
<1> QED
  BY <1>2, <1>3, <1>4, <1>5, <1>6, <1>7 DEF Next, User

\* A copy moves on to what is stored, or stays.
LEMMA CopySteps ==
  ASSUME TypeOK, [Next]_vars, NEW m \in Microservice
  PROVE  crSeen'[m] \in {crSeen[m], cr'[m]}
<1>1. CASE Restart
  BY <1>1 DEF Restart
<1>2. ASSUME NEW n \in Microservice, SyncResource(n) PROVE crSeen'[m] \in {crSeen[m], cr'[m]}
  BY <1>2 DEF SyncResource, server, TypeOK, InformersTyped
<1>3. CASE ~Restart /\ ~\E n \in Microservice : SyncResource(n)
  <2>1. crSeen' = crSeen
    BY <1>3 DEF Next, Reconcile, Dequeue, AddFinalizer, Finalize, DropFinalizer, Lookup,
       CreateDeployment, CreateService, CreateRouter, CallLoadBalancer, UpdateDeployment, DeleteService,
       RemoveRouter, RecreateService, RecreateRouter, ReportSuccess, ReportFailure, User, Create, Edit,
       Delete, Collect, Release, SyncDeployment, SyncService, SyncTable, Crash, vars, informers, operator
  <2> QED
    BY <2>1
<1> QED
  BY <1>1, <1>2, <1>3

\* The worker comes to rest, takes a request, registers the finalizer, or goes
\* on with the instance it has, within one of the two parts of Reconcile.
Applying == Place \ {"idle", "addFinalizer", "finalize", "dropFinalizer"}

LEMMA WorkerSteps ==
  ASSUME TypeOK, [Next]_vars
  PROVE  \/ pc' = "idle"
         \/ \E m \in Microservice : Dequeue(m) /\ pc' # "idle"
         \/ AddFinalizer /\ pc' = "lookup" /\ cr[cur] = inst /\ cr' = [cr EXCEPT ![cur] = inst']
         \/ /\ pc # "idle" /\ UNCHANGED <<cur, inst>>
            /\ \/ pc' = pc
               \/ pc \in Applying /\ pc' \in Applying
               \/ pc = "finalize" /\ pc' = "dropFinalizer"
<1> USE DEF Applying, Place, Done, Go, Retry, Restart, informers, server, job, operator
<1>2. CASE AddFinalizer
  BY <1>2 DEF AddFinalizer
<1>3. CASE Finalize \/ DropFinalizer \/ Lookup \/ CreateDeployment \/ CreateService
  BY <1>3 DEF Finalize, DropFinalizer, Lookup, CreateDeployment, CreateService
<1>4. CASE CreateRouter \/ RemoveRouter \/ RecreateRouter
  BY <1>4 DEF CreateRouter, RemoveRouter, RecreateRouter, CallLoadBalancer
<1>5. CASE UpdateDeployment \/ DeleteService \/ RecreateService \/ ReportSuccess \/ ReportFailure
  BY <1>5 DEF UpdateDeployment, DeleteService, RecreateService, ReportSuccess, ReportFailure
<1>6. CASE Crash
  BY <1>6 DEF Crash
<1>7. CASE ~Reconcile /\ ~Crash
  <2>1. UNCHANGED job
    BY <1>7 DEF Next, User, Create, Edit, Delete, Collect, Release, SyncResource, SyncDeployment,
                SyncService, SyncTable, vars
  <2> QED
    BY <2>1 DEF TypeOK, JobTyped
<1> QED
  BY <1>2, <1>3, <1>4, <1>5, <1>6, <1>7 DEF Reconcile

-----------------------------------------------------------------------------
(* What copies say, step by step *)

LEMMA SelfReflects ==
  ASSUME NEW r, NEW made, r # None => r.uid <= made
  PROVE  Reflects(r, r, made)
  BY DEF Reflects

\* A copy says of the next resource what it said of the one before.
LEMMA FollowingReflects ==
  ASSUME NEW c \in Resource \union {None}, NEW r \in Resource \union {None},
         NEW s \in Resource \union {None}, NEW made \in Nat, NEW now \in {made, made + 1},
         r = None /\ s # None => now = made + 1,
         Reflects(c, r, made), Follows(r, s, made)
  PROVE  Reflects(c, s, now)
<1>1. c # None => c.uid \in Nat /\ c.uid <= made /\ c.uid <= now
  BY ResourceFacts DEF Reflects
<1>2. CASE r = None /\ s # None
  BY <1>1, <1>2 DEF Reflects, Follows
<1>3. CASE r # None \/ s = None
  BY <1>1, <1>3 DEF Reflects, Follows
<1> QED
  BY <1>2, <1>3

\* When the finalizer goes, no copy that could mislead the worker is left.
LEMMA DroppingReflects ==
  ASSUME NEW i \in Resource, NEW c \in Resource \union {None}, NEW made, i.del,
         c # None /\ c.uid = i.uid => c.del,
         Reflects(c, i, made)
  PROVE  Reflects(c, Without(i, "router"), made)
<1> DEFINE s == Without(i, "router")
<1>1. s # None => s.uid = i.uid /\ s.del
  BY WithoutFacts DEF Finalizer
<1> HIDE DEF s
<1>2. Reflects(c, s, made)
  BY <1>1, NoneAssumption DEF Reflects
<1> QED
  BY <1>2 DEF s

LEMMA CopiesReflectNext ==
  ASSUME IInv, [Next]_vars, TypeOK'
  PROVE  CopiesReflect'
<1>0. /\ TypeOK /\ Counted /\ CopiesReflect /\ InstanceFits /\ DeletionSeen
      /\ uids \in Nat
  BY BoundsAssumption DEF IInv, TypeOK, Counting
<1>1. ASSUME NEW m \in Microservice
      PROVE  /\ Changes(m) /\ cr[m] \in Resource \union {None} /\ cr'[m] \in Resource \union {None}
             /\ crSeen[m] \in Resource \union {None} /\ crSeen'[m] \in {crSeen[m], cr'[m]}
             /\ cr'[m] # None => cr'[m].uid <= uids'
  <2>1. Changes(m) /\ crSeen'[m] \in {crSeen[m], cr'[m]}
    BY <1>0, StepChanges, CopySteps
  <2> QED
    BY <1>0, <2>1 DEF Changes, TypeOK, ServerTyped, InformersTyped
\* Any copy stays true unless the step lets go of the microservice.
<1>2. ASSUME NEW m \in Microservice, NEW c \in Resource \union {None}, ~Dropped(m),
             Reflects(c, cr[m], uids)
      PROVE  Reflects(c, cr'[m], uids')
  <2>1. Changes(m) /\ cr[m] \in Resource \union {None} /\ cr'[m] \in Resource \union {None}
    BY <1>1
  <2>2. /\ Follows(cr[m], cr'[m], uids) /\ (cr[m] = None /\ cr'[m] # None => uids' = uids + 1)
        /\ uids' \in {uids, uids + 1}
    BY <1>2, <2>1 DEF Changes
  <2> QED
    BY <1>0, <1>2, <2>1, <2>2, FollowingReflects
<1>3. ASSUME NEW m \in Microservice PROVE Reflects(crSeen'[m], cr'[m], uids')
  <2>1. CASE crSeen'[m] = cr'[m]
    BY <1>1, <2>1, SelfReflects
  <2>2. CASE crSeen'[m] = crSeen[m] /\ ~Dropped(m)
    BY <1>0, <1>1, <1>2, <2>2 DEF CopiesReflect
  <2>3. CASE crSeen'[m] = crSeen[m] /\ Dropped(m)
    <3>1. /\ inst \in Resource /\ inst.del /\ cr[m] = inst /\ cr'[m] = Without(inst, "router")
          /\ crSeen[m] # None /\ crSeen[m].uid = inst.uid => crSeen[m].del
      BY <1>0, <2>3 DEF Dropped, InstanceFits, DeletionSeen, Finalizing, TypeOK, JobTyped
    <3>2. Reflects(crSeen[m], inst, uids)
      BY <1>0, <3>1 DEF CopiesReflect
    <3>3. Reflects(crSeen[m], Without(inst, "router"), uids)
      BY <1>1, <3>1, <3>2, DroppingReflects
    <3>4. uids' \in {uids, uids + 1} /\ (crSeen[m] # None => crSeen[m].uid \in Nat)
      BY <1>1, ResourceFacts DEF Changes
    <3> QED
      BY <1>0, <2>3, <3>1, <3>3, <3>4 DEF Reflects
  <2> QED
    BY <1>1, <2>1, <2>2, <2>3
<1>4. ASSUME pc' # "idle" PROVE Reflects(inst', cr'[cur'], uids')
  <2>1. CASE \E m \in Microservice : Dequeue(m)
    <3>1. PICK m \in Microservice : Dequeue(m)
      BY <2>1
    <3>2. cur' = m /\ inst' = crSeen[m] /\ cr' = cr /\ uids' = uids
      BY <1>4, <3>1 DEF Dequeue, job, server
    <3> QED
      BY <1>0, <3>2 DEF CopiesReflect
  <2>2. CASE AddFinalizer /\ cr[cur] = inst /\ cr' = [cr EXCEPT ![cur] = inst'] /\ pc' = "lookup"
    <3>1. cur' = cur /\ cur \in Microservice
      BY <2>2 DEF AddFinalizer, Retry, Done, TypeOK, JobTyped, IInv
    <3>2. cr'[cur] = inst'
      BY <1>0, <2>2, <3>1 DEF TypeOK, ServerTyped
    <3> QED
      BY <1>1, <3>1, <3>2, SelfReflects
  <2>3. CASE pc # "idle" /\ UNCHANGED <<cur, inst>>
    <3>1. cur \in Microservice /\ inst \in Resource
      BY <1>0, <2>3 DEF TypeOK, JobTyped
    <3>2. ~Dropped(cur)
      BY <1>4 DEF Dropped
    <3> QED
      BY <1>0, <1>2, <2>3, <3>1, <3>2 DEF CopiesReflect
  <2> QED
    BY <1>0, <1>4, <2>1, <2>2, <2>3, WorkerSteps
<1> QED
  BY <1>3, <1>4 DEF CopiesReflect

LEMMA InstanceFitsNext ==
  ASSUME IInv, [Next]_vars, TypeOK'
  PROVE  InstanceFits' /\ DeletionSeen'
<1>0. /\ TypeOK /\ Counted /\ CopiesReflect /\ InstanceFits /\ DeletionSeen
  BY DEF IInv
<1>r. CopiesReflect'
  BY CopiesReflectNext
<1> USE DEF InstanceFits, Finalizing, Applying, Place
<1>1. CASE pc' = "idle"
  BY <1>1 DEF DeletionSeen
<1>2. ASSUME NEW m \in Microservice, Dequeue(m), pc' # "idle"
      PROVE  InstanceFits' /\ DeletionSeen'
  <2>1. cur' = m /\ inst' = crSeen[m] /\ crSeen' = crSeen
    BY <1>2 DEF Dequeue, job, informers
  <2>2. InstanceFits'
    BY <1>2, <2>1 DEF Dequeue, job, Registered
  <2>3. DeletionSeen'
    BY <2>1, <2>2, <1>2 DEF DeletionSeen
  <2> QED
    BY <2>2, <2>3
<1>3. CASE AddFinalizer /\ pc' = "lookup" /\ cr[cur] = inst /\ cr' = [cr EXCEPT ![cur] = inst']
  <2>1. inst \in Resource /\ cur \in Microservice
    BY <1>0, <1>3 DEF AddFinalizer, TypeOK, JobTyped
  <2>2. inst' = [inst EXCEPT !.fin = @ \union {"router"}]
    BY <1>3 DEF AddFinalizer, Retry, Done
  <2>3. inst'.del = inst.del /\ "router" \in inst'.fin
    BY <2>1, <2>2 DEF Resource
  <2> QED
    BY <1>0, <1>3, <2>3 DEF AddFinalizer, Registered, DeletionSeen
<1>4. CASE /\ pc # "idle" /\ UNCHANGED <<cur, inst>> /\ pc' # "idle"
           /\ \/ pc' = pc
              \/ pc \in Applying /\ pc' \in Applying
              \/ pc = "finalize" /\ pc' = "dropFinalizer"
  <2>1. InstanceFits'
    BY <1>0, <1>4 DEF Registered
  <2>2. ASSUME pc' \in Finalizing, crSeen'[cur'] # None, crSeen'[cur'].uid = inst'.uid
        PROVE  crSeen'[cur'].del
    <3>1. cur \in Microservice /\ inst.del /\ pc \in Finalizing /\ inst \in Resource
      BY <1>0, <1>4, <2>2 DEF TypeOK, JobTyped
    <3>2. CASE crSeen'[cur] = crSeen[cur]
      BY <1>0, <1>4, <2>2, <3>1, <3>2 DEF DeletionSeen
    <3>3. CASE crSeen'[cur] = cr'[cur]
      <4>1. Reflects(inst, cr'[cur], uids')
        BY <1>r, <1>4 DEF CopiesReflect
      <4> QED
        BY <1>4, <2>2, <3>1, <3>3, <4>1, NoneAssumption DEF Reflects
    <3> QED
      BY <1>0, <3>1, <3>2, <3>3, CopySteps
  <2> QED
    BY <2>1, <2>2 DEF DeletionSeen
<1> QED
  BY <1>0, <1>1, <1>2, <1>3, <1>4, WorkerSteps

\* The worker is about to make a route because it has just made the service, or
\* it was before, and only the garbage collector has touched the service.
LEMMA ServiceSteps ==
  ASSUME TypeOK, [Next]_vars, pc' \in {"createRouter", "recreateRouter"}
  PROVE  \/ svc'[cur'] = Service(inst')
         \/ /\ pc' = pc /\ UNCHANGED <<cur, inst>>
            /\ svc'[cur] = svc[cur] \/ Condemned(cur, svc[cur])
<1> USE DEF Done, Go, Retry, Restart, informers, server, job, operator
<1>0. /\ pc # "idle" => cur \in Microservice
      /\ svc \in [Microservice -> ServiceOf \union {None}]
  BY DEF TypeOK, JobTyped, ServerTyped
<1>1. CASE CreateService \/ RecreateService
  BY <1>0, <1>1 DEF CreateService, RecreateService
<1>2. CASE Reconcile /\ ~CreateService /\ ~RecreateService
  BY <1>2 DEF Reconcile, Dequeue, AddFinalizer, Finalize, DropFinalizer, Lookup, CreateDeployment,
     CreateRouter, CallLoadBalancer, UpdateDeployment, DeleteService, RemoveRouter, RecreateRouter,
     ReportSuccess, ReportFailure
<1>3. ASSUME NEW n \in Microservice, Collect(n)
      PROVE  /\ pc' = pc /\ UNCHANGED <<cur, inst>>
             /\ svc'[cur] = svc[cur] \/ Condemned(cur, svc[cur])
  <2>1. pc' = pc /\ UNCHANGED <<cur, inst>>
    BY <1>3 DEF Collect
  <2>2. CASE n = cur
    BY <1>3, <2>1, <2>2 DEF Collect
  <2>3. CASE n # cur
    BY <1>0, <1>3, <2>1, <2>3 DEF Collect
  <2> QED
    BY <2>1, <2>2, <2>3
<1>4. CASE ~Reconcile /\ ~\E n \in Microservice : Collect(n)
  BY <1>4 DEF Next, User, Create, Edit, Delete, Release, SyncResource, SyncDeployment,
              SyncService, SyncTable, Crash, vars
<1> QED
  BY <1>1, <1>2, <1>3, <1>4

\* The finalizer is about to go because RemoveRouter has just stored a table, or
\* it was before, and the table is as it was; or there is no service.
LEMMA FinalizeSteps ==
  ASSUME TypeOK, [Next]_vars, pc' = "dropFinalizer", HasService(inst')
  PROVE  \/ UNCHANGED <<cur, inst>> /\ cur \in Microservice
            /\ table' = DropRoutes(tableSeen, cur.ns, cur.name)
         \/ pc' = pc /\ UNCHANGED <<cur, inst, table>>
<1> USE DEF Done, Go, Retry, Restart, informers, server, job, operator
<1>1. CASE Finalize
  BY <1>1 DEF Finalize, TypeOK, JobTyped
<1>2. CASE Reconcile /\ ~Finalize
  BY <1>2 DEF Reconcile, Dequeue, AddFinalizer, DropFinalizer, Lookup, CreateDeployment,
     CreateService, CreateRouter, CallLoadBalancer, UpdateDeployment, DeleteService, RemoveRouter,
     RecreateService, RecreateRouter, ReportSuccess, ReportFailure
<1>3. CASE ~Reconcile
  BY <1>3 DEF Next, User, Create, Edit, Delete, Collect, Release, SyncResource, SyncDeployment,
              SyncService, SyncTable, Crash, vars
<1> QED
  BY <1>1, <1>2, <1>3

\* What RemoveRouter stores has no service entry of the microservice, whether
\* or not routers and services were paired.
LEMMA DropOwnKeys ==
  ASSUME NEW t \in Table, NEW m \in Microservice
  PROVE  OwnKeys(DropRoutes(t, m.ns, m.name), m.ns, m.name) = {}
<1>1. m.ns \in Namespace /\ t.services \subseteq Key
  BY MicroserviceAssumption DEF Table
<1>2. DropRoutes(t, m.ns, m.name).services = {k \in t.services : ~Contains(k, m.ns, m.name)}
  BY DEF DropRoutes
<1>3. \A k \in Key : IsOwn(k, m.ns, m.name) => Contains(k, m.ns, m.name)
  BY <1>1, SuffixAssumption DEF IsOwn, Contains, Key
<1> QED
  BY <1>1, <1>2, <1>3 DEF OwnKeys

\* The instance applied is there, and kept by the finalizer, the very resource
\* the worker has read.
LEMMA AppliedFacts ==
  ASSUME IInv, pc \in Applying
  PROVE  /\ cur \in Microservice /\ inst \in Resource /\ cr[cur] \in Resource
         /\ cr[cur].uid = inst.uid /\ Registered(cr[cur])
<1>1. cur \in Microservice /\ inst \in Resource /\ inst # None
  BY NoneAssumption DEF IInv, TypeOK, JobTyped, Applying
<1>2. Registered(inst) /\ ~inst.del /\ Reflects(inst, cr[cur], uids)
  BY DEF IInv, InstanceFits, CopiesReflect, Applying, Finalizing
<1>3. cr[cur] # None /\ cr[cur].uid = inst.uid /\ Registered(cr[cur])
  BY <1>1, <1>2 DEF Reflects
<1> QED
  BY <1>1, <1>3 DEF IInv, TypeOK, ServerTyped

LEMMA ServiceStandsNext == IInv /\ [Next]_vars => ServiceStands'
<1> SUFFICES ASSUME IInv, [Next]_vars, pc' \in {"createRouter", "recreateRouter"}
             PROVE  cr'[cur'].del \/ svc'[cur'] = Service(inst')
  BY DEF ServiceStands, Service
<1>1. TypeOK /\ Counted /\ InstanceFits
  BY DEF IInv
<1>2. CASE svc'[cur'] = Service(inst')
  BY <1>2
<1>3. CASE /\ pc' = pc /\ UNCHANGED <<cur, inst>>
           /\ svc'[cur] = svc[cur] \/ Condemned(cur, svc[cur])
  <2>1. /\ cur \in Microservice /\ inst \in Resource /\ cr[cur] \in Resource
        /\ cr[cur].uid = inst.uid /\ Registered(cr[cur]) /\ cr[cur] # None
    BY <1>3, AppliedFacts, NoneAssumption DEF Applying, Place
  <2>2. cr[cur].del => cr'[cur].del
    <3>1. Changes(cur)
      BY <1>1, <2>1, StepChanges
    <3> QED
      BY <1>3, <2>1, <3>1 DEF Changes, Dropped, Follows
  <2>3. cr[cur].del \/ svc[cur] = Service(inst)
    BY <1>3 DEF IInv, ServiceStands
  <2>4. ASSUME svc[cur] = Service(inst), Condemned(cur, svc[cur]) PROVE cr[cur].del
    <3>1. svc[cur] # None /\ svc[cur].owner = inst.uid
      BY <2>1, <2>4, ObjectFacts DEF Service
    <3> QED
      BY <2>1, <2>4, <3>1 DEF Condemned, Owned, Foreground
  <2>5. Service(inst') = Service(inst)
    BY <1>3
  <2> QED
    BY <1>3, <2>2, <2>3, <2>4, <2>5
<1> QED
  BY <1>1, <1>2, <1>3, ServiceSteps

LEMMA RoutesGoneNext == IInv /\ [Next]_vars => RoutesGone'
<1> SUFFICES ASSUME IInv, [Next]_vars, pc' = "dropFinalizer", HasService(inst')
             PROVE  OwnKeys(table', cur'.ns, cur'.name) = {}
  BY DEF RoutesGone, OwnKeys, IsOwn, HasService
<1>1. CASE UNCHANGED <<cur, inst>> /\ cur \in Microservice
           /\ table' = DropRoutes(tableSeen, cur.ns, cur.name)
  BY <1>1, DropOwnKeys DEF IInv, TypeOK, InformersTyped
<1>2. CASE pc' = pc /\ UNCHANGED <<cur, inst, table>>
  BY <1>2 DEF IInv, RoutesGone
<1> QED
  BY <1>1, <1>2, FinalizeSteps DEF IInv

LEMMA InitIInv == Init => IInv
<1> SUFFICES ASSUME Init PROVE IInv
  OBVIOUS
<1>1. TypeOK
  BY EmptyTableFacts, BoundsAssumption
     DEF Init, TypeOK, ServerTyped, InformersTyped, JobTyped, Place, Counting
<1> QED
  BY <1>1 DEF Init, IInv, Counted, CopiesReflect, Reflects, InstanceFits, DeletionSeen, Finalizing,
              ServiceStands, RoutesGone

LEMMA NextIInv == IInv /\ [Next]_vars => IInv'
<1> SUFFICES ASSUME IInv, [Next]_vars PROVE IInv'
  OBVIOUS
<1>0. TypeOK /\ Counted /\ InstanceFits
  BY DEF IInv
<1>1. TypeOK'
  <2>1. CASE UNCHANGED vars
    BY <1>0, <2>1 DEF vars, TypeOK, ServerTyped, InformersTyped, JobTyped, Counting
  <2> QED
    BY <1>0, <2>1, ReconcileTyped, EnvironmentTyped DEF Next
<1>2. Counted'
  BY <1>0, StepChanges DEF Changes, Counted
<1> QED
  BY <1>1, <1>2, CopiesReflectNext, InstanceFitsNext, ServiceStandsNext, RoutesGoneNext DEF IInv

-----------------------------------------------------------------------------
(* Who makes what *)

\* Something is made only by the worker, for the microservice it is applying.
LEMMA MadeSteps ==
  ASSUME TypeOK, [Next]_vars, NEW m \in Microservice, Made(m)
  PROVE  pc \in Applying /\ cur = m
<1> USE DEF informers, server, job, operator
<1>0. /\ pc # "idle" => cur \in Microservice /\ inst \in Resource
      /\ dep \in [Microservice -> DeploymentOf \union {None}]
      /\ svc \in [Microservice -> ServiceOf \union {None}]
  BY DEF TypeOK, JobTyped, ServerTyped
<1>1. CASE UNCHANGED <<dep, svc, table>>
  BY <1>1 DEF Made
<1>2. CASE CreateDeployment \/ UpdateDeployment
  BY <1>0, <1>2 DEF CreateDeployment, UpdateDeployment, Made, Applying, Place, OwnKeys
<1>3. CASE CreateService \/ RecreateService \/ DeleteService
  BY <1>0, <1>3 DEF CreateService, RecreateService, DeleteService, Made, Applying, Place, OwnKeys
<1>4. CASE CreateRouter \/ RemoveRouter \/ RecreateRouter
  BY <1>0, <1>4 DEF CreateRouter, RemoveRouter, RecreateRouter, CallLoadBalancer, Made, Applying, Place
<1>5. CASE Finalize
  <2>1. UNCHANGED <<dep, svc>> /\ table' \in {table, DropRoutes(tableSeen, cur.ns, cur.name)}
        /\ cur \in Microservice
    BY <1>0, <1>5 DEF Finalize
  <2>2. OwnKeys(DropRoutes(tableSeen, cur.ns, cur.name), cur.ns, cur.name) = {}
    BY <2>1, DropOwnKeys DEF TypeOK, InformersTyped
  <2> QED
    BY <2>1, <2>2 DEF Made
<1>6. ASSUME NEW n \in Microservice, Collect(n) PROVE ~Made(m)
  <2>1. UNCHANGED table /\ (dep' = [dep EXCEPT ![n] = None] \/ dep' = dep)
        /\ (svc' = [svc EXCEPT ![n] = None] \/ svc' = svc)
    BY <1>6 DEF Collect
  <2> QED
    BY <1>0, <2>1 DEF Made
<1>7. CASE Reconcile /\ ~(CreateDeployment \/ UpdateDeployment \/ CreateService \/ RecreateService
             \/ DeleteService \/ CreateRouter \/ RemoveRouter \/ RecreateRouter \/ Finalize)
  BY <1>1, <1>7 DEF Reconcile, Dequeue, AddFinalizer, DropFinalizer, Lookup, ReportSuccess, ReportFailure
<1>8. CASE ~Reconcile /\ ~\E n \in Microservice : Collect(n)
  BY <1>1, <1>8 DEF Next, User, Create, Edit, Delete, Release, SyncResource, SyncDeployment,
                    SyncService, SyncTable, Crash, vars
<1> QED
  BY <1>2, <1>3, <1>4, <1>5, <1>6, <1>7, <1>8

\* The finalizer of the operator is taken away by the operator only.
LEMMA UnregisteredSteps ==
  ASSUME IInv, [Next]_vars, NEW m \in Microservice, Unregistered(m)
  PROVE  Dropped(m)
<1>1. Changes(m)
  BY StepChanges DEF IInv
<1> QED
  BY <1>1 DEF Changes, Unregistered, Follows

\* What is stored by a call for new routes is the informer's copy with the
\* routes of the instance.
LEMMA RouteSteps ==
  ASSUME TypeOK, [Next]_vars, pc \in {"createRouter", "recreateRouter"}, table' # table
  PROVE  table' = AddRoutes(tableSeen, cur.ns, cur.name, Routers(inst))
<1> USE DEF informers, server, job, operator
<1>1. CASE CreateRouter \/ RecreateRouter
  BY <1>1 DEF CreateRouter, RecreateRouter, CallLoadBalancer
<1>2. CASE Reconcile /\ ~CreateRouter /\ ~RecreateRouter
  BY <1>2 DEF Reconcile, Dequeue, AddFinalizer, Finalize, DropFinalizer, Lookup, CreateDeployment,
     CreateService, UpdateDeployment, DeleteService, RemoveRouter, RecreateService,
     ReportSuccess, ReportFailure
<1>3. CASE ~Reconcile
  BY <1>3 DEF Next, User, Create, Edit, Delete, Collect, Release, SyncResource, SyncDeployment,
              SyncService, SyncTable, Crash, vars
<1> QED
  BY <1>1, <1>2, <1>3

-----------------------------------------------------------------------------
(* Theorems *)

\* The inductive invariant holds in every reachable state.
THEOREM Invariance == Spec => []IInv
<1> QED
  BY InitIInv, NextIInv, PTL DEF Spec

\* The types hold, and the worker has a request and an instance exactly while
\* it is busy.
THEOREM TypeCorrect == Spec => []TypeOK
<1>1. IInv => TypeOK
  BY DEF IInv
<1> QED
  BY <1>1, Invariance, PTL

\* Nothing is made of a microservice that is not there, is a later one of the
\* same name, or has not got the finalizer (Reconcile), however old the copy
\* the worker has read.
THEOREM FinalizerComesFirst == Spec => FinalizerFirst
<1>1. ASSUME IInv, [Next]_vars
      PROVE  [\A m \in Microservice :
                Made(m) => cr[m] # None /\ Registered(cr[m]) /\ cr[m].uid = inst.uid]_vars
  <2> SUFFICES ASSUME NEW m \in Microservice, Made(m)
               PROVE  cr[m] # None /\ Registered(cr[m]) /\ cr[m].uid = inst.uid
    OBVIOUS
  <2>1. pc \in Applying /\ cur = m
    BY <1>1, MadeSteps DEF IInv
  <2> QED
    BY <1>1, <2>1, AppliedFacts, NoneAssumption
<1> QED
  BY <1>1, Invariance, PTL DEF Spec, FinalizerFirst

\* A route is only stored while its service is there with a port for it, the
\* service of the very resource at hand, unless that is being deleted.
THEOREM RoutesComeAfterTheirService == Spec => RouteAfterService
<1> DEFINE Served(m) ==
      \/ cr[m].del
      \/ /\ svc[m] # None /\ svc[m].owner = inst.uid
         /\ \A k \in OwnKeys(table', m.ns, m.name) \ OwnKeys(tableSeen, m.ns, m.name) :
              k.port \in svc[m].ports
<1>1. ASSUME IInv, [Next]_vars
      PROVE  [\A m \in Microservice :
                pc \in {"createRouter", "recreateRouter"} /\ cur = m /\ table' # table
                  => Served(m)]_vars
  <2> SUFFICES ASSUME NEW m \in Microservice, pc \in {"createRouter", "recreateRouter"},
                      cur = m, table' # table, ~cr[m].del
               PROVE  Served(m)
    OBVIOUS
  <2>1. inst \in Resource
    BY <1>1, AppliedFacts DEF Applying, Place
  <2>2. svc[m] = Service(inst)
    BY <1>1 DEF IInv, ServiceStands
  <2>3. svc[m] # None /\ svc[m].owner = inst.uid /\ svc[m].ports = DOMAIN inst.wish.routing
    BY <2>1, <2>2, ObjectFacts DEF Service
  <2>4. table' = AddRoutes(tableSeen, cur.ns, cur.name, Routers(inst))
    BY <1>1, RouteSteps DEF IInv
  <2>5. table'.services = tableSeen.services \union KeysFor(cur.ns, cur.name, DOMAIN Routers(inst))
    BY <2>4 DEF AddRoutes
  <2>6. ASSUME NEW k \in OwnKeys(table', m.ns, m.name) \ OwnKeys(tableSeen, m.ns, m.name)
        PROVE  k.port \in svc[m].ports
    <3>1. k \in KeysFor(cur.ns, cur.name, DOMAIN Routers(inst))
      BY <2>5, <2>6 DEF OwnKeys
    <3>2. k.port \in DOMAIN Routers(inst)
      BY <3>1 DEF KeysFor
    <3> QED
      BY <2>1, <2>3, <3>2, ObjectFacts
  <2> QED
    BY <2>3, <2>6
<1> QED
  BY <1>1, Invariance, PTL DEF Spec, RouteAfterService

\* The finalizer of a microservice with a service goes after its routes,
\* whatever failed or was interrupted on the way.
THEOREM RoutesGoFirst == Spec => FinalizedRoutesGone
<1>1. ASSUME IInv, [Next]_vars
      PROVE  [\A m \in Microservice :
                Unregistered(m) /\ HasService(cr[m]) => OwnKeys(table, m.ns, m.name) = {}]_vars
  <2> SUFFICES ASSUME NEW m \in Microservice, Unregistered(m), HasService(cr[m])
               PROVE  OwnKeys(table, m.ns, m.name) = {}
    OBVIOUS
  <2>1. Dropped(m)
    BY <1>1, UnregisteredSteps
  <2> QED
    BY <1>1, <2>1 DEF Dropped, IInv, RoutesGone
<1> QED
  BY <1>1, Invariance, PTL DEF Spec, FinalizedRoutesGone

\* Only users write a spec.
LEMMA WishSteps ==
  ASSUME TypeOK, Counted, [Next]_vars, NEW m \in Microservice, cr'[m] # None
  PROVE  (cr[m] # None /\ cr'[m].wish = cr[m].wish) \/ cr'[m].wish \in Wishes
<1> DEFINE Kept == cr[m] # None /\ cr'[m].wish = cr[m].wish
<1>0. /\ cr \in [Microservice -> Resource \union {None}]
      /\ pc # "idle" => cur \in Microservice /\ inst \in Resource
  BY DEF TypeOK, ServerTyped, JobTyped
<1>1. ASSUME cr'[m] = cr[m] PROVE Kept
  BY <1>1
<1>2. ASSUME NEW s, pc # "idle", cr' = [cr EXCEPT ![cur] = s] \/ cr' = cr, cr[cur] = inst,
             s # None => s.wish = inst.wish
      PROVE  Kept
  BY <1>0, <1>2, NoneAssumption
<1>3. CASE AddFinalizer
  <2> DEFINE s == [inst EXCEPT !.fin = @ \union {"router"}]
  <2>1. inst \in Resource /\ s.wish = inst.wish
    BY <1>0, <1>3 DEF AddFinalizer, Resource
  <2>2. cr' = cr \/ (cr[cur] = inst /\ cr' = [cr EXCEPT ![cur] = s])
    BY <1>3 DEF AddFinalizer
  <2> HIDE DEF s
  <2> QED
    BY <1>1, <1>2, <1>3, <2>1, <2>2 DEF AddFinalizer
<1>4. CASE DropFinalizer
  <2> DEFINE s == Without(inst, "router")
  <2>1. s # None => s.wish = inst.wish
    BY <1>0, <1>4, WithoutFacts DEF DropFinalizer, Finalizer
  <2>2. cr' = cr \/ (cr[cur] = inst /\ cr' = [cr EXCEPT ![cur] = s])
    BY <1>4 DEF DropFinalizer
  <2> HIDE DEF s
  <2> QED
    BY <1>1, <1>2, <1>4, <2>1, <2>2 DEF DropFinalizer
<1>5. CASE ReportSuccess \/ ReportFailure
  <2>1. PICK phase \in {"Success", "Failure"} : WriteStatus(phase)
    BY <1>5 DEF ReportSuccess, ReportFailure
  <2> DEFINE s == [inst EXCEPT !.status = Reported(phase)]
  <2>2. pc # "idle" /\ inst \in Resource
    BY <1>0, <1>5 DEF ReportSuccess, ReportFailure
  <2>3. s.wish = inst.wish
    BY <2>2 DEF Resource
  <2>4. cr' = cr \/ (cr[cur] = inst /\ cr' = [cr EXCEPT ![cur] = s])
    BY <1>0, <2>1, <2>2 DEF WriteStatus
  <2> HIDE DEF s
  <2> QED
    BY <1>1, <1>2, <2>2, <2>3, <2>4
<1>6. ASSUME NEW n \in Microservice, NEW w \in Wishes, Create(n, w) \/ Edit(n, w)
      PROVE  Kept \/ cr'[m].wish \in Wishes
  <2>1. cr' = [cr EXCEPT ![n] = cr'[n]] /\ cr'[n].wish = w
    BY <1>6, CreatedFacts, EditedFacts
  <2> QED
    BY <1>0, <1>1, <2>1
<1>7. ASSUME NEW n \in Microservice, NEW added \in SUBSET {"foreground"},
             Delete(n, added) \/ Release(n)
      PROVE  Kept
  <2>1. /\ cr' = [cr EXCEPT ![n] = cr'[n]] /\ cr[n] \in Resource
        /\ cr'[n] # None => cr'[n].wish = cr[n].wish
    BY <1>7, DeletedFacts, ReleasedFacts
  <2> QED
    BY <1>0, <1>1, <2>1, NoneAssumption
<1>8. CASE \/ Reconcile /\ ~(AddFinalizer \/ DropFinalizer \/ ReportSuccess \/ ReportFailure)
           \/ \E n \in Microservice :
                Collect(n) \/ SyncResource(n) \/ SyncDeployment(n) \/ SyncService(n)
           \/ SyncTable \/ Crash \/ UNCHANGED vars
  <2>1. cr' = cr
    BY <1>8 DEF Reconcile, Dequeue, Finalize, Lookup, CreateDeployment, CreateService, CreateRouter,
       CallLoadBalancer, UpdateDeployment, DeleteService, RemoveRouter, RecreateService, RecreateRouter,
       Collect, SyncResource, SyncDeployment, SyncService, SyncTable, Crash, server, vars
  <2> QED
    BY <1>1, <2>1
<1>9. CASE \E n \in Microservice : User(n) \/ Release(n)
  BY <1>6, <1>7, <1>9 DEF User
<1> QED
  BY <1>3, <1>4, <1>5, <1>8, <1>9 DEF Next, Reconcile

\* Where every spec has a routing no microservice leaves a route behind: a
\* routing taken away is the only way to orphan one (finalize).
THEOREM NoOrphansOfRouted ==
  (\A w \in Wishes : w.routing # NoRouting) => (Spec => NoOrphanRoutes)
<1> DEFINE Wished == \A m \in Microservice : cr[m] # None => cr[m].wish \in Wishes
<1> SUFFICES ASSUME \A w \in Wishes : w.routing # NoRouting
             PROVE  Spec => NoOrphanRoutes
  OBVIOUS
<1>1. Init => Wished
  BY DEF Init
<1>2. Wished /\ IInv /\ [Next]_vars => Wished'
  BY WishSteps DEF IInv
<1>3. ASSUME Wished, IInv, [Next]_vars
      PROVE  [\A m \in Microservice :
                Unregistered(m) => OwnKeys(table, m.ns, m.name) = {}]_vars
  <2> SUFFICES ASSUME NEW m \in Microservice, Unregistered(m)
               PROVE  OwnKeys(table, m.ns, m.name) = {}
    OBVIOUS
  <2>1. Dropped(m)
    BY <1>3, UnregisteredSteps
  <2>2. cr[m].wish.routing # NoRouting
    BY <1>3 DEF Unregistered
  <2>3. HasService(cr[m])
    BY <2>2 DEF HasService
  <2> QED
    BY <1>3, <2>1, <2>3 DEF Dropped, IInv, RoutesGone
<1> HIDE DEF Wished
<1> QED
  BY <1>1, <1>2, <1>3, Invariance, PTL DEF Spec, NoOrphanRoutes

-----------------------------------------------------------------------------
(* The refinement *)

\* A step that changes one resource and nothing else changes its stage, maybe
\* whether it has a routing, and nothing else.
LEMMA OneResource ==
  ASSUME TypeOK, NEW m \in Microservice, NEW s, cr' = [cr EXCEPT ![m] = s],
         UNCHANGED <<dep, svc, table, tableSeen>>
  PROVE  /\ AbstractLife' = [AbstractLife EXCEPT ![m] = Stage(s)]
         /\ AbstractRouted' = [AbstractRouted EXCEPT ![m] = (s # None /\ HasService(s))]
         /\ UNCHANGED <<AbstractObjects, AbstractRemembered>>
<1>1. cr'[m] = s /\ \A n \in Microservice : n # m => cr'[n] = cr[n]
  BY DEF TypeOK, ServerTyped
<1>2. AbstractLife' = [AbstractLife EXCEPT ![m] = Stage(s)]
  <2>1. AbstractLife' = [n \in Microservice |-> Stage(cr'[n])]
    BY DEF AbstractLife, Stage, Registered
  <2>2. \A n \in Microservice : Stage(cr'[n]) = IF n = m THEN Stage(s) ELSE Stage(cr[n])
    BY <1>1
  <2> QED
    BY <2>1, <2>2 DEF AbstractLife
<1>3. AbstractRouted' = [AbstractRouted EXCEPT ![m] = (s # None /\ HasService(s))]
  <2>1. AbstractRouted' = [n \in Microservice |-> cr'[n] # None /\ HasService(cr'[n])]
    BY DEF AbstractRouted, HasService
  <2> QED
    BY <1>1, <2>1 DEF AbstractRouted
<1>4. UNCHANGED <<AbstractObjects, AbstractRemembered>>
  BY DEF AbstractObjects, AbstractRemembered, ThingsOf, HasRoutes, OwnKeys
<1> QED
  BY <1>2, <1>3, <1>4

\* The stages, told by their marks.
LEMMA StageFacts ==
  ASSUME NEW i \in Resource \union {None}
  PROVE  /\ Stage(i) = "absent" <=> i = None
         /\ Stage(i) = "new" <=> i # None /\ ~i.del /\ ~Registered(i)
         /\ Stage(i) = "kept" <=> i # None /\ ~i.del /\ Registered(i)
         /\ Stage(i) = "released" <=> i # None /\ i.del /\ ~Registered(i)
         /\ Stage(i) = "leaving" <=> i # None /\ i.del /\ Registered(i)
  BY DEF Stage

LEMMA InitLifecycle == Init => Abstract!Init
<1> SUFFICES ASSUME Init PROVE Abstract!Init
  OBVIOUS
<1>1. AbstractLife = [m \in Microservice |-> "absent"]
  BY DEF Init, AbstractLife, Stage
<1>2. AbstractRouted = [m \in Microservice |-> FALSE]
  BY DEF Init, AbstractRouted
<1>3. \A m \in Microservice : ~HasRoutes(EmptyTable, m)
  BY DEF HasRoutes, OwnKeys, EmptyTable
<1>4. AbstractObjects = [m \in Microservice |-> {}]
  <2>1. \A m \in Microservice : ThingsOf(m) = {}
    BY <1>3 DEF Init, ThingsOf
  <2> QED
    BY <2>1 DEF AbstractObjects
<1>5. AbstractRemembered = [m \in Microservice |-> FALSE]
  <2>1. tableSeen = EmptyTable
    BY DEF Init
  <2>2. \A m \in Microservice : HasRoutes(tableSeen, m) = FALSE
    BY <1>3, <2>1
  <2> QED
    BY <2>2 DEF AbstractRemembered
<1> QED
  BY <1>1, <1>2, <1>4, <1>5 DEF Abstract!Init

\* The resource r of the microservice m becomes s: it appears, is edited, gets
\* the finalizer, is deleted, is let go of, or vanishes.
Lives(m, r, s) ==
  \/ r = None /\ s # None /\ ~s.del /\ ~Registered(s)
  \/ r # None /\ s # None /\ (s.del <=> r.del) /\ (Registered(s) <=> Registered(r))
  \/ r # None /\ s # None /\ s.wish = r.wish /\ ~r.del /\ ~s.del /\ ~Registered(r) /\ Registered(s)
  \/ r # None /\ s # None /\ s.wish = r.wish /\ ~r.del /\ s.del /\ (Registered(s) <=> Registered(r))
  \/ /\ r # None /\ r.del /\ Registered(r) /\ (HasService(r) => ~HasRoutes(table, m))
     /\ s = None \/ (s # None /\ s.wish = r.wish /\ s.del /\ ~Registered(s))
  \/ r # None /\ s = None /\ ~Registered(r)

\* A step in the life of a resource is one of the microservice.
LEMMA StageSteps ==
  ASSUME TypeOK, NEW m \in Microservice, NEW s \in Resource \union {None},
         cr' = [cr EXCEPT ![m] = s], UNCHANGED <<dep, svc, table, tableSeen>>,
         Lives(m, cr[m], s)
  PROVE  Abstract!Next
<1> DEFINE r == cr[m]
<1>1. r \in Resource \union {None}
  BY DEF TypeOK, ServerTyped
<1>2. /\ AbstractLife[m] = Stage(r)
      /\ AbstractRouted[m] <=> r # None /\ HasService(r)
      /\ "routes" \in AbstractObjects[m] => HasRoutes(table, m)
      /\ DOMAIN AbstractLife = Microservice /\ DOMAIN AbstractRouted = Microservice
  BY DEF AbstractLife, AbstractRouted, AbstractObjects, ThingsOf
<1>3. /\ AbstractLife' = [AbstractLife EXCEPT ![m] = Stage(s)]
      /\ AbstractRouted' = [AbstractRouted EXCEPT ![m] = (s # None /\ HasService(s))]
      /\ UNCHANGED <<AbstractObjects, AbstractRemembered>>
  BY OneResource
<1>4. (s # None /\ HasService(s)) \in BOOLEAN
  OBVIOUS
<1>5. ASSUME r # None, s # None, s.wish = r.wish PROVE UNCHANGED AbstractRouted
  <2>1. (s # None /\ HasService(s)) = (r # None /\ HasService(r))
    BY <1>5 DEF HasService
  <2>2. AbstractRouted = [AbstractRouted EXCEPT ![m] = (r # None /\ HasService(r))]
    BY DEF AbstractRouted
  <2> QED
    BY <1>3, <2>1, <2>2
<1>6. ASSUME s = None
      PROVE  /\ AbstractRouted' = [AbstractRouted EXCEPT ![m] = FALSE]
             /\ Stage(s) = "absent"
  BY <1>3, <1>6 DEF Stage
<1>7. /\ r # None => r.del \in BOOLEAN
      /\ s # None => s.del \in BOOLEAN
  BY <1>1, ResourceFacts
<1>r. /\ Stage(r) = "absent" <=> r = None
      /\ Stage(r) = "new" <=> r # None /\ ~r.del /\ ~Registered(r)
      /\ Stage(r) = "kept" <=> r # None /\ ~r.del /\ Registered(r)
      /\ Stage(r) = "released" <=> r # None /\ r.del /\ ~Registered(r)
      /\ Stage(r) = "leaving" <=> r # None /\ r.del /\ Registered(r)
  BY <1>1, StageFacts
<1>s. /\ Stage(s) = "absent" <=> s = None
      /\ Stage(s) = "new" <=> s # None /\ ~s.del /\ ~Registered(s)
      /\ Stage(s) = "kept" <=> s # None /\ ~s.del /\ Registered(s)
      /\ Stage(s) = "released" <=> s # None /\ s.del /\ ~Registered(s)
      /\ Stage(s) = "leaving" <=> s # None /\ s.del /\ Registered(s)
  BY StageFacts
<1>o. Lives(m, r, s)
  OBVIOUS
<1> HIDE DEF r
<1> SUFFICES \/ Abstract!Appear(m) \/ Abstract!Edit(m) \/ Abstract!Keep(m)
             \/ Abstract!Delete(m) \/ Abstract!Release(m) \/ Abstract!Vanish(m)
  BY DEF Abstract!Next
<1>10. CASE r = None /\ s # None /\ ~s.del /\ ~Registered(s)
  <2>1. Stage(r) = "absent" /\ Stage(s) = "new"
    BY <1>10, <1>r, <1>s
  <2> QED
    BY <1>2, <1>3, <1>4, <2>1 DEF Abstract!Appear, Abstract!Move
<1>11. CASE r # None /\ s # None /\ (s.del <=> r.del) /\ (Registered(s) <=> Registered(r))
  <2>1. Stage(s) = Stage(r) /\ Stage(r) # "absent"
    BY <1>11, <1>r, <1>s DEF Stage
  <2>2. AbstractLife = [AbstractLife EXCEPT ![m] = Stage(r)]
    BY <1>2 DEF AbstractLife
  <2> QED
    BY <1>2, <1>3, <1>4, <2>1, <2>2 DEF Abstract!Edit
<1>12. CASE r # None /\ s = None /\ ~Registered(r)
  <2>1. Stage(r) \in {"new", "released"}
    BY <1>7, <1>12, <1>r
  <2> QED
    BY <1>2, <1>3, <1>6, <1>12, <2>1 DEF Abstract!Delete, Abstract!Vanish, Abstract!Move
<1>13. CASE r # None /\ r.del /\ Registered(r) /\ (HasService(r) => ~HasRoutes(table, m))
            /\ (s = None \/ (s # None /\ s.wish = r.wish /\ s.del /\ ~Registered(s)))
  <2>1. Stage(r) = "leaving" /\ (s # None => Stage(s) = "released")
    BY <1>13, <1>r, <1>s
  <2> QED
    BY <1>2, <1>3, <1>5, <1>6, <1>13, <2>1 DEF Abstract!Release, Abstract!Move
<1>14. CASE r # None /\ s # None /\ s.wish = r.wish /\ ~r.del /\ ~s.del
            /\ ~Registered(r) /\ Registered(s)
  <2>1. Stage(r) = "new" /\ Stage(s) = "kept"
    BY <1>14, <1>r, <1>s
  <2> QED
    BY <1>2, <1>3, <1>5, <1>14, <2>1 DEF Abstract!Keep, Abstract!Move
<1>15. CASE r # None /\ s # None /\ s.wish = r.wish /\ ~r.del /\ s.del
            /\ (Registered(s) <=> Registered(r))
  <2>1. \/ Stage(r) = "new" /\ Stage(s) = "released"
        \/ Stage(r) = "kept" /\ Stage(s) = "leaving"
    BY <1>15, <1>r, <1>s
  <2> QED
    BY <1>2, <1>3, <1>5, <1>15, <2>1 DEF Abstract!Delete, Abstract!Move
<1> QED
  BY <1>o, <1>10, <1>11, <1>12, <1>13, <1>14, <1>15 DEF Lives

\* A step that changes a resource is a step of its life.
LEMMA LifeSteps ==
  ASSUME IInv, [Next]_vars, cr' # cr
  PROVE  Abstract!Next
<1>0. /\ TypeOK /\ Counted /\ InstanceFits /\ RoutesGone
      /\ cr \in [Microservice -> Resource \union {None}]
      /\ pc # "idle" => cur \in Microservice /\ inst \in Resource /\ inst # None
  BY NoneAssumption DEF IInv, TypeOK, ServerTyped, JobTyped
<1> USE DEF informers, operator
<1>1. ASSUME NEW m \in Microservice, NEW w \in Wishes, Create(m, w) PROVE Abstract!Next
  <2>1. Lives(m, cr[m], cr'[m])
    BY <1>0, <1>1, CreatedFacts, NoneAssumption DEF Lives
  <2> QED
    BY <1>0, <1>1, <2>1, CreatedFacts, StageSteps DEF Create
<1>2. ASSUME NEW m \in Microservice, NEW w \in Wishes, Edit(m, w) PROVE Abstract!Next
  <2>1. Lives(m, cr[m], cr'[m])
    BY <1>0, <1>2, EditedFacts, NoneAssumption DEF Lives, Registered
  <2> QED
    BY <1>0, <1>2, <2>1, EditedFacts, StageSteps DEF Edit
<1>3. ASSUME NEW m \in Microservice, NEW added \in SUBSET {"foreground"}, Delete(m, added)
      PROVE  Abstract!Next
  <2>1. Lives(m, cr[m], cr'[m])
    BY <1>0, <1>3, DeletedFacts, NoneAssumption DEF Lives
  <2> QED
    BY <1>0, <1>3, <2>1, DeletedFacts, StageSteps DEF Delete
<1>4. ASSUME NEW m \in Microservice, Release(m) PROVE Abstract!Next
  <2>1. Lives(m, cr[m], cr'[m])
    BY <1>0, <1>4, ReleasedFacts, NoneAssumption DEF Lives
  <2> QED
    BY <1>0, <1>4, <2>1, ReleasedFacts, StageSteps DEF Release
<1>5. CASE AddFinalizer
  <2> DEFINE s == [inst EXCEPT !.fin = @ \union {"router"}]
  <2>1. cr[cur] = inst /\ cr' = [cr EXCEPT ![cur] = s] /\ UNCHANGED <<dep, svc, table, tableSeen>>
    BY <1>5 DEF AddFinalizer
  <2>2. inst \in Resource /\ cur \in Microservice /\ ~Registered(inst) /\ ~inst.del
    BY <1>0, <1>5 DEF AddFinalizer, InstanceFits, Finalizing
  <2>3. s \in Resource
    BY <2>2 DEF Resource, Finalizer
  <2>4. s.del = inst.del /\ s.wish = inst.wish /\ Registered(s)
    BY <2>2 DEF Resource, Registered
  <2> HIDE DEF s
  <2>5. Lives(cur, inst, s)
    BY <2>2, <2>3, <2>4, NoneAssumption DEF Lives
  <2> QED
    BY <1>0, <2>1, <2>2, <2>3, <2>5, StageSteps
<1>6. CASE DropFinalizer
  <2> DEFINE s == Without(inst, "router")
  <2>1. cr[cur] = inst /\ cr' = [cr EXCEPT ![cur] = s] /\ UNCHANGED <<dep, svc, table, tableSeen>>
    BY <1>6 DEF DropFinalizer
  <2>2. /\ inst \in Resource /\ inst # None /\ cur \in Microservice
        /\ Registered(inst) /\ inst.del /\ pc = "dropFinalizer"
    BY <1>0, <1>6 DEF DropFinalizer, InstanceFits, Finalizing
  <2>3. s \in Resource \union {None}
        /\ (s # None => s.del = inst.del /\ s.wish = inst.wish /\ ~Registered(s))
    BY <2>2, WithoutFacts DEF Finalizer, Registered
  <2>4. HasService(inst) => ~HasRoutes(table, cur)
    BY <1>0, <2>2 DEF RoutesGone, HasRoutes
  <2> HIDE DEF s
  <2>5. Lives(cur, inst, s)
    BY <2>2, <2>3, <2>4 DEF Lives
  <2> QED
    BY <1>0, <2>1, <2>2, <2>3, <2>5, StageSteps
<1>7. ASSUME NEW phase \in {"Success", "Failure"}, WriteStatus(phase), pc # "idle",
             UNCHANGED <<dep, svc, table, tableSeen>>
      PROVE  Abstract!Next
  <2> DEFINE s == [inst EXCEPT !.status = Reported(phase)]
  <2>1. inst \in Resource /\ cur \in Microservice /\ inst # None
    BY <1>0, <1>7
  <2>2. cr[cur] = inst /\ cr' = [cr EXCEPT ![cur] = s]
    BY <1>0, <1>7, <2>1 DEF WriteStatus
  <2>3. Reported(phase) \in [routing : Routing, phase : {"none", "Success", "Failure"}]
    BY <2>1, ResourceFacts DEF Reported
  <2>4. s \in Resource
    BY <2>1, <2>3 DEF Resource
  <2>5. s.del = inst.del /\ Registered(s) = Registered(inst)
    BY <2>1 DEF Resource, Registered
  <2> HIDE DEF s
  <2>6. Lives(cur, inst, s)
    BY <2>1, <2>4, <2>5, NoneAssumption DEF Lives
  <2> QED
    BY <1>0, <1>7, <2>1, <2>2, <2>4, <2>6, StageSteps
<1>8. CASE ReportSuccess \/ ReportFailure
  BY <1>7, <1>8 DEF ReportSuccess, ReportFailure
<1> QED
  BY <1>1, <1>2, <1>3, <1>4, <1>5, <1>6, <1>8
     DEF Next, Reconcile, Dequeue, Finalize, Lookup, CreateDeployment, CreateService, CreateRouter,
         CallLoadBalancer, UpdateDeployment, DeleteService, RemoveRouter, RecreateService,
         RecreateRouter, User, Collect, SyncResource, SyncDeployment, SyncService, SyncTable,
         Crash, server, vars

\* The stored configuration is only replaced by the worker, and the copy of it
\* only by the stored one.
LEMMA TableSteps ==
  ASSUME TypeOK, [Next]_vars
  PROVE  /\ \/ table' = table
            \/ pc # "idle" /\ table' = DropRoutes(tableSeen, cur.ns, cur.name)
            \/ pc \in Applying /\ table' = AddRoutes(tableSeen, cur.ns, cur.name, Routers(inst))
         /\ tableSeen' \in {tableSeen, table'}
<1> USE DEF informers, server, job, operator
<1>1. CASE CreateRouter \/ RecreateRouter
  BY <1>1 DEF CreateRouter, RecreateRouter, CallLoadBalancer, Applying, Place
<1>2. CASE Finalize \/ RemoveRouter
  BY <1>2 DEF Finalize, RemoveRouter, CallLoadBalancer
<1>3. CASE Reconcile /\ ~(CreateRouter \/ RecreateRouter \/ Finalize \/ RemoveRouter)
  BY <1>3 DEF Reconcile, Dequeue, AddFinalizer, DropFinalizer, Lookup, CreateDeployment,
     CreateService, UpdateDeployment, DeleteService, RecreateService, ReportSuccess, ReportFailure,
     Restart
<1>4. CASE ~Reconcile
  BY <1>4 DEF Next, User, Create, Edit, Delete, Collect, Release, SyncResource, SyncDeployment,
              SyncService, SyncTable, Crash, Restart, vars
<1> QED
  BY <1>1, <1>2, <1>3, <1>4

\* A microservice has routes that it had before, that the copy has, or that the
\* worker makes of the instance at hand.
LEMMA RoutesComeFrom ==
  ASSUME TypeOK, [Next]_vars, NEW m \in Microservice, HasRoutes(table', m)
  PROVE  HasRoutes(table, m) \/ HasRoutes(tableSeen, m) \/ (pc \in Applying /\ cur = m)
<1>1. CASE table' = table
  BY <1>1
<1>2. CASE table' = DropRoutes(tableSeen, cur.ns, cur.name)
  <2>1. table'.services \subseteq tableSeen.services
    BY <1>2 DEF DropRoutes
  <2> QED
    BY <2>1 DEF HasRoutes, OwnKeys
<1>3. CASE pc \in Applying /\ table' = AddRoutes(tableSeen, cur.ns, cur.name, Routers(inst))
  <2>1. table'.services = tableSeen.services \union KeysFor(cur.ns, cur.name, DOMAIN Routers(inst))
    BY <1>3 DEF AddRoutes
  <2>2. PICK k \in table'.services : IsOwn(k, m.ns, m.name)
    BY DEF HasRoutes, OwnKeys
  <2>3. CASE k \in tableSeen.services
    BY <2>2, <2>3 DEF HasRoutes, OwnKeys
  <2>4. CASE k \in KeysFor(cur.ns, cur.name, DOMAIN Routers(inst))
    <3>1. k.ns = cur.ns /\ k.name = cur.name
      BY <2>4 DEF KeysFor
    <3>2. m \in [ns : Namespace, name : Name] /\ cur \in [ns : Namespace, name : Name]
      BY <1>3, MicroserviceAssumption DEF TypeOK, JobTyped, Applying
    <3>3. m.ns = cur.ns /\ m.name = cur.name
      BY <2>2, <3>1 DEF IsOwn
    <3>4. m = [ns |-> m.ns, name |-> m.name] /\ cur = [ns |-> cur.ns, name |-> cur.name]
      BY <3>2
    <3> QED
      BY <1>3, <3>3, <3>4
  <2> QED
    BY <2>1, <2>3, <2>4
<1> QED
  BY <1>1, <1>2, <1>3, TableSteps

\* What a step makes for a microservice, it may make.
LEMMA ThingsFacts ==
  ASSUME IInv, [Next]_vars, NEW m \in Microservice
  PROVE  ThingsOf(m)' \subseteq ThingsOf(m) \union Abstract!Obtainable(m)
<1>0. TypeOK
  BY DEF IInv
<1>1. AbstractLife[m] = Stage(cr[m]) /\ AbstractRemembered[m] = HasRoutes(tableSeen, m)
  BY DEF AbstractLife, AbstractRemembered
<1>2. ThingsOf(m)' = (IF dep'[m] # None THEN {"deployment"} ELSE {})
                       \union (IF svc'[m] # None THEN {"service"} ELSE {})
                       \union (IF HasRoutes(table', m) THEN {"routes"} ELSE {})
  BY DEF ThingsOf, HasRoutes, OwnKeys
<1>3. ThingsOf(m)' \subseteq Abstract!Object
  BY <1>2 DEF Abstract!Object
<1>4. CASE pc \in Applying /\ cur = m
  <2>1. cr[m] \in Resource /\ Registered(cr[m]) /\ cr[m] # None /\ cr[m].del \in BOOLEAN
    BY <1>4, AppliedFacts, ResourceFacts
  <2>2. Stage(cr[m]) \in {"kept", "leaving"}
    BY <2>1, StageFacts
  <2> QED
    BY <1>1, <1>3, <2>2 DEF Abstract!Obtainable
<1>5. CASE ~(pc \in Applying /\ cur = m)
  <2>1. ~Made(m)
    BY <1>0, <1>5, MadeSteps
  <2>2. /\ dep'[m] # None => dep[m] # None
        /\ svc'[m] # None => svc[m] # None
    BY <2>1 DEF Made
  <2>3. HasRoutes(table', m) => HasRoutes(table, m) \/ HasRoutes(tableSeen, m)
    BY <1>0, <1>5, RoutesComeFrom
  <2> QED
    BY <1>1, <1>2, <2>2, <2>3 DEF ThingsOf, Abstract!Obtainable
<1> QED
  BY <1>4, <1>5

\* A step that leaves all resources alone is a step of the things.
LEMMA ThingsSteps ==
  ASSUME IInv, [Next]_vars, cr' = cr
  PROVE  Abstract!Next
<1>0. TypeOK
  BY DEF IInv
<1>1. UNCHANGED <<AbstractLife, AbstractRouted>>
  BY DEF AbstractLife, AbstractRouted, Stage, Registered, HasService
<1>2. AbstractObjects' = [m \in Microservice |-> ThingsOf(m)']
  BY DEF AbstractObjects, ThingsOf, HasRoutes, OwnKeys
<1>3. AbstractRemembered' = [m \in Microservice |-> HasRoutes(tableSeen', m)]
  BY DEF AbstractRemembered, HasRoutes, OwnKeys
<1>4. AbstractObjects' \in [Microservice -> SUBSET Abstract!Object]
  <2>1. \A m \in Microservice : ThingsOf(m)' \subseteq Abstract!Object
    BY DEF ThingsOf, Abstract!Object
  <2> QED
    BY <1>2, <2>1
<1>5. \A m \in Microservice :
        AbstractObjects'[m] \subseteq AbstractObjects[m] \union Abstract!Obtainable(m)
  BY <1>2, ThingsFacts DEF AbstractObjects
<1>6. AbstractRemembered' \in [Microservice -> BOOLEAN]
  BY <1>3 DEF HasRoutes
<1>7. ASSUME NEW m \in Microservice, AbstractRemembered'[m]
      PROVE  AbstractRemembered[m] \/ "routes" \in AbstractObjects'[m]
  <2>1. HasRoutes(tableSeen', m)
    BY <1>3, <1>7
  <2>2. CASE tableSeen' = tableSeen
    BY <2>1, <2>2 DEF AbstractRemembered
  <2>3. CASE tableSeen' = table'
    <3>1. HasRoutes(table', m)
      BY <2>1, <2>3
    <3>2. "routes" \in ThingsOf(m)'
      BY <3>1 DEF ThingsOf, HasRoutes, OwnKeys
    <3> QED
      BY <1>2, <3>2
  <2> QED
    BY <1>0, <2>2, <2>3, TableSteps
<1>8. Abstract!Change
  BY <1>1, <1>4, <1>5, <1>6, <1>7 DEF Abstract!Change
<1> QED
  BY <1>8 DEF Abstract!Next

\* The reconciler implements Lifecycle: whatever fails, is out of date or is
\* interrupted, things are made between the coming and the going of the
\* finalizer only, and it goes after the routes.
THEOREM Implementation == Spec => ImplementsLifecycle
<1>1. IInv /\ [Next]_vars => [Abstract!Next]_(Abstract!vars)
  BY LifeSteps, ThingsSteps
<1> QED
  BY <1>1, InitLifecycle, Invariance, PTL DEF Spec, ImplementsLifecycle, Abstract!Spec
=============================================================================
