------------------------ MODULE ReconcilerRestProofs ------------------------
(***************************************************************************)
(* Proofs about Reconciler: that success is recorded only of a spec whose  *)
(* Deployment stands, and that no wakeup is lost, so that an operator at   *)
(* rest has nothing left to do; for any number of microservices, specs,    *)
(* edits, failures and crashes.                                            *)
(***************************************************************************)
EXTENDS ReconcilerProofs

-----------------------------------------------------------------------------
(* The inductive invariant *)

\* How a resource r differs from an older copy c of the same incarnation: its
\* generation has grown or its spec is the same, a deletion is not taken back,
\* and its finalizers grow before the deletion and shrink after it.
Ages(c, r) ==
  c # None /\ r # None /\ c.uid = r.uid =>
    /\ c.gen <= r.gen /\ (c.gen = r.gen => c.wish = r.wish)
    /\ c.del => r.del /\ r.fin \subseteq c.fin
    /\ ~r.del => c.fin \subseteq r.fin

Aging == \A m \in Microservice : Ages(crSeen[m], cr[m])

\* Two copies with the same spec.
SameSpec(i, j) == i.uid = j.uid /\ i.gen = j.gen /\ i.del = j.del /\ i.wish = j.wish

\* The instance at hand is as the informer shows it, or its request has been
\* queued again.
InstanceCurrent ==
  pc # "idle" => cur \in queue \/ (crSeen[cur] # None /\ SameSpec(inst, crSeen[cur]))

\* The places the worker reaches only over the Deployment, if it is replaced on
\* every reconcile.
Deployed == Applying \ {"lookup", "createDeployment", "updateDeployment", "failure"}

DeploymentStands ==
  pc \in Deployed /\ Replaced(inst) => cr[cur].del \/ dep[cur] = Deployment(inst)

\* What RestIsDone asks of a microservice.
Finished(m) ==
  /\ Registered(cr[m]) <=> ~cr[m].del
  /\ Replaced(cr[m]) /\ ~cr[m].del => dep[m] = Deployment(cr[m])

\* The worker will come to the microservice, or is at it.
Awaited(m) == m \in queue \/ Pending(m)

AtWork(m) == pc # "idle" /\ cur = m

NoLostWakeup ==
  \A m \in Microservice : cr[m] # None => Awaited(m) \/ AtWork(m) \/ Finished(m)

RestInv == IInv /\ Aging /\ InstanceCurrent /\ DeploymentStands /\ NoLostWakeup

-----------------------------------------------------------------------------
(* How copies age *)

LEMMA AgesSelf == ASSUME NEW r \in Resource \union {None} PROVE Ages(r, r)
  BY ResourceFacts DEF Ages

LEMMA AgesOn ==
  ASSUME NEW c \in Resource \union {None}, NEW r \in Resource, NEW s \in Resource \union {None},
         Ages(c, r), Ages(r, s), s # None => s.uid = r.uid
  PROVE  Ages(c, s)
<1> SUFFICES ASSUME c # None, s # None, c.uid = s.uid PROVE Ages(c, s)
  BY DEF Ages
<1>1. r # None /\ c.uid = r.uid /\ r.uid = s.uid
  BY NoneAssumption
<1>2. c.gen \in Nat /\ r.gen \in Nat /\ s.gen \in Nat
  BY ResourceFacts
<1>3. /\ c.gen <= r.gen /\ r.gen <= s.gen
      /\ c.gen = r.gen => c.wish = r.wish
      /\ r.gen = s.gen => r.wish = s.wish
      /\ c.del => r.del /\ r.fin \subseteq c.fin
      /\ r.del => s.del /\ s.fin \subseteq r.fin
      /\ ~r.del => c.fin \subseteq r.fin
      /\ ~s.del => r.fin \subseteq s.fin
  BY <1>1 DEF Ages
<1>4. c.gen <= s.gen /\ (c.gen = s.gen => c.wish = s.wish)
  BY <1>2, <1>3
<1>5. c.del => s.del /\ s.fin \subseteq c.fin
  BY <1>3
<1>6. ~s.del => c.fin \subseteq s.fin
  BY <1>3
<1> QED
  BY <1>4, <1>5, <1>6 DEF Ages

\* A copy that differs from a resource so that the predicate lets the event
\* pass differs from what becomes of the resource, and so does one that was
\* like it before such a change: the informer is never brought back to what it
\* has shown.
LEMMA PassesOn ==
  ASSUME NEW c \in Resource \union {None}, NEW r \in Resource \union {None}, NEW s \in Resource,
         NEW made \in Nat,
         Ages(c, r), Ages(r, s), c # None => c.uid <= made,
         IF r = None THEN s.uid = made + 1 ELSE s.uid = r.uid,
         Passes(c, r) \/ Passes(r, s)
  PROVE  Passes(c, s)
<1>0. s # None
  BY NoneAssumption
<1>1. CASE c = None
  BY <1>1 DEF Passes
<1>2. CASE c # None /\ r = None
  <2>1. c.uid \in Nat /\ c.uid # s.uid
    BY <1>2, ResourceFacts
  <2> QED
    BY <2>1 DEF Passes
<1>3. CASE c # None /\ r # None
  <2> SUFFICES ASSUME ~Passes(c, s) PROVE FALSE
    OBVIOUS
  <2>1. c.uid = s.uid /\ c.gen = s.gen /\ c.del = s.del /\ c.fin = s.fin
    BY <1>0, <1>3 DEF Passes
  <2>2. c.uid = r.uid /\ r.uid = s.uid
    BY <1>3, <2>1
  <2>3. /\ c.gen \in Nat /\ r.gen \in Nat /\ s.gen \in Nat
        /\ c.del \in BOOLEAN /\ r.del \in BOOLEAN /\ s.del \in BOOLEAN
    BY <1>3, ResourceFacts
  <2>4. c.gen <= r.gen /\ r.gen <= s.gen
    BY <1>0, <1>3, <2>2 DEF Ages
  <2>5. r.gen = c.gen
    BY <2>1, <2>3, <2>4
  <2>6. (c.del => r.del) /\ (r.del => s.del)
    BY <1>0, <1>3, <2>2 DEF Ages
  <2>7. r.del = c.del
    BY <2>1, <2>3, <2>6
  <2>8. CASE c.del
    <3>1. r.fin \subseteq c.fin /\ s.fin \subseteq r.fin
      BY <1>0, <1>3, <2>2, <2>7, <2>8 DEF Ages
    <3>2. r.fin = c.fin
      BY <2>1, <3>1
    <3> QED
      BY <1>0, <1>3, <2>1, <2>2, <2>5, <2>7, <3>2 DEF Passes
  <2>9. CASE ~c.del
    <3>1. c.fin \subseteq r.fin /\ r.fin \subseteq s.fin
      BY <1>0, <1>3, <2>1, <2>2, <2>7, <2>9 DEF Ages
    <3>2. r.fin = c.fin
      BY <2>1, <3>1
    <3> QED
      BY <1>0, <1>3, <2>1, <2>2, <2>5, <2>7, <3>2 DEF Passes
  <2> QED
    BY <2>8, <2>9
<1> QED
  BY <1>1, <1>2, <1>3

\* What the predicate does not let pass is a change of the status.
LEMMA NotPassing ==
  ASSUME NEW c, NEW r, ~Passes(c, r), Ages(c, r)
  PROVE  c # None /\ r # None /\ SameSpec(c, r) /\ c.fin = r.fin
  BY DEF Passes, Ages, SameSpec

LEMMA SpecFacts ==
  ASSUME NEW i, NEW j, SameSpec(i, j)
  PROVE  /\ Deployment(i) = Deployment(j) /\ SameSpec(j, i)
         /\ Replaced(i) <=> Replaced(j)
  BY DEF SameSpec, Deployment, Replaced

\* Of a resource that is there, an event on its way is one that passes: nothing
\* differs from itself.
LEMMA PendingFacts ==
  ASSUME NEW m \in Microservice, cr[m] # None
  PROVE  Pending(m) <=> Passes(crSeen[m], cr[m])
  BY DEF Pending, Passes

\* A deleted resource ages as its finalizers go.
LEMMA Lessened ==
  ASSUME NEW r \in Resource, NEW s,
         s # None => s.gen = r.gen /\ s.wish = r.wish /\ s.del /\ s.fin \subseteq r.fin
  PROVE  Ages(r, s)
<1>1. r.gen <= r.gen
  BY ResourceFacts, BoundsAssumption
<1> QED
  BY <1>1 DEF Ages

\* Every step lets a resource age.
LEMMA StepAges ==
  ASSUME TypeOK, Counted, InstanceFits, [Next]_vars, NEW m \in Microservice
  PROVE  Ages(cr[m], cr'[m])
<1>0. /\ cr \in [Microservice -> Resource \union {None}]
      /\ pc # "idle" => cur \in Microservice /\ inst \in Resource
  BY DEF TypeOK, ServerTyped, JobTyped
<1>1. ASSUME cr'[m] = cr[m] PROVE Ages(cr[m], cr'[m])
  BY <1>0, <1>1, AgesSelf
<1>2. ASSUME NEW s, pc # "idle", cr' = [cr EXCEPT ![cur] = s] \/ cr' = cr, cr[cur] = inst,
             Ages(inst, s)
      PROVE  Ages(cr[m], cr'[m])
  BY <1>0, <1>1, <1>2
<1>3. CASE AddFinalizer
  <2> DEFINE s == [inst EXCEPT !.fin = @ \union {"router"}]
  <2>1. inst \in Resource /\ ~inst.del
    BY <1>0, <1>3 DEF AddFinalizer, InstanceFits, Finalizing
  <2>2. s.gen = inst.gen /\ s.wish = inst.wish /\ s.del = inst.del /\ inst.fin \subseteq s.fin
    BY <2>1 DEF Resource
  <2>3. cr' = cr \/ (cr[cur] = inst /\ cr' = [cr EXCEPT ![cur] = s])
    BY <1>3 DEF AddFinalizer
  <2>4. Ages(inst, s)
    BY <2>1, <2>2, ResourceFacts DEF Ages
  <2> HIDE DEF s
  <2> QED
    BY <1>1, <1>2, <1>3, <2>3, <2>4 DEF AddFinalizer
<1>4. CASE DropFinalizer
  <2> DEFINE s == Without(inst, "router")
  <2>1. inst \in Resource /\ inst.del
    BY <1>0, <1>4 DEF DropFinalizer, InstanceFits, Finalizing
  <2>2. s # None => s.gen = inst.gen /\ s.wish = inst.wish /\ s.del /\ s.fin \subseteq inst.fin
    BY <2>1, WithoutFacts DEF Finalizer
  <2>3. cr' = cr \/ (cr[cur] = inst /\ cr' = [cr EXCEPT ![cur] = s])
    BY <1>4 DEF DropFinalizer
  <2> HIDE DEF s
  <2>4. Ages(inst, s)
    BY <2>1, <2>2, Lessened
  <2> QED
    BY <1>1, <1>2, <1>4, <2>3, <2>4 DEF DropFinalizer
<1>5. CASE ReportSuccess \/ ReportFailure
  <2>1. PICK phase \in {"Success", "Failure"} : WriteStatus(phase)
    BY <1>5 DEF ReportSuccess, ReportFailure
  <2> DEFINE s == [inst EXCEPT !.status = Reported(phase)]
  <2>2. pc # "idle" /\ inst \in Resource
    BY <1>0, <1>5 DEF ReportSuccess, ReportFailure
  <2>3. s.gen = inst.gen /\ s.wish = inst.wish /\ s.del = inst.del /\ s.fin = inst.fin
    BY <2>2 DEF Resource
  <2>4. cr' = cr \/ (cr[cur] = inst /\ cr' = [cr EXCEPT ![cur] = s])
    BY <1>0, <2>1, <2>2 DEF WriteStatus
  <2> HIDE DEF s
  <2>5. Ages(inst, s)
    BY <2>2, <2>3, ResourceFacts DEF Ages
  <2> QED
    BY <1>1, <1>2, <2>2, <2>4, <2>5
<1>6. ASSUME NEW n \in Microservice, NEW w \in Wishes, Create(n, w) PROVE Ages(cr[m], cr'[m])
  <2>1. CASE m = n
    BY <1>6, <2>1, CreatedFacts DEF Ages
  <2>2. CASE m # n
    BY <1>0, <1>1, <1>6, <2>2, CreatedFacts
  <2> QED
    BY <2>1, <2>2
<1>7. ASSUME NEW n \in Microservice, NEW w \in Wishes, Edit(n, w) PROVE Ages(cr[m], cr'[m])
  <2>1. CASE m = n
    BY <1>7, <2>1, EditedFacts, ResourceFacts DEF Ages
  <2>2. CASE m # n
    BY <1>0, <1>1, <1>7, <2>2, EditedFacts
  <2> QED
    BY <2>1, <2>2
<1>8. ASSUME NEW n \in Microservice, NEW added \in SUBSET {"foreground"}, Delete(n, added)
      PROVE  Ages(cr[m], cr'[m])
  <2>1. CASE m = n
    BY <1>8, <2>1, DeletedFacts, ResourceFacts DEF Ages
  <2>2. CASE m # n
    BY <1>0, <1>1, <1>8, <2>2, DeletedFacts
  <2> QED
    BY <2>1, <2>2
<1>9. ASSUME NEW n \in Microservice, Release(n) PROVE Ages(cr[m], cr'[m])
  <2>1. CASE m = n
    <3>1. cr[m] \in Resource /\ cr[m].del /\ cr'[m] = Without(cr[m], "foreground")
      BY <1>0, <1>9, <2>1 DEF Release, Foreground
    <3> DEFINE s == Without(cr[m], "foreground")
    <3>2. s # None => s.gen = cr[m].gen /\ s.wish = cr[m].wish /\ s.del
                      /\ s.fin \subseteq cr[m].fin
      BY <3>1, WithoutFacts DEF Finalizer
    <3> HIDE DEF s
    <3>3. Ages(cr[m], s)
      BY <3>1, <3>2, Lessened
    <3> QED
      BY <3>1, <3>3 DEF s
  <2>2. CASE m # n
    BY <1>0, <1>1, <1>9, <2>2, ReleasedFacts
  <2> QED
    BY <2>1, <2>2
<1>10. ASSUME cr' = cr PROVE Ages(cr[m], cr'[m])
  BY <1>1, <1>10
<1>11. CASE UNCHANGED cr
  BY <1>10, <1>11
<1> QED
  BY <1>3, <1>4, <1>5, <1>6, <1>7, <1>8, <1>9, <1>11
     DEF Next, Reconcile, Dequeue, Finalize, Lookup, CreateDeployment, CreateService, CreateRouter,
         CallLoadBalancer, UpdateDeployment, DeleteService, RemoveRouter, RecreateService,
         RecreateRouter, User, Collect, SyncResource, SyncDeployment, SyncService, SyncTable,
         Crash, server, vars

\* A resource keeps its uid as long as it is there, and a new one has a new uid.
LEMMA UidSteps ==
  ASSUME TypeOK, Counted, InstanceFits, [Next]_vars, NEW m \in Microservice, cr'[m] # None
  PROVE  IF cr[m] = None THEN cr'[m].uid = uids + 1 ELSE cr'[m].uid = cr[m].uid
<1>1. CASE Follows(cr[m], cr'[m], uids)
  BY <1>1 DEF Follows
<1>2. CASE Dropped(m)
  <2>1. inst \in Resource /\ cr[m] = inst /\ cr'[m] = Without(inst, "router")
    BY <1>2 DEF Dropped, TypeOK, JobTyped
  <2>2. cr[m] # None /\ cr'[m].uid = cr[m].uid
    BY <2>1, WithoutFacts, NoneAssumption DEF Finalizer
  <2> QED
    BY <2>2
<1>3. Changes(m)
  BY StepChanges
<1> QED
  BY <1>1, <1>2, <1>3 DEF Changes

LEMMA AgingNext ==
  ASSUME IInv, Aging, [Next]_vars, TypeOK'
  PROVE  Aging'
<1> SUFFICES ASSUME NEW m \in Microservice PROVE Ages(crSeen'[m], cr'[m])
  BY DEF Aging, Ages
<1>0. /\ TypeOK /\ Counted /\ InstanceFits
      /\ crSeen[m] \in Resource \union {None} /\ cr[m] \in Resource \union {None}
      /\ cr'[m] \in Resource \union {None}
  BY DEF IInv, TypeOK, ServerTyped, InformersTyped
<1>1. CASE crSeen'[m] = cr'[m]
  BY <1>0, <1>1, AgesSelf
<1>2. CASE crSeen'[m] = crSeen[m] /\ cr[m] = None /\ cr'[m] # None
  <2>1. cr'[m].uid = uids + 1
    BY <1>0, <1>2, UidSteps
  <2>2. crSeen[m] # None => crSeen[m].uid \in Nat /\ crSeen[m].uid <= uids
    BY <1>0, ResourceFacts DEF IInv, CopiesReflect, Reflects
  <2>3. uids \in Nat
    BY <1>0, BoundsAssumption DEF TypeOK, Counting
  <2> QED
    BY <1>2, <2>1, <2>2, <2>3 DEF Ages
<1>3. CASE crSeen'[m] = crSeen[m] /\ cr[m] # None
  <2>1. Ages(crSeen[m], cr[m]) /\ Ages(cr[m], cr'[m])
    BY <1>0, StepAges DEF Aging
  <2>2. cr'[m] # None => cr'[m].uid = cr[m].uid
    BY <1>0, <1>3, UidSteps
  <2> QED
    BY <1>0, <1>3, <2>1, <2>2, AgesOn
<1>4. CASE cr'[m] = None
  BY <1>4 DEF Ages
<1> QED
  BY <1>0, <1>1, <1>2, <1>3, <1>4, CopySteps

-----------------------------------------------------------------------------
(* The queue, the informer and the worker *)

\* A request leaves the queue when the worker takes it.
LEMMA QueueSteps ==
  ASSUME TypeOK, [Next]_vars, NEW m \in Microservice, m \in queue, m \notin queue'
  PROVE  Dequeue(m) \/ Restart
<1> USE DEF Retry, informers, server, job, operator
<1>1. ASSUME NEW n \in Microservice, Dequeue(n) PROVE Dequeue(m)
  BY <1>1 DEF Dequeue
<1>2. CASE Reconcile /\ ~\E n \in Microservice : Dequeue(n)
  BY <1>2 DEF Reconcile, AddFinalizer, Finalize, DropFinalizer, Lookup, CreateDeployment,
     CreateService, CreateRouter, CallLoadBalancer, UpdateDeployment, DeleteService, RemoveRouter,
     RecreateService, RecreateRouter, ReportSuccess, ReportFailure
<1>3. CASE ~Reconcile
  BY <1>3 DEF Next, User, Create, Edit, Delete, Collect, Release, SyncResource, SyncDeployment,
              SyncService, SyncTable, Crash, vars
<1> QED
  BY <1>1, <1>2, <1>3

\* What the informer shows of a resource changes when it catches up.
LEMMA SeenSteps ==
  ASSUME TypeOK, [Next]_vars, NEW m \in Microservice
  PROVE  crSeen'[m] = crSeen[m] \/ Restart \/ SyncResource(m)
<1> USE DEF informers, server, job, operator
<1>1. ASSUME NEW n \in Microservice, SyncResource(n) PROVE crSeen'[m] = crSeen[m] \/ SyncResource(m)
  BY <1>1 DEF SyncResource, TypeOK, InformersTyped
<1>2. CASE Reconcile
  BY <1>2 DEF Reconcile, Dequeue, AddFinalizer, Finalize, DropFinalizer, Lookup, CreateDeployment,
     CreateService, CreateRouter, CallLoadBalancer, UpdateDeployment, DeleteService, RemoveRouter,
     RecreateService, RecreateRouter, ReportSuccess, ReportFailure
<1>3. CASE ~Reconcile /\ ~\E n \in Microservice : SyncResource(n)
  BY <1>3 DEF Next, User, Create, Edit, Delete, Collect, Release, SyncDeployment,
              SyncService, SyncTable, Crash, vars
<1> QED
  BY <1>1, <1>2, <1>3

\* A Deployment that counts as changed on every reconcile is made or updated.
LEMMA LookupSteps ==
  ASSUME Lookup, Replaced(inst)
  PROVE  pc' \in {"createDeployment", "updateDeployment"} /\ UNCHANGED <<cur, inst>>
<1>1. CASE depSeen[cur] = None
  BY <1>1 DEF Lookup, Go
<1>2. CASE depSeen[cur] # None
  <2>1. DeploymentChanged(inst, depSeen[cur]) = {TRUE}
    BY DEF DeploymentChanged
  <2>2. Go("updateDeployment")
    BY <1>2, <2>1 DEF Lookup
  <2> QED
    BY <2>2 DEF Go
<1> QED
  BY <1>1, <1>2

\* A job ends with the process, with its request in the queue again, with the
\* microservice let go of, with nothing to change, or with success.
LEMMA JobEnds ==
  ASSUME TypeOK, [Next]_vars, pc # "idle", pc' = "idle"
  PROVE  \/ Restart \/ cur \in queue' \/ Dropped(cur) \/ ReportSuccess
         \/ pc = "lookup" /\ ~Replaced(inst)
<1> USE DEF Done, Go, Retry, informers, server, job, operator
<1>0. cur \in Microservice /\ cr \in [Microservice -> Resource \union {None}]
  BY DEF TypeOK, JobTyped, ServerTyped
<1>1. CASE DropFinalizer
  BY <1>0, <1>1 DEF DropFinalizer, Dropped
<1>2. CASE Lookup
  BY <1>2, LookupSteps DEF Lookup
<1>3. CASE AddFinalizer \/ Finalize \/ CreateDeployment \/ CreateService \/ ReportFailure
  BY <1>3 DEF AddFinalizer, Finalize, CreateDeployment, CreateService, ReportFailure
<1>4. CASE CreateRouter \/ RemoveRouter \/ RecreateRouter
  BY <1>4 DEF CreateRouter, RemoveRouter, RecreateRouter, CallLoadBalancer
<1>5. CASE UpdateDeployment \/ DeleteService \/ RecreateService
  BY <1>5 DEF UpdateDeployment, DeleteService, RecreateService
<1>6. CASE \E m \in Microservice : Dequeue(m)
  BY <1>6 DEF Dequeue
<1>7. CASE Crash
  BY <1>7 DEF Crash
<1>8. CASE ~Reconcile /\ ~Crash
  BY <1>8 DEF Next, User, Create, Edit, Delete, Collect, Release, SyncResource, SyncDeployment,
              SyncService, SyncTable, vars
<1> QED
  BY <1>1, <1>2, <1>3, <1>4, <1>5, <1>6, <1>7, <1>8 DEF Reconcile

\* The Deployment of a microservice changes when the worker writes it and goes
\* on, or when the garbage collector takes it.
LEMMA DeploymentSteps ==
  ASSUME TypeOK, [Next]_vars, NEW m \in Microservice
  PROVE  \/ dep'[m] = dep[m] \/ Condemned(m, dep[m])
         \/ pc \in {"createDeployment", "updateDeployment"} /\ pc' # "idle" /\ cur' = m
<1> USE DEF Go, informers, server, job, operator
<1>0. /\ pc # "idle" => cur \in Microservice
      /\ dep \in [Microservice -> DeploymentOf \union {None}]
  BY DEF TypeOK, JobTyped, ServerTyped
<1>1. CASE CreateDeployment \/ UpdateDeployment
  BY <1>0, <1>1 DEF CreateDeployment, UpdateDeployment
<1>2. ASSUME NEW n \in Microservice, Collect(n) PROVE dep'[m] = dep[m] \/ Condemned(m, dep[m])
  BY <1>0, <1>2 DEF Collect
<1>3. CASE Reconcile /\ ~CreateDeployment /\ ~UpdateDeployment
  BY <1>3 DEF Reconcile, Dequeue, AddFinalizer, Finalize, DropFinalizer, Lookup,
     CreateService, CreateRouter, CallLoadBalancer, DeleteService, RemoveRouter,
     RecreateService, RecreateRouter, ReportSuccess, ReportFailure
<1>4. CASE ~Reconcile /\ ~\E n \in Microservice : Collect(n)
  BY <1>4 DEF Next, User, Create, Edit, Delete, Release, SyncResource, SyncDeployment,
              SyncService, SyncTable, Crash, vars
<1> QED
  BY <1>1, <1>2, <1>3, <1>4

\* The worker comes past a Deployment that counts as changed by writing it.
LEMMA DeployedSteps ==
  ASSUME TypeOK, [Next]_vars, Replaced(inst'), pc' \in Deployed
  PROVE  \/ dep'[cur'] = Deployment(inst')
         \/ /\ pc \in Deployed /\ UNCHANGED <<cur, inst>>
            /\ dep'[cur] = dep[cur] \/ Condemned(cur, dep[cur])
<1> USE DEF Done, Go, Retry, Restart, Deployed, Applying, Place, informers, server, job, operator
<1>0. /\ pc # "idle" => cur \in Microservice
      /\ dep \in [Microservice -> DeploymentOf \union {None}]
  BY DEF TypeOK, JobTyped, ServerTyped
<1>1. CASE CreateDeployment \/ UpdateDeployment
  BY <1>0, <1>1 DEF CreateDeployment, UpdateDeployment
<1>2. CASE CreateService \/ CreateRouter \/ RemoveRouter \/ RecreateRouter
  BY <1>2 DEF CreateService, CreateRouter, RemoveRouter, RecreateRouter, CallLoadBalancer
<1>3. CASE DeleteService \/ RecreateService \/ ReportSuccess \/ ReportFailure
  BY <1>3 DEF DeleteService, RecreateService, ReportSuccess, ReportFailure
<1>4. CASE Lookup
  <2>1. Replaced(inst)
    BY <1>4 DEF Lookup
  <2> QED
    BY <1>4, <2>1, LookupSteps
<1>5. CASE AddFinalizer \/ Finalize \/ DropFinalizer \/ (\E m \in Microservice : Dequeue(m))
  BY <1>5 DEF AddFinalizer, Finalize, DropFinalizer, Dequeue
<1>6. ASSUME NEW n \in Microservice, Collect(n), pc \in Deployed
      PROVE  UNCHANGED <<cur, inst>> /\ (dep'[cur] = dep[cur] \/ Condemned(cur, dep[cur]))
  <2>1. UNCHANGED <<cur, inst>> /\ cur \in Microservice
    BY <1>0, <1>6 DEF Collect
  <2>2. n # cur => dep'[cur] = dep[cur]
    BY <1>0, <1>6, <2>1 DEF Collect
  <2>3. n = cur => dep'[cur] = dep[cur] \/ Condemned(cur, dep[cur])
    BY <1>6 DEF Collect
  <2> QED
    BY <2>1, <2>2, <2>3
<1>7. ASSUME NEW n \in Microservice, Collect(n) PROVE pc' = pc
  BY <1>7 DEF Collect
<1>8. CASE ~Reconcile /\ ~\E n \in Microservice : Collect(n)
  BY <1>8 DEF Next, User, Create, Edit, Delete, Release, SyncResource, SyncDeployment,
              SyncService, SyncTable, Crash, vars
<1> QED
  BY <1>1, <1>2, <1>3, <1>4, <1>5, <1>6, <1>7, <1>8 DEF Reconcile

-----------------------------------------------------------------------------
(* The invariant, step by step *)

LEMMA InstanceCurrentNext ==
  ASSUME IInv, Aging, InstanceCurrent, [Next]_vars
  PROVE  InstanceCurrent'
<1> SUFFICES ASSUME pc' # "idle", cur' \notin queue'
             PROVE  crSeen'[cur'] # None /\ SameSpec(inst', crSeen'[cur'])
  BY DEF InstanceCurrent, SameSpec
<1>0. /\ TypeOK /\ ~Restart
      /\ pc # "idle" => cur \in Microservice /\ inst \in Resource
  BY DEF IInv, TypeOK, JobTyped, Restart, Done
<1>1. ASSUME NEW n \in Microservice, Dequeue(n)
      PROVE  crSeen'[cur'] # None /\ SameSpec(inst', crSeen'[cur'])
  BY <1>1 DEF Dequeue, SameSpec, job, informers
<1>2. CASE AddFinalizer /\ pc' = "lookup"
  <2>1. /\ inst' = [inst EXCEPT !.fin = @ \union {"router"}] /\ inst \in Resource
        /\ UNCHANGED <<cur, queue, crSeen>> /\ pc # "idle"
    BY <1>0, <1>2 DEF AddFinalizer, Retry, Done, informers
  <2>2. SameSpec(inst', inst)
    BY <2>1 DEF SameSpec, Resource
  <2> QED
    BY <2>1, <2>2 DEF InstanceCurrent, SameSpec
<1>3. CASE pc # "idle" /\ UNCHANGED <<cur, inst>>
  <2>1. cur \notin queue
    BY <1>0, <1>3, QueueSteps DEF Dequeue
  <2>2. crSeen[cur] # None /\ SameSpec(inst, crSeen[cur])
    BY <1>3, <2>1 DEF InstanceCurrent
  <2>3. CASE crSeen'[cur] = crSeen[cur]
    BY <1>3, <2>2, <2>3
  <2>4. CASE SyncResource(cur)
    <3>1. ~Passes(crSeen[cur], cr[cur]) /\ Ages(crSeen[cur], cr[cur])
      BY <1>0, <1>3, <2>4 DEF SyncResource, Aging
    <3>2. crSeen'[cur] = cr[cur]
      BY <1>0, <1>3, <2>4 DEF SyncResource, TypeOK, InformersTyped
    <3>3. cr[cur] # None /\ SameSpec(crSeen[cur], cr[cur])
      BY <3>1, NotPassing
    <3> QED
      BY <1>3, <2>2, <3>2, <3>3 DEF SameSpec
  <2> QED
    BY <1>0, <1>3, <2>3, <2>4, SeenSteps
<1> QED
  BY <1>0, <1>1, <1>2, <1>3, WorkerSteps

LEMMA DeploymentStandsNext ==
  ASSUME IInv, DeploymentStands, [Next]_vars
  PROVE  DeploymentStands'
<1> SUFFICES ASSUME Replaced(inst'), pc' \in Deployed
             PROVE  cr'[cur'].del \/ dep'[cur'] = Deployment(inst')
  BY DEF DeploymentStands, Deployment, Deployed, Applying, Place, Replaced
<1>1. TypeOK /\ Counted /\ InstanceFits
  BY DEF IInv
<1>2. CASE dep'[cur'] = Deployment(inst')
  BY <1>2
<1>3. CASE /\ pc \in Deployed /\ UNCHANGED <<cur, inst>>
           /\ dep'[cur] = dep[cur] \/ Condemned(cur, dep[cur])
  <2>1. /\ cur \in Microservice /\ inst \in Resource /\ cr[cur] \in Resource
        /\ cr[cur].uid = inst.uid /\ Registered(cr[cur]) /\ cr[cur] # None
    BY <1>3, AppliedFacts, NoneAssumption DEF Deployed
  <2>2. cr[cur].del => cr'[cur].del
    <3>1. Changes(cur)
      BY <1>1, <2>1, StepChanges
    <3>2. pc # "dropFinalizer"
      BY <1>3 DEF Deployed, Applying
    <3> QED
      BY <2>1, <3>1, <3>2 DEF Changes, Dropped, Follows
  <2>3. cr[cur].del \/ dep[cur] = Deployment(inst)
    BY <1>3 DEF DeploymentStands
  <2>4. ASSUME dep[cur] = Deployment(inst), Condemned(cur, dep[cur]) PROVE cr[cur].del
    <3>1. dep[cur] # None /\ dep[cur].owner = inst.uid
      BY <2>1, <2>4, ObjectFacts DEF Deployment
    <3> QED
      BY <2>1, <2>4, <3>1 DEF Condemned, Owned, Foreground
  <2>5. Deployment(inst') = Deployment(inst)
    BY <1>3
  <2> QED
    BY <1>3, <2>2, <2>3, <2>4, <2>5
<1> QED
  BY <1>1, <1>2, <1>3, DeployedSteps

\* What was finished stays so, as long as its spec and finalizers do and the
\* worker is not at it.
LEMMA FinishedOn ==
  ASSUME IInv, [Next]_vars, NEW m \in Microservice, Finished(m), ~(pc' # "idle" /\ cur' = m),
         cr[m] # None, cr'[m] # None, SameSpec(cr[m], cr'[m]), cr[m].fin = cr'[m].fin
  PROVE  Finished(m)'
<1>0. TypeOK /\ cr[m] \in Resource
  BY DEF IInv, TypeOK, ServerTyped
<1>1. (Registered(cr[m]) <=> Registered(cr'[m])) /\ cr[m].del = cr'[m].del
  BY DEF Registered, SameSpec
<1>2. Deployment(cr[m]) = Deployment(cr'[m])
  BY SpecFacts
<1>3. ASSUME Replaced(cr'[m]), ~cr[m].del PROVE dep'[m] = Deployment(cr'[m])
  <2>1. dep[m] = Deployment(cr[m])
    BY <1>3, SpecFacts DEF Finished
  <2>2. dep[m] # None /\ dep[m].owner = cr[m].uid
    BY <1>0, <2>1, ObjectFacts DEF Deployment
  <2>3. ~Condemned(m, dep[m])
    BY <1>3, <2>2 DEF Condemned, Owned, Foreground
  <2> QED
    BY <1>0, <1>2, <2>1, <2>3, DeploymentSteps
<1>4. /\ Registered(cr'[m]) <=> ~cr'[m].del
      /\ Replaced(cr'[m]) /\ ~cr'[m].del => dep'[m] = Deployment(cr'[m])
  BY <1>1, <1>3 DEF Finished
<1> QED
  BY <1>4 DEF Finished, Registered, Deployment, Replaced

LEMMA NoLostWakeupNext ==
  ASSUME RestInv, [Next]_vars, TypeOK'
  PROVE  NoLostWakeup'
<1> SUFFICES ASSUME NEW m \in Microservice, cr'[m] # None, m \notin queue',
                    ~Passes(crSeen'[m], cr'[m]), ~(pc' # "idle" /\ cur' = m)
             PROVE  Finished(m)'
  <2> SUFFICES ASSUME NEW m \in Microservice, cr'[m] # None, ~Awaited(m)', ~AtWork(m)'
               PROVE  Finished(m)'
    BY DEF NoLostWakeup, Awaited, AtWork, Pending, Passes, Finished, Registered, Deployment, Replaced
  <2>1. m \notin queue' /\ ~Passes(crSeen'[m], cr'[m]) /\ ~(pc' # "idle" /\ cur' = m)
    BY DEF Awaited, AtWork, Pending, Passes
  <2> QED
    BY <2>1
<1>0. /\ IInv /\ TypeOK /\ Counted /\ InstanceFits /\ ~Restart
      /\ cr[m] \in Resource \union {None} /\ cr'[m] \in Resource
      /\ crSeen[m] \in Resource \union {None}
      /\ pc # "idle" => cur \in Microservice /\ inst \in Resource
  BY DEF RestInv, IInv, TypeOK, ServerTyped, InformersTyped, JobTyped, Restart
\* The step is no more than a change of the status.
<1>1. ~Passes(crSeen[m], cr[m]) /\ ~Passes(cr[m], cr'[m])
  <2>1. Ages(crSeen[m], cr[m]) /\ Ages(cr[m], cr'[m])
    BY <1>0, StepAges DEF RestInv, Aging
  <2>2. IF cr[m] = None THEN cr'[m].uid = uids + 1 ELSE cr'[m].uid = cr[m].uid
    BY <1>0, UidSteps
  <2>3. (crSeen[m] # None => crSeen[m].uid <= uids) /\ uids \in Nat
    BY <1>0, BoundsAssumption DEF IInv, CopiesReflect, Reflects, TypeOK, Counting
  <2>4. CASE crSeen'[m] = crSeen[m]
    BY <1>0, <2>1, <2>2, <2>3, <2>4, PassesOn
  <2>5. CASE SyncResource(m)
    <3>1. ~Passes(crSeen[m], cr[m]) /\ cr' = cr
      BY <2>5 DEF SyncResource, server
    <3> QED
      BY <3>1 DEF Passes
  <2> QED
    BY <1>0, <2>4, <2>5, SeenSteps
<1>2. /\ cr[m] # None /\ SameSpec(cr[m], cr'[m]) /\ cr[m].fin = cr'[m].fin
      /\ crSeen[m] # None /\ SameSpec(crSeen[m], cr[m]) /\ crSeen[m].fin = cr[m].fin
  <2>1. Ages(crSeen[m], cr[m]) /\ Ages(cr[m], cr'[m])
    BY <1>0, StepAges DEF RestInv, Aging
  <2> QED
    BY <1>1, <2>1, NotPassing
<1>3. CASE Finished(m)
  BY <1>0, <1>2, <1>3, FinishedOn
<1>4. CASE AtWork(m)
  <2>1. pc # "idle" /\ cur = m
    BY <1>4 DEF AtWork
  <2>2. pc' = "idle"
    BY <1>0, <2>1, WorkerSteps DEF AddFinalizer, Retry, Done, Dequeue
  <2>3. m \notin queue
    BY <1>0, <2>1, QueueSteps DEF Dequeue
  <2>4. SameSpec(inst, crSeen[m])
    BY <2>1, <2>3 DEF RestInv, InstanceCurrent
  <2>5. ~Dropped(m)
    <3> SUFFICES ASSUME Dropped(m) PROVE FALSE
      OBVIOUS
    <3>1. inst \in Resource /\ cr[m] = inst /\ cr'[m] = Without(inst, "router") /\ Registered(inst)
      BY <1>0, <2>1 DEF Dropped, InstanceFits
    <3>2. cr'[m].fin = inst.fin \ {"router"}
      BY <3>1, WithoutFacts DEF Finalizer
    <3> QED
      BY <1>2, <3>1, <3>2 DEF Registered
  <2>6. ReportSuccess \/ (pc = "lookup" /\ ~Replaced(inst))
    BY <1>0, <2>1, <2>2, <2>5, JobEnds
  <2>7. pc \in Applying
    BY <2>6 DEF ReportSuccess, Applying, Place
  <2>8. Registered(cr[m]) /\ cr[m] # None
    BY <1>0, <1>2, <2>1, <2>7, AppliedFacts
  <2>9. ~cr[m].del
    BY <1>0, <1>2, <2>1, <2>4, <2>7 DEF InstanceFits, Applying, Finalizing, SameSpec
  <2>10. Deployment(inst) = Deployment(cr[m]) /\ (Replaced(inst) <=> Replaced(cr[m]))
    BY <1>2, <2>4, SpecFacts
  <2>11. Replaced(cr[m]) => dep[m] = Deployment(cr[m])
    BY <2>1, <2>6, <2>9, <2>10
       DEF ReportSuccess, RestInv, DeploymentStands, Deployed, Applying, Place
  <2> QED
    BY <1>3, <2>8, <2>9, <2>11 DEF Finished
<1>5. CASE m \in queue /\ ~AtWork(m)
  <2>1. Dequeue(m)
    BY <1>0, <1>5, QueueSteps
  <2>2. crSeen[m].del /\ ~Registered(crSeen[m])
    BY <1>2, <2>1 DEF Dequeue
  <2>3. cr[m].del /\ ~Registered(cr[m])
    BY <1>2, <2>2 DEF SameSpec, Registered
  <2> QED
    BY <1>3, <2>3 DEF Finished
<1>6. Awaited(m) \/ AtWork(m) \/ Finished(m)
  BY <1>2 DEF RestInv, NoLostWakeup
<1> QED
  BY <1>1, <1>2, <1>3, <1>4, <1>5, <1>6, PendingFacts DEF Awaited

LEMMA InitRest == Init => RestInv
<1> SUFFICES ASSUME Init PROVE RestInv
  OBVIOUS
<1>1. IInv
  BY InitIInv
<1> QED
  BY <1>1 DEF Init, RestInv, Aging, Ages, InstanceCurrent, DeploymentStands, Deployed, Applying,
              NoLostWakeup

LEMMA NextRest == RestInv /\ [Next]_vars => RestInv'
<1> SUFFICES ASSUME RestInv, [Next]_vars PROVE RestInv'
  OBVIOUS
<1>1. IInv' /\ TypeOK'
  BY NextIInv DEF RestInv, IInv
<1> QED
  BY <1>1, AgingNext, InstanceCurrentNext, DeploymentStandsNext, NoLostWakeupNext DEF RestInv

-----------------------------------------------------------------------------
(* Theorems *)

\* The strengthened invariant holds in every reachable state.
THEOREM RestInvariance == Spec => []RestInv
<1> QED
  BY InitRest, NextRest, PTL DEF Spec

\* No wakeup is lost (ignoreStatusUpdatePredicate, the results of Reconcile):
\* an operator with nothing queued, nothing in hand and no event on the way has
\* nothing left to do, however requests failed, copies were stale or the process
\* died on the way.
THEOREM NoWakeupIsLost == Spec => []RestIsDone
<1>1. RestInv => RestIsDone
  <2> SUFFICES ASSUME RestInv, AtRest, NEW m \in Microservice, cr[m] # None PROVE Finished(m)
    BY DEF RestIsDone, Finished
  <2>1. ~Awaited(m) /\ ~AtWork(m)
    BY DEF AtRest, Awaited, AtWork
  <2> QED
    BY <2>1 DEF RestInv, NoLostWakeup
<1> QED
  BY <1>1, RestInvariance, PTL

\* So an operator that comes to rest for good has brought every microservice
\* that is wanted its Deployment: what is left of DeploymentConverges is that it
\* does come to rest, which fairness has to bring about.
THEOREM RestConverges == Spec /\ <>[]AtRest => DeploymentConverges
<1>1. ASSUME NEW m \in Microservice
      PROVE  Spec /\ <>[]AtRest
               => <>[](cr[m] # None /\ ~cr[m].del /\ Replaced(cr[m]) => dep[m] = Deployment(cr[m]))
  <2>1. RestIsDone /\ AtRest
          => (cr[m] # None /\ ~cr[m].del /\ Replaced(cr[m]) => dep[m] = Deployment(cr[m]))
    BY DEF RestIsDone
  <2> QED
    BY <2>1, NoWakeupIsLost, PTL
<1> QED
  BY <1>1 DEF DeploymentConverges

\* Success is recorded by udpateStatus, of the instance in hand.
LEMMA SuccessSteps ==
  ASSUME TypeOK, Counted, [Next]_vars, NEW m \in Microservice, Succeeds(m)
  PROVE  /\ pc = "success" /\ cur = m /\ cr[m] = inst
         /\ SameSpec(inst, cr'[m])
<1> USE DEF Succeeds
<1>0. /\ cr \in [Microservice -> Resource \union {None}]
      /\ pc # "idle" => cur \in Microservice /\ inst \in Resource
  BY DEF TypeOK, ServerTyped, JobTyped
<1>1. CASE ReportSuccess
  <2>1. cr[cur] = inst /\ cr' = [cr EXCEPT ![cur] = [inst EXCEPT !.status = Reported("Success")]]
    BY <1>0, <1>1 DEF ReportSuccess, WriteStatus
  <2>2. m = cur /\ cr'[m] = [inst EXCEPT !.status = Reported("Success")] /\ pc = "success"
    BY <1>0, <1>1, <2>1 DEF ReportSuccess
  <2> QED
    BY <1>0, <2>1, <2>2 DEF SameSpec, Resource
<1>2. CASE ReportFailure
  <2>1. cr' = cr \/ (cr[cur] = inst /\ cr' = [cr EXCEPT ![cur] = [inst EXCEPT !.status = Reported("Failure")]])
    BY <1>0, <1>2 DEF ReportFailure, WriteStatus
  <2>2. [inst EXCEPT !.status = Reported("Failure")].status.phase = "Failure"
    BY <1>0, <1>2 DEF ReportFailure, Resource, Reported
  <2> QED
    BY <1>0, <1>2, <2>1, <2>2 DEF ReportFailure
<1>3. CASE AddFinalizer
  <2>1. cr' = cr \/ (cr[cur] = inst /\ cr' = [cr EXCEPT ![cur] = [inst EXCEPT !.fin = @ \union {"router"}]])
    BY <1>3 DEF AddFinalizer
  <2> QED
    BY <1>0, <1>3, <2>1 DEF AddFinalizer, Resource
<1>4. CASE DropFinalizer
  BY <1>0, <1>4 DEF DropFinalizer, Without, Resource
<1>5. ASSUME NEW n \in Microservice, User(n) \/ Release(n) PROVE FALSE
  <2>0. cr[m] \in Resource
    BY <1>0
  <2>1. ASSUME NEW s, cr' = [cr EXCEPT ![n] = s],
               m = n /\ s # None => s.status = cr[m].status
        PROVE  FALSE
    BY <1>0, <2>1
  <2>2. ASSUME NEW w \in Wishes, Create(n, w) PROVE FALSE
    BY <1>0, <2>2 DEF Create
  <2>3. ASSUME NEW w \in Wishes, Edit(n, w) PROVE FALSE
    <3> DEFINE s == [cr[n] EXCEPT !.wish = w, !.gen = @ + 1]
    <3>1. cr' = [cr EXCEPT ![n] = s]
      BY <2>3 DEF Edit
    <3>2. m = n => s.status = cr[m].status
      BY <2>0 DEF Resource
    <3> HIDE DEF s
    <3> QED
      BY <2>1, <3>1, <3>2
  <2>4. ASSUME NEW added \in SUBSET {"foreground"}, Delete(n, added) PROVE FALSE
    <3> DEFINE t == [cr[n] EXCEPT !.del = TRUE, !.fin = @ \union added]
               s == IF cr[n].fin \union added = {} THEN None ELSE t
    <3>1. cr' = [cr EXCEPT ![n] = s]
      BY <2>4 DEF Delete
    <3>2. m = n => t.status = cr[m].status
      BY <2>0 DEF Resource
    <3> HIDE DEF t
    <3>3. m = n /\ s # None => s.status = cr[m].status
      BY <3>2
    <3> HIDE DEF s
    <3> QED
      BY <2>1, <3>1, <3>3
  <2>5. CASE Release(n)
    <3> DEFINE t == [cr[n] EXCEPT !.fin = @ \ {"foreground"}]
               s == IF cr[n].fin \subseteq {"foreground"} THEN None ELSE t
    <3>1. cr' = [cr EXCEPT ![n] = s]
      BY <2>5 DEF Release, Without
    <3>2. m = n => t.status = cr[m].status
      BY <2>0 DEF Resource
    <3> HIDE DEF t
    <3>3. m = n /\ s # None => s.status = cr[m].status
      BY <3>2
    <3> HIDE DEF s
    <3> QED
      BY <2>1, <3>1, <3>3
  <2> QED
    BY <1>5, <2>2, <2>3, <2>4, <2>5 DEF User
<1>6. CASE UNCHANGED cr
  BY <1>6
<1> QED
  BY <1>1, <1>2, <1>3, <1>4, <1>5, <1>6
     DEF Next, Reconcile, Dequeue, Finalize, Lookup, CreateDeployment, CreateService, CreateRouter,
         CallLoadBalancer, UpdateDeployment, DeleteService, RemoveRouter, RecreateService,
         RecreateRouter, Collect, SyncResource, SyncDeployment, SyncService, SyncTable,
         Crash, server, vars

\* Success is recorded (udpateStatus) only of a spec whose Deployment stands as
\* it wants it, whoever wrote, deleted or edited in between.
THEOREM SuccessIsDeployed == Spec => SuccessMeansDeployed
<1>1. ASSUME RestInv, [Next]_vars
      PROVE  [\A m \in Microservice :
                Succeeds(m) /\ Replaced(cr'[m]) => dep[m] = Deployment(cr'[m])]_vars
  <2> SUFFICES ASSUME NEW m \in Microservice, Succeeds(m), Replaced(cr'[m])
               PROVE  dep[m] = Deployment(cr'[m])
    OBVIOUS
  <2>1. pc = "success" /\ cur = m /\ cr[m] = inst /\ SameSpec(inst, cr'[m])
    BY <1>1, SuccessSteps DEF RestInv, IInv
  <2>2. ~inst.del
    BY <1>1, <2>1 DEF RestInv, IInv, InstanceFits, Finalizing
  <2>3. dep[m] = Deployment(inst)
    BY <1>1, <2>1, <2>2, SpecFacts DEF RestInv, DeploymentStands, Deployed, Applying, Place
  <2> QED
    BY <2>1, <2>3, SpecFacts
<1> QED
  BY <1>1, RestInvariance, PTL DEF Spec, SuccessMeansDeployed
=============================================================================
