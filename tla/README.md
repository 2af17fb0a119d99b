# A TLA+ model of the KOM operator

The KOM operator watches `Microservice` custom resources. For each it keeps a
Deployment, a Service, an autoscaler and a set of routes in one shared Traefik
load balancer, which it also brings up itself. The modules here model that
program, TLC checks them on small instances, and TLAPS proves the safety of every
part for every instance.

The program is small and mostly sequential: one reconcile worker
(`MaxConcurrentReconciles` is 1), one start-up goroutine. What makes it hard is
what surrounds it. Every read goes through an informer that lags the API
server; most writes carry no `resourceVersion` and simply overwrite; each
request may fail; the process may end between any two requests; users, the
garbage collector and the autoscaler of Kubernetes change the same objects.

## The parts of the system

### Load balancer: router operations (`process/loadbalancer_controller.go`, `process/loadbalancer.go`)

State: one ConfigMap that holds `TraefikConfig` (`http.services` and
`http.routers`, keyed `namespace_service_port`), the package variable `mutex`,
the pods of the Traefik Deployment. Operations: `CreateRouter`, `RemoveRouter`,
both load → edit → store → reload. Called by the reconciler, in the goroutine of
its worker.

Hard: the load may be stale and the store overwrites; a failure after the store and before the
reload; the substring match of keys; a reload stamp of one second; every error return has to give
the mutex back. Correct if: routers and services stay paired; a stored configuration is one whole
call applied to an earlier one; a call that was not stale is atomic and spares what it was not asked
about; a call does what it was asked; the mutex is always given back.

### Load balancer: bootstrap (`LoadBalancer.Start`, `InitLoadBalancer`)

State: the fields `Config` and `Deployment` of the `LoadBalancer`, shared with the
calls above without the mutex; ConfigMap, Deployment and Service of the load
balancer. Operation: `Start`, once per process, panics on every error. Hard: it
runs beside the reconcile worker; a call that finds no configuration dereferences
nil and ends the process; a reload between read and update of the Deployment makes
the update conflict. Correct if: a restart never resets stored routes; the nil
configuration is met on a first start only; the load balancer comes up.

### Microservice reconciler (`internal/controller/microservice_controller.go`)

State: none of its own but the local `instance`; the work queue; the finalizer,
generation and status of each `Microservice`. Operation: `Reconcile`, with the
finalizer part, the part that creates and the part that updates, each a sequence
of requests; `ignoreStatusUpdatePredicate` filters the events. Hard: stale
`instance`; a microservice deleted and created again under its name, or deleted in the
foreground, its objects before itself; conflicts; errors that are shadowed or dropped;
a crash between any two requests. Correct if: it implements `Lifecycle`, that is,
nothing is created before the finalizer is there or after it has gone; a route is stored only while its
service exists; the finalizer goes after the routes; deletions complete; the
operator comes to rest, and rests only when its work is done; success is recorded only
of a Deployment that stands; the Deployment ends up as the spec has it.

### Routing comparison (`util/komutil.go`, `Equals`)

No state of its own: under smart reload it compares the list `udpateStatus` has
recorded in the status with the list of the spec, and service and routes are replaced if
they differ. Hard: the status is rewritten for other reasons too (the Deployment has
changed, the list has another order, the update has failed), its write may be refused and
the error dropped, errors of the service part never reach it, and the instance is a copy.
Correct if every change of the routes is noticed and a mere reordering is not one.

### Autoscaling handler (`process/autoscaling_handler.go`)

State: the HorizontalPodAutoscaler of the microservice's name, and the replicas
of the Deployment, which the operator and Kubernetes both write. Operation: `Run`,
called once by each part of `Reconcile`; its errors are logged and dropped. Hard:
the stale copies of the autoscaler and of the Deployment, `AlreadyExists` taken for success, a user's own
autoscaler under the same name, odd ranges. Correct if the microservice is never
taken to zero replicas and, after one edit made at rest whose requests succeed, the
autoscaler ends up as the section has it, whatever went wrong before.

### Manager start-up, API types, utilities, manifests, tests

`cmd/main.go` wires the parts together and is straight-line code. The API types
appear as the records of the modules. The Helm chart and the kustomize files are
static; one of their values, `SMART_RELOAD=false`, is a constant here (the variable
is unset, and smart reload on, when the operator runs without the chart). The test
suite starts a test API server and holds no test case.

## The modules

| module | models | uses |
|---|---|---|
| `RouterTable` | `http.services`, `http.routers` and the two edits of them, as operators on a record of a set and a function | |
| `RouteStore` | abstract: the history of the stored configuration grows by one whole call at a time | `RouterTable` |
| `LoadBalancer` | `CreateRouter` and `RemoveRouter`, request by request | `RouterTable`, implements `RouteStore` |
| `Lifecycle` | abstract: what may exist on behalf of a microservice at each stage of its life | |
| `Reconciler` | `Reconcile`, request by request, with users, informers, garbage collector and crashes | `RouterTable`, implements `Lifecycle` |
| `ReconcilerHistory` | `Reconciler` with the history of the stored configuration, for its meeting with `LoadBalancer` | `Reconciler`, implements `RouteStore` |
| `RoutingChange` | `Equals` on lists, the reconcile under smart reload that goes by it, and the list recorded in the status | |
| `Autoscaler` | `AutoScalingHandler.Run` and the replicas of the Deployment | |
| `Bootstrap` | `LoadBalancer.Start` beside a call of the worker | |
| `MCLoadBalancer`, `MCReconciler`, `MCAutoscaler`, `MCBootstrap` | the sets TLC gives to the constants (`RoutingChange` needs none) | |
| `RouterTableProofs` | lemmas about the two edits of the table | `RouterTable` |
| `LoadBalancerProofs`, `ReconcilerProofs`, `AutoscalerProofs`, `BootstrapProofs`, `RoutingChangeProofs` | theorems about the module of that name | the first two use `RouterTableProofs` |
| `ReconcilerRestProofs` | theorems about a `Reconciler` at rest, and about the success it records | `ReconcilerProofs` |
| `ReconcilerHistoryProofs` | theorems about `ReconcilerHistory` | `ReconcilerProofs` |

The `map` of `PROJECT.json` has the lines behind every definition. Conventions
common to the modules:

- **An object and its informer.** `x` is what the API server holds, `xSeen` what
  the informer shows. A read takes `xSeen`, a write changes `x`, a `Sync` action
  moves `xSeen` on. In `LoadBalancer` the ConfigMap keeps its whole history and the
  informer delivers versions one by one. Elsewhere the informer jumps to the
  present content. That is coalescing, and in `Reconciler` a step through the
  versions in between would only put into the queue (a set) what it already holds
  or admits at that moment.
- **A failure.** `Fault` counts failed requests and crashes against `MaxFaults`
  (`Reconciler`: foreground deletions too; `Bootstrap`: upgrades too).
  A failed call of the load balancer may have stored the table or not.
- **Writes with and without a version.** An `Update` of the Microservice
  (finalizer, status) carries the version of the instance read and is refused if
  the resource has changed: `cr[cur] = inst`. Updates of the Deployment, the
  autoscaler and the ConfigMap are built anew and carry none: they overwrite.
  `Start` sends back a Deployment it has read, so that one carries its version.
- **A panic** ends the process (controller-runtime does not recover here, and
  `Start` panics by design): `Restart`, with informers that begin with a list of
  what is stored and every microservice queued.
- **Slips.** Operators marked as slips for the mutants are the faulty variants
  with which the properties are tested; no specification uses them.

`LoadBalancer`. One worker moves `idle → lock → load → write → reload → idle`.
`Load` is `loadConfig` and the parse, `Write` the edit with `writeConfig(cfg, true)`,
`Reload` is `reloadDeployment`, `Fail` any of the error returns, which the deferred
`Unlock` follows. A map key is the record `[ns, name, port]`: Kubernetes names have
no underscore, so the string is unambiguous, and `strings.Contains` comes down to
`SuffixOf` on namespaces. With one reconcile worker there is only one caller today;
the module has any number, which is what the mutex of the code is written for. `TypeOK` says that
the mutex is held exactly while one call is at work (`MutexHeld`).

`Reconciler`. `pc` names the next request of `Reconcile`. A call of the load
balancer is one step (what can go on inside it is `LoadBalancer`'s subject);
`AutoScalingHandler.Run` only touches the autoscaler and is left to `Autoscaler`. The
image of a microservice stands for all the fields `hasChanges` compares, but for the replicas: it
compares those of the Deployment with `Min`, and `min` says whether that is above zero. With a `Min`
of zero, which is what a microservice without autoscaling has, the Deployment always counts as
changed, since its replicas are never zero; with a `Min` above zero they may be equal or not, as
Kubernetes scales, and `DeploymentChanged` allows both. `Replaced` is that every reconcile updates the
Deployment: without smart reload, or with a `Min` of zero. A routing
is a function from port to rule, `NoRule` being the empty one: such a port is in the
Deployment and the Service and gets no route. The finalizers of a resource are a
set, of the operator's `"router"` and of the `"foreground"` one by which Kubernetes deletes
the owned objects first (`Delete(m, {"foreground"})`, `Collect`, `Release`); a resource that is
being deleted goes with the last of them (`Without`). The generation that a deletion bumps
is not counted in `gen`; the predicate sees it as the change of `del`. A deletion and a creation
that the informer delivers as one step are two events, none of which is an update: `Passes` lets them
through.

`Lifecycle` sees of this the stage of each resource (absent, new, kept, leaving, released),
whether it has a routing, what exists on its behalf, and whether the operator's copy of
the configuration has routes of it. Things come only while the operator holds the
finalizer, and it takes that away from a microservice with a routing only when its
routes are gone. The one exception is stated as part of the promise: routes may come back
as long as the informer's copy still has them, since any call stores an edit of that copy.
The refinement maps a resource to its stage (`Stage`); every request of the operator that
touches no resource, every step of an informer or of the garbage collector on an object, is
`Change` or a stutter.

`RoutingChange`. The part of `Reconcile` that updates, under smart reload, for one microservice whose
Deployment is there: `Read` (with `hasChanges`), `UpdateDeployment`, `DeleteService`, `RecreateService`
(with `RemoveRouter`), `RecreateRouter`, and `udpateStatus` with either result. A routing is a list of
entries, which stand for a port and its rule. `applied` is the list the service and its routes were last
made from, which no variable of the program has; the status has only the list of the last spec
reconciled. `concealed` is a history variable: it is set where the status can no longer tell whether
the routes are those of the spec, and cleared when success is recorded of routes that have just
been made. It is set in these ways, and TLC refutes `ChangeNoticed` without any one of them, but for a
failure of `RecreateService`, after which there is no service anyway:

- the update of the Deployment fails, and the routing of the spec is recorded all the same;
- a request of the service part fails, and its error is lost in the inner `err` (or the informer does
  not show the service, which fails the `Get`);
- the write of the status is refused or fails, and that error is dropped;
- an edit or a crash overtakes a reconcile whose result is not recorded yet.

A spec whose routing is taken away ends the process at the nil service, as in `Reconciler`. Kubernetes
may refuse a Service that names a port twice; then a list with repeats is never applied.

`Autoscaler`. One incarnation of one microservice, with the section `[min, max, scaler]`; the texts
`createScaler` parses are the three values of `scaler`. Both `Get`s go through informers: `existing`
is `existingDeployment`, by which a reconcile goes the way of creating or of updating, and with
whose replicas `hasChanges` compares. A Deployment the informer does not show yet is created again,
and the refusal brings the reconcile back. The event of the finalizer brings one too, unless a
failed try has been the answer to it. A negative `min` is left out. `target` is the apiVersion in
`scaleTargetRef`: empty when the Deployment object was built in Go. `spoiled` is a history variable:
an edit made at rest clears it, a failed request of the handler or an edit made before the operator
is at rest, or before its informers show the Deployment and the autoscaler as it is, sets it.

`Bootstrap`. `start` and `caller` are the places of the two goroutines. `ReplicaCount` is
`GetLoadbalancerReplicaCount` and the conversion of its result to `int32`, with `Limit` for
2^31. Owner reference and published service are set once and never read back, and are left out.

## What the runs check

| run | instance | shows |
|---|---|---|
| `lb_calls` | 2 workers, 2 microservices of one name in namespaces `nsA` and `nsB`, where `nsB` ends in `nsA`; 1 port, 2 rules, 3 stored versions | `TypeOK`, `StoreWellFormed`, `FreshCallIsAtomic`, `FreshCallSparesOthers`, `CommitDoesWhatWasAsked`, `ImplementsRouteStore`, `CallReturns` |
| `lb_lost_route` | 1 worker, unrelated namespaces | violated: `OtherRoutesKept` |
| `lb_suffix` | 1 worker, nested namespaces | violated: `RemovesOnlyItsOwn` |
| `rec_safety` | `SMART_RELOAD=false`, 2 incarnations, 1 edit, 1 failure, crash or foreground deletion | `TypeOK`, `ImplementsLifecycle`, `FinalizerFirst`, `RouteAfterService`, `FinalizedRoutesGone` |
| `rec_liveness` | smart reload, a `Min` of zero or above, 2 incarnations, 1 edit, 1 failure, crash or foreground deletion | `RestIsDone`, `SuccessMeansDeployed`, `DeletionCompletes`, `Quiesces`, `DeploymentConverges` |
| `rec_orphan`, `rec_no_service` | `SMART_RELOAD=false`, 1 incarnation, 1 edit, no fault | violated: `NoOrphanRoutes`; `SuccessHasService` |
| `routing` | lists of up to 2 of 3 entries, with repeats and without, 3 edits | `TypeOK`, `ChangeNoticed`, `ReorderingKeepsRoutes` |
| `scaler` | 8 sections, 3 replicas, 3 edits, 2 failed requests, a user's autoscaler, smart reload | `TypeOK`, `NeverScaledToZero`, `RestAgrees`, `ScalerConverges` |
| `scaler_min` | 3 sections, 1 edit | violated: `UpdateKeepsMin` |
| `boot_start` | 2 routes, 5 replica settings (missing, zero, two, negative, overflowing), 3 revisions of the Deployment, 2 faults or upgrades | `TypeOK`, `NoNilConfigOnceStored`, `StartKeepsRoutes`, `ComesUp` |
| `boot_replicas` | 1 fault or upgrade | violated: `ReplicaCountApplied` |

Why these bounds are enough to be of interest. In `lb_calls` two callers contend for the mutex,
three versions allow a load that is one or two versions old, and both kinds of call meet their own
entries, foreign ones and those of the longer namespace. In the reconciler two incarnations are what
it takes for the operator to mix up a microservice with a later one of its name, one edit is what it
takes for a spec to change while it is being applied (and to lose its routing), one fault puts a
single failure, crash or foreground deletion at every place. Each of the two settings of
`SMART_RELOAD` has a run: safety is checked with the one the chart sets, where every reconcile goes
through all the requests, and liveness with the other, where `hasChanges` decides and could leave
work undone (it holds with the first too, and `RestIsDone`, `SuccessMeansDeployed` and
`ImplementsLifecycle` are proved of both). In `routing` a list of two has all there is to `Equals`
(an order, a repeat, an entry exchanged), and three edits allow one forth and one back while a third
is still on its way. In `scaler` the sections are those with `min = max`, an empty range, one turned
round, a `min` of zero, with and without a valid scaler, and three edits put any three of them after
one another, and two failures may meet two of these. In `boot_start` the two faults allow an upgrade
and a crash, and the revisions a reload before and after the start.

Deadlock is checked where the system cannot stop (`LoadBalancer`, `Bootstrap`, where
a crash is always possible within the bound or calls go on; `RoutingChange`). The
reconciler and the autoscaler do rest when nothing is left to do, and say
`CHECK_DEADLOCK FALSE`.

### Fairness

- `LoadBalancer`: weak fairness of the next step of a worker in a call (a goroutine
  runs on, a request returns); strong fairness of `Lock`, since Go's mutex hands over
  to a waiter that has starved for a millisecond. Nothing is asked of callers, of the
  informer or of crashes.
- `Reconciler`: weak fairness of the worker, of each informer and of the garbage
  collector for each object and each owner that waits for its objects (`Release`); strong
  fairness of `Dequeue` for each microservice, since
  the work queue is first in, first out. Nothing is asked of users, and failures are
  bounded by `MaxFaults`: the work queue tries again for ever, so what has to hold is
  that finitely many failures are made good.
- `Autoscaler`: weak fairness of the worker and of each informer.
- `Bootstrap`: weak fairness of `Start` and of the steps of a call. `ComesUp` needs the
  reload to be bounded (`MaxRev`): a reload between read and update of the Deployment makes
  `Start` panic, so endless reloads at that moment could keep it down for ever. It
  begins with a configuration stored: before that, nothing in the code keeps a
  call from ending every process before `Start` has created the ConfigMap. And it excepts a
  replica count that comes out negative, which the API server refuses every time.

## Where the code and its texts differ

Each has a run whose counterexample shows it, and an entry under `findings`.

1. `lb_lost_route`. `CreateRouter` edits what the informer shows and overwrites what is
   stored: routes stored in between, of any microservice, are gone. Nothing brings
   them back.
2. `lb_suffix`. `RemoveRouter` for namespace `shop` removes the routes of the same
   name in `team-shop`.
3. `rec_orphan`. `finalize` looks at the routing of the present spec: a microservice
   whose routing was taken away before leaves its routes behind.
4. `rec_no_service`. The update path creates a service only after it has found and
   deleted one, and the inner `err` shadows the one that decides about the status: a routing
   added later is recorded with `Success`, and there is no service.
5. `scaler_min`. Every update of the Deployment of a microservice that scales asks for
   one replica, whatever `min` says.
6. `boot_replicas`. `deployLoadBalancer` reads the existing Deployment over the one it has
   built, so a changed `replicaCount` is never applied.

That four of them have no other cause than the one named here is proved: under the hypothesis
that excludes the cause, the property holds for every instance.

| finding | holds if | theorem |
|---|---|---|
| `lb_lost_route` | the load was fresh (a property of its own, `FreshCallSparesOthers`) | `FreshCallsSpareOthers` |
| `lb_suffix` | no namespace ends in the name of another | `RemovalIsExact` |
| `rec_orphan` | every spec has a routing | `NoOrphansOfRouted` |
| `boot_replicas` | no upgrade changes the setting | `ReplicasUnlessUpgraded` |

Other behaviour the models have, and which limits what the passing runs may claim:

- `DeploymentConverges`, `RestIsDone` and `SuccessMeansDeployed` hold without smart reload, and with it
  of a spec with a `Min` of zero, whose Deployment counts as changed on every reconcile (`Replaced`).
  With smart reload and a `Min` above zero TLC refutes them in two ways, both where the Deployment has
  just `Min` replicas: an edit of the routing alone, which changes the container ports `hasChanges` does
  not compare; and a microservice created again while the informer still shows the old Deployment.
- `ChangeNoticed` excepts what `concealed` stands for: under smart reload a changed routing is missed
  for good when the Deployment could not be updated, when a request of the service part has failed, or
  when an edit and the edit back meet the write of the status.
- After `RemoveRouter`, `CreateRouter` may read the configuration from before it, keep the
  old router, and so lose a changed rule. `RouteStore` allows it.
- `ChangeNoticed` also excepts routes made from a list that repeats an entry: a change from `[x, x]` to
  `[x, y]` is missed, since every entry of the first is found in the second. It is enough
  that the one applied has no repeats; that the new one has does no harm.
- `ScalerConverges` asks for one edit made at rest after which no request of the handler fails
  and no other edit comes too soon. Without that it is false: errors of the handler are
  dropped, and after an edit handled before the informer shows the autoscaler of the one
  before, `AlreadyExists` is taken for success and the old range stays. Failures anywhere else
  in the reconcile do no harm.
- A user's autoscaler may be overwritten while the informer still shows the operator's.
- The autoscaler created with a microservice may have an empty apiVersion in its
  `scaleTargetRef` until a later reconcile finds it in the informer; `ScalerConverges`
  therefore asks for the right one only after an edit.
- A microservice deleted in the foreground may lose its Service while its routes are still being
  stored: `RouteAfterService` excepts one that is being deleted. The operator's finalizer
  keeps the resource until `RemoveRouter` has run.
- Routes of a microservice that has gone come back if a call for another one edits a copy of the
  configuration from before they were removed: the load of `lb_lost_route` is the cause here too,
  and the exception of `Lifecycle` the result. Nobody removes them again.
- Two reloads within a second restart the pods once. (Traefik also watches its
  configuration file, which may make good for it; the operator does not rely on that.)

## What is proved

Every invariant and every action property of the passing runs, and both refinements,
for any value of the constants: any number of microservices, workers, routes, wishes,
edits and faults. Beyond the runs: that the reconciler and the load balancer meet in one
interface, what delimits four findings, and the two convergence properties up to the
fairness they need.

| module | theorem | states |
|---|---|---|
| `LoadBalancerProofs` | `Invariance` | `Spec => []IInv` |
| | `TypeCorrect` | `Spec => []TypeOK` |
| | `RoutersAndServicesPaired` | `Spec => []StoreWellFormed` |
| | `FreshCallsAreAtomic` | `Spec => FreshCallIsAtomic` |
| | `CommitsDoWhatWasAsked` | `Spec => CommitDoesWhatWasAsked` |
| | `FreshCallsSpareOthers` | `Spec => FreshCallSparesOthers` |
| | `RemovalIsExact` | no namespace the suffix of another: `Spec => RemovesOnlyItsOwn` |
| | `Implementation` | `Spec => ImplementsRouteStore` |
| `ReconcilerProofs` | `Invariance` | `Spec => []IInv` |
| | `TypeCorrect` | `Spec => []TypeOK` |
| | `FinalizerComesFirst` | `Spec => FinalizerFirst` |
| | `RoutesComeAfterTheirService` | `Spec => RouteAfterService` |
| | `RoutesGoFirst` | `Spec => FinalizedRoutesGone` |
| | `NoOrphansOfRouted` | every spec has a routing: `Spec => NoOrphanRoutes` |
| | `Implementation` | `Spec => ImplementsLifecycle` |
| `ReconcilerRestProofs` | `RestInvariance` | `Spec => []RestInv` |
| | `NoWakeupIsLost` | `Spec => []RestIsDone` |
| | `RestConverges` | `Spec /\ <>[]AtRest => DeploymentConverges` |
| | `SuccessIsDeployed` | `Spec => SuccessMeansDeployed` |
| `ReconcilerHistoryProofs` | `HistoryInvariance` | `SpecH => []HistoryInv` |
| | `RoutersGoWithServices` | `SpecH => []TablePaired` |
| | `Composition` | `SpecH => KeepsToRouteStore` |
| `BootstrapProofs` | `Invariance` | `Spec => []IInv` |
| | `TypeCorrect` | `Spec => []TypeOK` |
| | `NilConfigOnlyAtFirst` | `Spec => []NoNilConfigOnceStored` |
| | `RoutesSurviveStart` | `Spec => StartKeepsRoutes` |
| | `ReplicasUnlessUpgraded` | the setting unchanged: `Spec => []ReplicaCountApplied` |
| `AutoscalerProofs` | `Invariance` | `Spec => []IInv` |
| | `TypeCorrect` | `Spec => []TypeOK` |
| | `AlwaysAReplica` | `Spec => []NeverScaledToZero` |
| | `AgreesAtRest` | `Spec => []RestAgrees` |
| | `RestConverges` | `Spec /\ <>[](pc = "idle" /\ ~queued) => ScalerConverges` |
| `RoutingChangeProofs` | `Invariance` | `Spec => []IInv` |
| | `TypeCorrect` | `Spec => []TypeOK` |
| | `NoChangeMissed` | `Spec => []ChangeNoticed` |
| | `ReorderingIsNoChange` | `Spec => ReorderingKeepsRoutes` |

The assumptions are those named in the modules: the bounds are natural numbers, the null
values are none of the objects (`NoneAssumption`, `WorkerAssumption`), each namespace is a
suffix of itself (`SuffixAssumption`), users' specs and sections are such
(`WishesAssumption`), the replica settings are integers or missing, and `Limit` is at least two
(`SettingAssumption`). Where a theorem asks for more, its statement says so as a hypothesis; each
of these is met by an instance of some run, or by one that differs from it in a single constant.

### `LoadBalancer`

The inductive invariant is `IInv == TypeOK /\ StoreWellFormed /\ LoadHeld`.
The safety properties are not inductive alone. That a fresh load is still current
when it is written needs that nobody else has written since, hence `MutexHeld`, a conjunct of `TypeOK`: a worker
is in the critical section exactly if it holds the mutex, so that no two are, and no error
return and no crash takes the mutex with it. `LoadHeld` says that a worker about to
write has loaded a version that exists, and that a fresh one is still the last: the link
between the history variable and the store. `StoreWellFormed` is part of the induction since a
stored table is made from an earlier one, and `DropRoutesFacts` needs it: `RemoveRouter` looks
at routers only behind a matching service, so in an unpaired table a lone router
would survive it.

The lemmas go from data to state: `AddRoutesFacts`, `DropRoutesFacts` and `ApplyFacts` (in
`RouterTableProofs`) about the edits; `WriteFacts` about the one action that changes the store;
`NextIInv`, one step per action; `WriterUnique`, that a change of the store is the write of the
worker that is at `write`. The action properties and the refinement follow from these with
`Invariance`. `ContainsFacts` and `ApplySpares` say what an edit leaves alone.

### `Reconciler`

The worker acts on a copy that may be arbitrarily old, so the invariant has to say what
an old copy is still worth. `Reflects(c, r, made)` does: if the copy `c` shows a resource with the
finalizer that is not being deleted, then the stored resource `r` is there, is the same
incarnation, and has the finalizer; if `c` is being deleted, so is `r`, or it is gone or a later
one. It holds of the informer's copy and of the worker's instance (`CopiesReflect`), because
the operator alone takes its finalizer away, and only from an instance that is being deleted
and, by the version check, is the stored one. Around it:

- `Counted`: incarnations and generations are within the counters, so that a new resource is
  none of the old ones;
- `InstanceFits`: at each place of `Reconcile`, whether the instance is registered and being deleted;
- `DeletionSeen`: while the worker lets go of a resource, the informer no longer shows it as wanted,
  so that after it has gone no copy with the finalizer and without the deletion is left;
- `ServiceStands`: where a route is about to be made, the service of the instance is there, or
  the resource is being deleted;
- `RoutesGone`: where the finalizer is about to go, the routes are gone.

The steps are classified once and then used for every conjunct: `StepChanges` (what a step does to a
resource), `CopySteps` (to a copy), `WorkerSteps` (to the worker), `ServiceSteps`, `TableSteps` and
`FinalizeSteps`. `FinalizerFirst` is then `MadeSteps`, that only the worker makes anything and for
the instance it applies, with `AppliedFacts`, that such an instance is there and kept. For the
refinement, a step either changes one resource, and is a step of its life (`LifeSteps`, over
`StageSteps`), or leaves all of them alone, and what it makes it may make (`ThingsSteps`, with
`RoutesComeFrom` for the routes a stale copy brings back).

`NoOrphansOfRouted` follows from `RoutesGone` once `WishSteps` has shown that every spec stored is one a
user wrote, so that a microservice about to lose its finalizer has a routing.

### `Reconciler` at rest

`RestIsDone` says what a rest is worth: no work is queued, the worker is idle, and no event the
predicate lets pass is still on its way (`Pending`; a name nobody uses has none), so each
microservice that is wanted is registered and, if `Replaced`, has its Deployment, and none that is
being deleted still waits for the operator. It is about a wakeup that never comes, and the predicate
is what could lose one: `ignoreStatusUpdatePredicate` drops every event that changes only the
status. What is inductive is `NoLostWakeup`: a microservice is finished, or the worker is at it, or
it is queued, or the informer still has an event about it to deliver which the predicate lets pass.
Around it:

- `Aging`: how a copy may differ from what it is a copy of (of one incarnation, a later generation, a
  deletion, another set of finalizers), so that a copy the predicate would drop has the same spec;
- `InstanceCurrent`: the instance in hand has the spec the informer shows, or the microservice is
  queued again. A reconcile that ends well has thus applied the present spec, or will be repeated;
- `DeploymentStands`: of an instance that is `Replaced`, once the worker is past the Deployment, that is the one of
  the instance, or the resource is being deleted.

`SuccessMeansDeployed` is the last of these at the write of the status. `RestConverges` takes from
fairness only that the operator comes to rest for good, `<>[]AtRest`: that is `Quiesces`, and the informer
of the microservices catching up once users stop.

### `Reconciler` and `LoadBalancer` together

`Reconciler` makes a call in one step and `LoadBalancer` lets any caller make any call. That this
fits is `Composition`: with its history of stored configurations as a variable, every step of the
reconciler is a step of `RouteStore` or a stutter, that is, stores one whole call, with arguments
`RouterTable` allows, applied to one configuration stored before. `Recorded` (the informer's
copy is one of the history) and `RoutesWanted` (`CreateRouter` is only called with routes) make it
inductive. `TablePaired` carries `StoreWellFormed` over to the reconciler, where it means that
services and routers go together. `DropSteps` and `CallSteps` are the cases.

### `Bootstrap`, `Autoscaler`, `RoutingChange`

`Bootstrap`: `ConfigSeen`, that a process that began with a configuration sees one in its informer,
makes `NoNilConfigOnceStored` inductive; `ConfigFilled` and `DeploymentFilled`, that `Start` fills the
shared fields before it uses them and no call empties them meanwhile, make the types so.
`Sized`, that every copy of the Deployment has the number of replicas asked for, and that there is one
when `Start` has finished with it, gives `ReplicasUnlessUpgraded`.

`Autoscaler`: `RangeAboveZero`, that the stored autoscaler, whoever made it, starts above zero, is
what `NeverScaledToZero` needs of `Scale`. For `RestAgrees` the copies have to be weighed again.
`Undisturbed`: between an edit made at rest and the handler's next request its copy is right
(`Fresh`: the stored autoscaler, or nothing where there is only the user's); after that request the
autoscaler agrees with the section, and nothing done on stale copies from then on undoes it.
`UserKnown`: an autoscaler known to be the user's is left alone. `Stays`: a Deployment the informer
has shown is there, so that after an edit made at rest nobody goes the way of creating any more.

`RoutingChange`: the inductive invariant is `IInv == TypeOK /\ Copies /\ Wakeups /\ AtService /\
StatusKnown /\ Truthful`. `Copies`: the informer and the instance show the resource as it is or of
an earlier generation. `Wakeups`: an edit the informer has shown since the instance was read is
queued. `AtService`: the worker only comes to the service over a change. `StatusKnown`: unless
something is concealed, copies show what the status records, and at rest that differs from the spec
by its order at most. `Truthful`: unless something is concealed, the routes that stand are those the
status records, or those of the instance, which are about to be recorded. The last two give
`ChangeNoticed`; `ReorderingKeepsRoutes` is `AtService`. What they need of `Equals`: from a list
without repeats it is an injection between index sets of one size, hence onto, so the other holds
the same entries, each once (`OnceFacts`, `EqualIsSame`). The other way, lists that hold every entry
equally often have their places of each entry in bijection; put together these are an injection from
one index set into the other, so neither is longer (`NoLonger`), and `Equals` says yes
(`SameIsEqual`).

### Only model-checked

All liveness properties (`CallReturns`, `DeletionCompletes`, `Quiesces`, `DeploymentConverges`,
`ScalerConverges`, `ComesUp`): fairness is out of the prover's reach. Of `DeploymentConverges` and
`ScalerConverges` only one half is left to TLC, that the operator comes to rest; that it has
converged when it rests is proved. Conversely, `Composition`, `TablePaired` and the delimiting theorems
above have no run of their own. With the history the instance of `rec_safety` has too many states for a run
to be repeated often, and the hypotheses of the others
exclude just what the runs of the findings are there to show.

## Not modelled

Logging and events; metrics, health checks and leader election; the fields copied from the
spec to the Pod template; the parsing of metric values in `createScaler`; the static sections of
the Traefik configuration; TLS of the routes beyond their rule; Traefik itself but for the
configuration its pods have started with; deep copies; utilities nobody calls.

Of the environment:

- Users who strip the operator's finalizer by hand, and objects users make under the names the
  operator uses (the autoscaler apart, of which the code checks the owner). Users who scale a Deployment
  to zero by hand, which under smart reload makes its replicas equal to a `Min` of zero.
- Two operators at work at a time. The chart turns leader election on (the flag is off by default)
  and runs one replica; a takeover is a `Crash` in the models, with no request of the old
  process still on its way.
- The UID of an autoscaler's owner, which the code does not compare: `Autoscaler` follows one
  incarnation of a microservice.
- Two microservices in a run of `Reconciler`: without an edit or a fault there are close to a
  million states already. The runs follow one, the proofs cover any number, and `LoadBalancer` has two that
  share the configuration.

## The plan

Done: the components with their runs, both abstract specifications with their refinements, the
safety of all of them proved, their meeting in `RouteStore`, and convergence up to fairness. What
is left, in order of weight:

1. Two processes that overlap while one takes over from the other: two mutexes in
   `LoadBalancer`, and requests of the old one that arrive late in `Reconciler`.
2. Incarnations in `Autoscaler`: the autoscaler of a deleted microservice, taken by the next one
   of its name for its own, and then collected.
3. Convergence of the Deployment with smart reload and a `Min` above zero, for edits that change an
   image: which hypotheses exclude the two ways in which it fails now.
4. The exact pairs of lists that `Equals` confuses: those of one length in which every entry of the
   applied one, repeated there, is found in the other.
