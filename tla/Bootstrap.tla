----------------------------- MODULE Bootstrap -----------------------------
(***************************************************************************)
(* How the operator brings up the load balancer (LoadBalancer.Start in     *)
(* process/loadbalancer.go) while its reconcile worker may already call    *)
(* CreateRouter or RemoveRouter.  Both are goroutines of the manager that  *)
(* start together and share the fields Config and Deployment of the        *)
(* LoadBalancer; Start does not take the mutex the calls take.             *)
(*                                                                         *)
(* Start panics on any error, and so does a call that finds no             *)
(* configuration to edit: either ends the process, and a new one starts.   *)
(***************************************************************************)
EXTENDS Integers

CONSTANTS Route,     \* routes that may be stored
          Setting,   \* values of the environment variable for the replicas
          Unset,     \* the value that is missing, or is no number
          Limit,     \* 2^31, or less in a small instance
          None,      \* no object
          MaxRev,    \* bound: the resourceVersion of the Deployment
          MaxFaults  \* bound: failed requests, crashes and upgrades

ASSUME SettingAssumption == Setting \subseteq Int \union {Unset} /\ Limit \in Nat \ {0, 1}
ASSUME BoundsAssumption == MaxRev \in Nat \ {0} /\ MaxFaults \in Nat

VARIABLES
  \* the API server
  config,      \* the ConfigMap: the routes in it
  dep,         \* the Deployment: its replicas and its resourceVersion
  svc,         \* is the Service there
  \* the informers
  configSeen, depSeen, svcSeen,
  \* the process
  setting,     \* the environment variable for the replicas
  lbConfig,    \* lb.Config: the routes in it, None while it has no data
  lbDep,       \* lb.Deployment, None while it has no name
  start,       \* where Start is
  caller,      \* where the worker is in a call of CreateRouter or RemoveRouter
  base,        \* the configuration the call has read
  found,       \* was there a configuration when the process began (history)
  faults

server == <<config, dep, svc>>
informers == <<configSeen, depSeen, svcSeen>>
vars == <<config, dep, svc, configSeen, depSeen, svcSeen,
          setting, lbConfig, lbDep, start, caller, base, found, faults>>

\* GetLoadbalancerReplicaCount, which takes a value that does not parse for
\* one, and the conversion to int32 of its result.
ReplicaCount == IF setting = Unset THEN 1 ELSE ((setting + Limit) % (2 * Limit)) - Limit

DeploymentOf == [replicas : (-Limit)..(Limit - 1), rev : 0..MaxRev]

ASSUME NoneAssumption == (\A c \in SUBSET Route : c # None) /\ (\A d \in DeploymentOf : d # None)

Init ==
  /\ config = None /\ configSeen = None
  /\ dep = None /\ depSeen = None
  /\ svc = FALSE /\ svcSeen = FALSE
  /\ setting \in Setting
  /\ lbConfig = None /\ lbDep = None
  /\ start = "load" /\ caller = "idle" /\ base = None
  /\ found = FALSE /\ faults = 0

-----------------------------------------------------------------------------
(* How the process ends *)

\* A slip for the mutants: the goroutines start before the informers have listed
\* anything, as they would if main started them before the manager's cache.
RestartUnsynced ==
  /\ UNCHANGED server
  /\ configSeen' = None /\ depSeen' = None /\ svcSeen' = FALSE
  /\ lbConfig' = None /\ lbDep' = None
  /\ start' = "load" /\ caller' = "idle" /\ base' = None
  /\ found' = (config # None)

\* A new process: empty fields, informers that list what is there.
Restart ==
  /\ UNCHANGED server
  /\ configSeen' = config /\ depSeen' = dep /\ svcSeen' = svc
  /\ lbConfig' = None /\ lbDep' = None
  /\ start' = "load" /\ caller' = "idle" /\ base' = None
  /\ found' = (config # None)

Panic == Restart /\ UNCHANGED <<setting, faults>>

Fault == faults < MaxFaults /\ faults' = faults + 1

Crash == Fault /\ Restart /\ UNCHANGED setting

\* helm upgrade with another loadbalancer.replicaCount.
Upgrade(n) == Fault /\ Restart /\ setting' = n

\* loadConfig: a ConfigMap that is not found leaves lb.Config as it is.
Loaded == IF configSeen = None THEN lbConfig ELSE configSeen

-----------------------------------------------------------------------------
(* Start *)

\* A slip for the mutants: a ConfigMap that is there gets the default content,
\* the way an existing Deployment is updated.
StartLoadResetting ==
  /\ start = "load"
  /\ lbConfig' = Loaded
  /\ config' = IF lbConfig' = None THEN config ELSE {}
  /\ start' = IF lbConfig' = None THEN "fill" ELSE "deploy"
  /\ UNCHANGED <<dep, svc, informers, setting, lbDep, caller, base, found, faults>>

\* A new configuration is only made if none is found.
StartLoad ==
  /\ start = "load"
  /\ lbConfig' = Loaded
  /\ start' = IF lbConfig' = None THEN "fill" ELSE "deploy"
  /\ UNCHANGED <<server, informers, setting, lbDep, caller, base, found, faults>>

\* writeConfig(cfg, false): lb.Config is filled first ...
StartFill ==
  /\ start = "fill"
  /\ lbConfig' = {}
  /\ start' = "create"
  /\ UNCHANGED <<server, informers, setting, lbDep, caller, base, found, faults>>

\* ... and then created, with what lb.Config holds by now.
StartCreate ==
  /\ start = "create"
  /\ \/ /\ config = None /\ config' = lbConfig
        /\ start' = "deploy"
        /\ UNCHANGED <<dep, svc, informers, setting, lbConfig, lbDep, caller, base, found, faults>>
     \/ config # None /\ Panic

\* deployLoadBalancer: the existing Deployment, if the informer has one, is
\* read over the one just built.
StartDeploy ==
  /\ start = "deploy"
  /\ lbDep' = IF depSeen = None THEN [replicas |-> ReplicaCount, rev |-> 0] ELSE depSeen
  /\ start' = IF depSeen = None THEN "createDeployment" ELSE "updateDeployment"
  /\ UNCHANGED <<server, informers, setting, lbConfig, caller, base, found, faults>>

\* The API server refuses a Deployment with a negative number of replicas.
StartCreateDeployment ==
  /\ start = "createDeployment"
  /\ \/ /\ dep = None /\ lbDep.replicas >= 0
        /\ dep' = [lbDep EXCEPT !.rev = 1] /\ lbDep' = dep'
        /\ start' = "service"
        /\ UNCHANGED <<config, svc, informers, setting, lbConfig, caller, base, found, faults>>
     \/ (dep # None \/ lbDep.replicas < 0) /\ Panic

\* A slip for the mutants: a Deployment that was changed meanwhile is read and
\* sent again without end.
StartUpdateForever ==
  /\ start = "updateDeployment"
  /\ start' = IF dep = lbDep THEN "service" ELSE "updateDeployment"
  /\ UNCHANGED <<server, informers, setting, lbConfig, lbDep, caller, base, found, faults>>

\* The Update carries the resourceVersion it was read with, and sends back
\* what was read: the Deployment stays as it is, or the Update is refused.
StartUpdateDeployment ==
  /\ start = "updateDeployment"
  /\ \/ /\ dep = lbDep
        /\ start' = "service"
        /\ UNCHANGED <<server, informers, setting, lbConfig, lbDep, caller, base, found, faults>>
     \/ dep # lbDep /\ Panic

\* deployLoadBalancerService
StartService ==
  /\ start = "service"
  /\ \/ /\ svcSeen \/ ~svc
        /\ svc' = TRUE
        /\ start' = "ready"
        /\ UNCHANGED <<config, dep, informers, setting, lbConfig, lbDep, caller, base, found, faults>>
     \/ ~svcSeen /\ svc /\ Panic

\* Any request of Start fails.
StartFails == start \notin {"fill", "ready"} /\ Fault /\ Restart /\ UNCHANGED setting

-----------------------------------------------------------------------------
(* A call of CreateRouter or RemoveRouter (the module LoadBalancer has more) *)

CallLoad ==
  /\ caller = "idle"
  /\ lbConfig' = Loaded /\ base' = lbConfig'
  /\ caller' = "edit"
  /\ UNCHANGED <<server, informers, setting, lbDep, start, found, faults>>

\* Without data yaml.Unmarshal leaves cfg nil, and cfg.Http ends the process.
CallEdit ==
  /\ caller = "edit"
  /\ \/ /\ base # None
        /\ caller' = "write"
        /\ UNCHANGED <<server, informers, setting, lbConfig, lbDep, start, base, found, faults>>
     \/ base = None /\ Panic

\* A slip for the mutants: the configuration read outlives the call.
CallWriteKeeping(routes) ==
  /\ caller = "write"
  /\ lbConfig' = routes /\ UNCHANGED base
  /\ \/ config # None /\ config' = routes /\ caller' = "reload" /\ UNCHANGED faults
     \/ config = None /\ UNCHANGED <<config, faults>> /\ caller' = "idle"
     \/ Fault /\ UNCHANGED config /\ caller' = "idle"
  /\ UNCHANGED <<dep, svc, informers, setting, lbDep, start, found>>

\* writeConfig(cfg, true): lb.Config takes the new routes whether or not the
\* Update succeeds; it is refused while there is no ConfigMap.
CallWrite(routes) ==
  /\ caller = "write"
  /\ lbConfig' = routes /\ base' = None
  /\ \/ config # None /\ config' = routes /\ caller' = "reload" /\ UNCHANGED faults
     \/ config = None /\ UNCHANGED <<config, faults>> /\ caller' = "idle"
     \/ Fault /\ UNCHANGED config /\ caller' = "idle"
  /\ UNCHANGED <<dep, svc, informers, setting, lbDep, start, found>>

\* reloadDeployment, or not: a Patch bumps the resourceVersion, and fails while
\* lb.Deployment has no name or there is no such Deployment.
CallReload ==
  /\ caller = "reload"
  /\ caller' = "idle"
  /\ \/ /\ lbDep # None /\ dep # None
        /\ dep.rev < MaxRev
        /\ dep' = [dep EXCEPT !.rev = @ + 1]
     \/ UNCHANGED dep
  /\ UNCHANGED <<config, svc, informers, setting, lbConfig, lbDep, start, base, found, faults>>

-----------------------------------------------------------------------------
SyncConfig ==
  /\ configSeen # config /\ configSeen' = config
  /\ UNCHANGED <<server, depSeen, svcSeen, setting, lbConfig, lbDep, start, caller, base, found, faults>>

SyncDeployment ==
  /\ depSeen # dep /\ depSeen' = dep
  /\ UNCHANGED <<server, configSeen, svcSeen, setting, lbConfig, lbDep, start, caller, base, found, faults>>

SyncService ==
  /\ svcSeen # svc /\ svcSeen' = svc
  /\ UNCHANGED <<server, configSeen, depSeen, setting, lbConfig, lbDep, start, caller, base, found, faults>>

Start ==
  \/ StartLoad \/ StartFill \/ StartCreate \/ StartDeploy
  \/ StartCreateDeployment \/ StartUpdateDeployment \/ StartService

\* One call edits by one route.
Edits == {base \union {r} : r \in Route} \union {base \ {r} : r \in Route}

Call ==
  \/ CallLoad \/ CallEdit \/ CallReload
  \/ caller = "write" /\ \E routes \in Edits : CallWrite(routes)

Next ==
  \/ Start \/ StartFails \/ Call
  \/ SyncConfig \/ SyncDeployment \/ SyncService
  \/ Crash \/ \E n \in Setting : Upgrade(n)

Spec == Init /\ [][Next]_vars

\* Start goes on, and a call returns.  Whether there are calls is up to users.
FairSpec ==
  Spec /\ WF_vars(Start) /\ WF_vars(CallEdit) /\ WF_vars(CallReload)
-----------------------------------------------------------------------------
(* Properties *)

\* The variables stay in their types, and a configuration is held exactly
\* while a call is about to use it.
TypeOK ==
  /\ {config, configSeen, lbConfig, base} \subseteq (SUBSET Route) \union {None}
  /\ {dep, depSeen, lbDep} \subseteq DeploymentOf \union {None}
  /\ svc \in BOOLEAN /\ svcSeen \in BOOLEAN /\ found \in BOOLEAN
  /\ setting \in Setting /\ faults \in 0..MaxFaults
  /\ start \in {"load", "fill", "create", "deploy", "createDeployment", "updateDeployment",
                "service", "ready"}
  /\ caller \in {"idle", "edit", "write", "reload"}
  /\ caller \in {"idle", "reload"} => base = None

\* A restarted operator never resets the routes: whatever its informer shows,
\* and whatever call runs beside it, Start leaves a stored configuration alone.
StartKeepsRoutes ==
  [][config # None /\ config' # config => caller = "write" /\ caller' # "write"]_vars

\* The panic on a missing configuration is a danger of the first start only:
\* in a process that began with one stored, every call finds it.
NoNilConfigOnceStored == found /\ caller \in {"edit", "write"} => base # None

\* Once there is a configuration Start gets the load balancer up, however
\* often a call running beside it makes it panic and begin anew; unless the
\* first Deployment was asked for with a negative number of replicas, which a
\* number beyond int32 may turn into: then it panics again and again.
ComesUp ==
  config # None ~> start = "ready" \/ (dep = None /\ ReplicaCount < 0)
-----------------------------------------------------------------------------
(* What the documentation says, and the code does not do *)

\* "The KOM LoadBalancer was updated", and the README's
\* --set loadbalancer.replicaCount=2: when Start has finished, the Deployment
\* has the replicas asked for.
ReplicaCountApplied == start = "ready" => dep.replicas = ReplicaCount
=============================================================================
