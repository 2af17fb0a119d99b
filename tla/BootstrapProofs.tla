-------------------------- MODULE BootstrapProofs --------------------------
(***************************************************************************)
(* Proofs about Bootstrap: its types, that a stored configuration survives *)
(* every start, and when a call can meet none, for any set of routes, any  *)
(* replica counts and any bounds.                                          *)
(***************************************************************************)
EXTENDS Bootstrap, TLAPS

\* What GetLoadbalancerReplicaCount and the conversion make of any value of
\* the environment variable is an int32.
LEMMA ReplicaCountFacts ==
  setting \in Setting => ReplicaCount \in (-Limit)..(Limit - 1)
<1> SUFFICES ASSUME setting \in Setting PROVE ReplicaCount \in (-Limit)..(Limit - 1)
  OBVIOUS
<1>1. Limit \in Nat /\ Limit > 1 /\ Setting \subseteq Int \union {Unset}
  BY SettingAssumption
<1>2. CASE setting = Unset
  BY <1>1, <1>2 DEF ReplicaCount
<1>3. CASE setting # Unset
  <2>1. \A n \in Int, d \in Nat : d > 0 => n % d \in 0..(d - 1)
    OBVIOUS
  <2>2. setting + Limit \in Int /\ 2 * Limit \in Nat /\ 2 * Limit > 1
    BY <1>1, <1>3
  <2>3. (setting + Limit) % (2 * Limit) \in 0..(2 * Limit - 1)
    BY <2>1, <2>2
  <2> QED
    BY <1>1, <1>3, <2>3 DEF ReplicaCount
<1> QED
  BY <1>2, <1>3

-----------------------------------------------------------------------------
(* The inductive invariant *)

\* Start has filled lb.Config before it creates the ConfigMap, and no call
\* empties it meanwhile.
ConfigFilled == start = "create" => lbConfig # None

\* A process that began with a configuration stored sees one in its informer.
ConfigSeen == found => config # None /\ configSeen # None

\* Start has filled lb.Deployment before it sends it.
DeploymentFilled == start \in {"createDeployment", "updateDeployment"} => lbDep # None

IInv == TypeOK /\ ConfigFilled /\ DeploymentFilled /\ ConfigSeen /\ NoNilConfigOnceStored
        /\ (caller = "write" => base # None)

LEMMA InitIInv == Init => IInv
<1> SUFFICES ASSUME Init PROVE IInv
  OBVIOUS
<1>1. faults \in 0..MaxFaults
  BY BoundsAssumption DEF Init
<1>2. svc \in BOOLEAN /\ svcSeen \in BOOLEAN /\ found \in BOOLEAN
  BY Zenon DEF Init
<1>3. TypeOK
  BY <1>1, <1>2 DEF Init, TypeOK
<1> QED
  BY <1>3 DEF Init, IInv, ConfigFilled, DeploymentFilled, ConfigSeen, NoNilConfigOnceStored

\* Whatever ends the process, the next one begins in good order.
LEMMA RestartIInv ==
  IInv /\ Restart /\ setting' \in Setting /\ faults' \in 0..MaxFaults => IInv'
  BY DEF IInv, Restart, server, TypeOK, ConfigFilled, DeploymentFilled, ConfigSeen, NoNilConfigOnceStored

\* A request may fail or a process end only within the bound.
LEMMA FaultFacts == faults \in 0..MaxFaults /\ Fault => faults' \in 0..MaxFaults
  BY BoundsAssumption DEF Fault

LEMMA PanicIInv == IInv /\ Panic => IInv'
  BY RestartIInv DEF Panic, IInv, TypeOK

LEMMA StartIInv == IInv /\ (Start \/ StartFails) => IInv'
<1> SUFFICES ASSUME IInv, Start \/ StartFails PROVE IInv'
  OBVIOUS
<1> USE DEF IInv, TypeOK, ConfigFilled, DeploymentFilled, ConfigSeen, NoNilConfigOnceStored
<1>1. CASE StartLoad
  BY <1>1 DEF StartLoad, Loaded, server, informers
<1>2. CASE StartFill
  BY <1>2, NoneAssumption DEF StartFill, server, informers
<1>3. CASE StartCreate
  BY <1>3, PanicIInv DEF StartCreate, informers
<1>4. CASE StartDeploy
  <2>1. [replicas |-> ReplicaCount, rev |-> 0] \in DeploymentOf
    BY ReplicaCountFacts, BoundsAssumption DEF DeploymentOf
  <2> QED
    BY <1>4, <2>1, NoneAssumption DEF StartDeploy, server, informers
<1>5. CASE StartCreateDeployment
  <2>1. CASE Panic
    BY <2>1, PanicIInv
  <2>2. CASE ~Panic
    <3>1. /\ dep' = [lbDep EXCEPT !.rev = 1] /\ lbDep' = dep' /\ start' = "service"
          /\ UNCHANGED <<config, svc, informers, setting, lbConfig, caller, base, found, faults>>
      BY <1>5, <2>2 DEF StartCreateDeployment
    <3>2. lbDep \in DeploymentOf
      BY <1>5 DEF StartCreateDeployment
    <3>3. dep' \in DeploymentOf
      BY <3>1, <3>2, BoundsAssumption DEF DeploymentOf
    <3> QED
      BY <3>1, <3>3 DEF informers
  <2> QED
    BY <2>1, <2>2
<1>6. CASE StartUpdateDeployment
  BY <1>6, PanicIInv DEF StartUpdateDeployment, server, informers
<1>7. CASE StartService
  <2>1. CASE Panic
    BY <2>1, PanicIInv
  <2>2. CASE ~Panic
    <3>1. svc' \in BOOLEAN
      BY <1>7, <2>2, Zenon DEF StartService
    <3> QED
      BY <1>7, <2>2, <3>1 DEF StartService, informers
  <2> QED
    BY <2>1, <2>2
<1>8. CASE StartFails
  BY <1>8, RestartIInv, FaultFacts DEF StartFails
<1> QED
  BY <1>1, <1>2, <1>3, <1>4, <1>5, <1>6, <1>7, <1>8 DEF Start

LEMMA CallIInv == IInv /\ Call => IInv'
<1> SUFFICES ASSUME IInv, Call PROVE IInv'
  OBVIOUS
<1> USE DEF IInv, TypeOK, ConfigFilled, DeploymentFilled, ConfigSeen, NoNilConfigOnceStored
<1>1. CASE CallLoad
  BY <1>1 DEF CallLoad, Loaded, server, informers
<1>2. CASE CallEdit
  BY <1>2, PanicIInv DEF CallEdit, server, informers
<1>3. ASSUME NEW routes \in Edits, caller = "write", CallWrite(routes) PROVE IInv'
  <2>1. routes \in SUBSET Route /\ routes # None
    BY <1>3, NoneAssumption DEF Edits
  <2>2. faults' \in 0..MaxFaults
    BY <1>3, FaultFacts DEF CallWrite
  <2> QED
    BY <1>3, <2>1, <2>2 DEF CallWrite, informers
<1>4. CASE CallReload
  <2>1. dep' \in DeploymentOf \union {None}
    <3>1. CASE dep' = dep
      BY <3>1
    <3>2. CASE dep # None /\ dep.rev < MaxRev /\ dep' = [dep EXCEPT !.rev = @ + 1]
      BY <3>2, BoundsAssumption DEF DeploymentOf
    <3> QED
      BY <1>4, <3>1, <3>2 DEF CallReload
  <2> QED
    BY <1>4, <2>1 DEF CallReload, informers
<1> QED
  BY <1>1, <1>2, <1>3, <1>4 DEF Call

LEMMA NextIInv == IInv /\ [Next]_vars => IInv'
<1> SUFFICES ASSUME IInv, [Next]_vars PROVE IInv'
  OBVIOUS
<1>1. CASE Start \/ StartFails
  BY <1>1, StartIInv
<1>2. CASE Call
  BY <1>2, CallIInv
<1>3. CASE SyncConfig \/ SyncDeployment \/ SyncService
  BY <1>3 DEF SyncConfig, SyncDeployment, SyncService, server, IInv, TypeOK,
              ConfigFilled, DeploymentFilled, ConfigSeen, NoNilConfigOnceStored
<1>4. CASE Crash
  BY <1>4, RestartIInv, FaultFacts DEF Crash, IInv, TypeOK
<1>5. ASSUME NEW n \in Setting, Upgrade(n) PROVE IInv'
  BY <1>5, RestartIInv, FaultFacts DEF Upgrade, IInv, TypeOK
<1>6. CASE UNCHANGED vars
  BY <1>6 DEF vars, IInv, TypeOK, ConfigFilled, DeploymentFilled, ConfigSeen, NoNilConfigOnceStored
<1> QED
  BY <1>1, <1>2, <1>3, <1>4, <1>5, <1>6 DEF Next

-----------------------------------------------------------------------------
(* Theorems *)

\* The inductive invariant holds in every reachable state.
THEOREM Invariance == Spec => []IInv
<1> QED
  BY InitIInv, NextIInv, PTL DEF Spec

\* The types hold, whatever the environment variable of the replicas says.
THEOREM TypeCorrect == Spec => []TypeOK
<1>1. IInv => TypeOK
  BY DEF IInv
<1> QED
  BY <1>1, Invariance, PTL

\* A process that began with a configuration stored never dereferences a nil
\* one (CreateRouter and RemoveRouter beside Start).
THEOREM NilConfigOnlyAtFirst == Spec => []NoNilConfigOnceStored
<1>1. IInv => NoNilConfigOnceStored
  BY DEF IInv
<1> QED
  BY <1>1, Invariance, PTL

\* Start never changes a stored configuration, whatever its informer shows and
\* whatever call runs beside it: only the store of a call does.
THEOREM RoutesSurviveStart == Spec => StartKeepsRoutes
<1>1. ASSUME [Next]_vars
      PROVE  [config # None /\ config' # config => caller = "write" /\ caller' # "write"]_vars
  <2> SUFFICES ASSUME config # None, config' # config
               PROVE  caller = "write" /\ caller' # "write"
    OBVIOUS
  <2>1. PICK routes : CallWrite(routes)
    BY <1>1 DEF Next, vars, server, informers, Start, StartFails, StartLoad, StartFill, StartCreate,
                StartDeploy, StartCreateDeployment, StartUpdateDeployment, StartService,
                Call, CallLoad, CallEdit, CallReload, SyncConfig, SyncDeployment, SyncService,
                Crash, Upgrade, Panic, Restart
  <2> QED
    BY <2>1 DEF CallWrite
<1> QED
  BY <1>1, PTL DEF Spec, StartKeepsRoutes
-----------------------------------------------------------------------------
(* The replicas *)

\* Every Deployment in sight has the replicas the environment variable asks
\* for, and there is one once Start has got past it.
Sized ==
  /\ \A d \in {dep, depSeen, lbDep} : d # None => d.replicas = ReplicaCount
  /\ start \in {"service", "ready"} => dep # None

LEMMA RestartSized ==
  ASSUME Sized, Restart, setting' = setting
  PROVE  Sized'
  BY DEF Sized, Restart, server, ReplicaCount

LEMMA SizedNext ==
  ASSUME IInv, Sized, [Next]_vars, setting' = setting
  PROVE  Sized'
<1> USE DEF Sized, ReplicaCount
<1>0. {dep, depSeen, lbDep} \subseteq DeploymentOf \union {None}
  BY DEF IInv, TypeOK
<1>1. CASE Panic \/ StartFails \/ Crash \/ \E n \in Setting : Upgrade(n)
  BY <1>1, RestartSized DEF Panic, StartFails, Crash, Upgrade
<1>2. CASE StartLoad \/ StartFill \/ (StartCreate /\ ~Panic)
  BY <1>2 DEF StartLoad, StartFill, StartCreate, server, informers
<1>3. CASE StartDeploy
  BY <1>3 DEF StartDeploy, server, informers
<1>4. CASE StartCreateDeployment /\ ~Panic
  <2>1. /\ dep' = [lbDep EXCEPT !.rev = 1] /\ lbDep' = dep' /\ depSeen' = depSeen
        /\ lbDep \in DeploymentOf /\ lbDep # None
    BY <1>0, <1>4 DEF StartCreateDeployment, informers, IInv, DeploymentFilled
  <2>2. dep'.replicas = lbDep.replicas /\ dep' \in DeploymentOf
    BY <2>1, BoundsAssumption DEF DeploymentOf
  <2> QED
    BY <2>1, <2>2, NoneAssumption
<1>5. CASE StartUpdateDeployment /\ ~Panic
  BY <1>5 DEF StartUpdateDeployment, server, informers, IInv, DeploymentFilled
<1>6. CASE StartService /\ ~Panic
  BY <1>6 DEF StartService, informers
<1>7. CASE CallLoad \/ (CallEdit /\ ~Panic)
  BY <1>7 DEF CallLoad, CallEdit, server, informers
<1>8. ASSUME NEW routes, CallWrite(routes) PROVE Sized'
  BY <1>8 DEF CallWrite, informers
<1>9. CASE CallReload
  <2>1. UNCHANGED <<depSeen, lbDep, start>>
    BY <1>9 DEF CallReload, informers
  <2>2. CASE dep' = dep
    BY <1>9, <2>1, <2>2 DEF CallReload
  <2>3. CASE dep # None /\ dep.rev < MaxRev /\ dep' = [dep EXCEPT !.rev = @ + 1]
    <3>1. dep'.replicas = dep.replicas /\ dep' \in DeploymentOf
      BY <1>0, <2>3, BoundsAssumption DEF DeploymentOf
    <3> QED
      BY <1>9, <2>1, <2>3, <3>1, NoneAssumption DEF CallReload
  <2> QED
    BY <1>9, <2>2, <2>3 DEF CallReload
<1>10. CASE SyncConfig \/ SyncDeployment \/ SyncService \/ UNCHANGED vars
  BY <1>10 DEF SyncConfig, SyncDeployment, SyncService, server, vars
<1> QED
  BY <1>1, <1>2, <1>3, <1>4, <1>5, <1>6, <1>7, <1>8, <1>9, <1>10 DEF Next, Start, Call

\* As long as no upgrade asks for another number, Start finishes with the
\* replicas asked for, whatever fails and however often it begins anew: the
\* Update that changes nothing (deployLoadBalancer) is harmful then only.
THEOREM ReplicasUnlessUpgraded ==
  Spec /\ [][setting' = setting]_vars => []ReplicaCountApplied
<1>1. Init => Sized
  BY DEF Init, Sized
<1>2. IInv /\ Sized /\ [Next]_vars /\ [setting' = setting]_vars => Sized'
  BY SizedNext DEF vars
<1>3. IInv /\ Sized => ReplicaCountApplied
  BY DEF Sized, ReplicaCountApplied
<1> QED
  BY <1>1, <1>2, <1>3, Invariance, PTL DEF Spec
=============================================================================
