---------------------------- MODULE LoadBalancer ----------------------------
(***************************************************************************)
(* The router operations of the load balancer (process/loadbalancer.go and *)
(* process/loadbalancer_controller.go) once its ConfigMap exists.          *)
(*                                                                         *)
(* CreateRouter and RemoveRouter run under one mutex and make the same     *)
(* journey: load the ConfigMap, edit the table, store it, and restart the  *)
(* Traefik pods.  The load goes through the informer cache of the manager's*)
(* client, which lags the API server; the store goes to the API server and *)
(* carries no resourceVersion, so it always overwrites.                    *)
(***************************************************************************)
EXTENDS RouterTable, Sequences, Naturals

CONSTANTS Worker,      \* goroutines that may call the load balancer
          NoWorker, NoCall,
          MaxVersion   \* bound: configurations the API server stores

ASSUME WorkerAssumption == NoWorker \notin Worker /\ NoCall \notin Call
ASSUME BoundAssumption == MaxVersion \in Nat \ {0}

VARIABLES
  versions,  \* API server: every content the ConfigMap has had, oldest first
  seen,      \* informer: the version it has reached
  mutex,     \* package variable mutex: its holder
  pc,        \* worker -> where it is in its call
  call,      \* worker -> the call it makes
  base,      \* worker -> the version its load returned, 0 before
  fresh,     \* worker -> was that the version stored at the time (history)
  pods       \* Traefik: has a reload stamped its pods, and the version they read

store == <<versions, seen>>
workers == <<mutex, pc, call, base, fresh>>
vars == <<versions, seen, mutex, pc, call, base, fresh, pods>>

Stored == versions[Len(versions)]

Critical == {"load", "write", "reload"}

Init ==
  /\ versions = <<EmptyTable>>
  /\ seen = 1
  /\ mutex = NoWorker
  /\ pc = [w \in Worker |-> "idle"]
  /\ call = [w \in Worker |-> NoCall]
  /\ base = [w \in Worker |-> 0]
  /\ fresh = [w \in Worker |-> FALSE]
  /\ pods = [stamped |-> FALSE, loaded |-> 1]

-----------------------------------------------------------------------------
(* Slips the code could have made, for the mutants *)

\* The call returns without its Unlock.
ReturnLocked(w) ==
  /\ pc' = [pc EXCEPT ![w] = "idle"]
  /\ call' = [call EXCEPT ![w] = NoCall]
  /\ UNCHANGED mutex

\* The deferred Unlock and the return.
Return(w) ==
  /\ mutex' = NoWorker
  /\ pc' = [pc EXCEPT ![w] = "idle"]
  /\ call' = [call EXCEPT ![w] = NoCall]

\* The loaded table is local to the call.
Forget(w) ==
  /\ base' = [base EXCEPT ![w] = 0]
  /\ fresh' = [fresh EXCEPT ![w] = FALSE]

\* The mutex does not exclude.
LockUnguarded(w) ==
  /\ pc[w] = "lock"
  /\ mutex' = w
  /\ pc' = [pc EXCEPT ![w] = "load"]
  /\ UNCHANGED <<store, call, base, fresh, pods>>

\* The update sends http.services and leaves http.routers as they are stored.
WriteHalf(w) ==
  /\ pc[w] = "write"
  /\ Len(versions) < MaxVersion
  /\ versions' = Append(versions, [Stored EXCEPT !.services =
                                      Apply(versions[base[w]], call[w]).services])
  /\ Forget(w)
  /\ IF call[w].reload THEN pc' = [pc EXCEPT ![w] = "reload"] /\ UNCHANGED <<mutex, call>>
                       ELSE Return(w)
  /\ UNCHANGED <<seen, pods>>
-----------------------------------------------------------------------------
(* Actions *)

\* The reconciler calls CreateRouter or RemoveRouter.
Invoke(w, c) ==
  /\ pc[w] = "idle"
  /\ pc' = [pc EXCEPT ![w] = "lock"]
  /\ call' = [call EXCEPT ![w] = c]
  /\ UNCHANGED <<store, mutex, base, fresh, pods>>

Lock(w) ==
  /\ pc[w] = "lock"
  /\ mutex = NoWorker
  /\ mutex' = w
  /\ pc' = [pc EXCEPT ![w] = "load"]
  /\ UNCHANGED <<store, call, base, fresh, pods>>

\* loadConfig and yaml.Unmarshal: the table is read from the cache.
Load(w) ==
  /\ pc[w] = "load"
  /\ base' = [base EXCEPT ![w] = seen]
  /\ fresh' = [fresh EXCEPT ![w] = seen = Len(versions)]
  /\ pc' = [pc EXCEPT ![w] = "write"]
  /\ UNCHANGED <<store, mutex, call, pods>>

\* writeConfig(cfg, true): an Update that replaces whatever is stored.  (An
\* Update that is stored and whose answer is lost is this step and then Fail.)
Write(w) ==
  /\ pc[w] = "write"
  /\ Len(versions) < MaxVersion
  /\ versions' = Append(versions, Apply(versions[base[w]], call[w]))
  /\ Forget(w)
  /\ IF call[w].reload THEN pc' = [pc EXCEPT ![w] = "reload"] /\ UNCHANGED <<mutex, call>>
                       ELSE Return(w)
  /\ UNCHANGED <<seen, pods>>

\* reloadDeployment: the pod template is annotated with the current second,
\* and the pods are only replaced if that changes the template: a reload within
\* the second of the last one leaves the pods with what they read then.
Reload(w) ==
  /\ pc[w] = "reload"
  /\ \/ pods' = [stamped |-> TRUE, loaded |-> Len(versions)]
     \/ pods.stamped /\ UNCHANGED pods
  /\ Return(w)
  /\ UNCHANGED <<store, base, fresh>>

\* Any of the three requests fails and the error is returned at once: what
\* has been stored before stays stored.
Fail(w) ==
  /\ pc[w] \in Critical
  /\ Return(w)
  /\ Forget(w)
  /\ UNCHANGED <<store, pods>>

\* The informer delivers the next version of the ConfigMap.
Sync ==
  /\ seen < Len(versions)
  /\ seen' = seen + 1
  /\ UNCHANGED <<versions, workers, pods>>

\* The operator dies between two requests and a new process starts: its
\* informer begins with a list of what is stored.
Crash ==
  /\ seen' = Len(versions)
  /\ mutex' = NoWorker
  /\ pc' = [w \in Worker |-> "idle"]
  /\ call' = [w \in Worker |-> NoCall]
  /\ base' = [w \in Worker |-> 0]
  /\ fresh' = [w \in Worker |-> FALSE]
  /\ UNCHANGED <<versions, pods>>

Step(w) == Load(w) \/ Write(w) \/ Reload(w) \/ Fail(w)

Next ==
  \/ \E w \in Worker : Lock(w) \/ Step(w) \/ \E c \in Call : Invoke(w, c)
  \/ Sync
  \/ Crash

Spec == Init /\ [][Next]_vars

\* A worker in a call goes on, and Go's mutex starves nobody.
FairSpec ==
  Spec /\ \A w \in Worker : WF_vars(Step(w)) /\ SF_vars(Lock(w))
-----------------------------------------------------------------------------
(* Properties *)

\* The mutex is held exactly while a call is between its Lock and its return,
\* and one call is there at a time: the Lock excludes, and every return of
\* CreateRouter and RemoveRouter, with an error or without, gives it back.
MutexHeld == \A w \in Worker : mutex = w <=> pc[w] \in Critical

\* The variables stay in their types and the mutex belongs to the call at work;
\* the informer is never ahead of the API server and a loaded version exists.
TypeOK ==
  /\ versions \in Seq(Table) \ {<<>>}
  /\ seen \in 1..Len(versions)
  /\ mutex \in Worker \union {NoWorker}
  /\ pc \in [Worker -> Critical \union {"idle", "lock"}]
  /\ call \in [Worker -> Call \union {NoCall}]
  /\ base \in [Worker -> 0..Len(versions)]
  /\ fresh \in [Worker -> BOOLEAN]
  /\ pods \in [stamped : BOOLEAN, loaded : 1..Len(versions)]
  /\ MutexHeld

\* Traefik never reads a router whose service is missing, nor a service no
\* router leads to, whatever calls race, fail or start from a stale load.
\* RemoveRouter relies on it: it looks at routers only behind a service.
StoreWellFormed == \A i \in 1..Len(versions) : WellFormed(versions[i])

\* load, edit and store are one atomic step as far as other callers go: a
\* call that loaded the stored configuration stores its own edit of the one
\* then stored.  This is what the mutex is for.
FreshCallIsAtomic ==
  [][\A w \in Worker :
       pc[w] = "write" /\ fresh[w] /\ versions' # versions
         => Stored' = Apply(Stored, call[w])]_vars

\* Such a call changes nothing for another microservice, neither a service nor
\* the rule of a router, whatever other calls have stored or are about to;
\* except that RemoveRouter also matches one of the same name in a namespace
\* that ends like its own.
FreshCallSparesOthers ==
  [][\A w \in Worker :
       pc[w] = "write" /\ fresh[w] /\ versions' # versions
         => LET others == Others(call[w].ns, call[w].name)
            IN  Part(Stored', others) = Part(Stored, others)]_vars

\* However stale its load, what a call stores is what it was asked for: all
\* the routers it creates are there, and of the microservice it removes no
\* service and no router is left.
CommitDoesWhatWasAsked ==
  [][\A w \in Worker :
       pc[w] = "write" /\ versions' # versions
         => LET c == call[w]
                keys == KeysFor(c.ns, c.name, DOMAIN c.routes)
            IN  IF c.kind = "create"
                THEN keys \subseteq Stored'.services \intersect DOMAIN Stored'.routers
                ELSE \A k \in Stored'.services \union DOMAIN Stored'.routers :
                       ~IsOwn(k, c.ns, c.name)]_vars

\* Every configuration stored is one whole call applied to one configuration
\* stored before it.
Promise == INSTANCE RouteStore WITH history <- versions
ImplementsRouteStore == Promise!Spec

\* A call that waits for the mutex or makes a request returns, with or
\* without an error, unless the process dies: no worker waits for ever.
CallReturns == \A w \in Worker : pc[w] # "idle" ~> pc[w] = "idle"
-----------------------------------------------------------------------------
(* What comments and messages of the code say, and the code does not do *)

\* "CreateRouter creates a router in the loadBalancer": a call for one
\* microservice leaves the stored routes of all others alone.
OtherRoutesKept ==
  [][\A w \in Worker :
       pc[w] = "write" /\ versions' # versions
         => \A k \in Stored.services :
              IsOwn(k, call[w].ns, call[w].name) \/ k \in Stored'.services]_vars

\* "Removing all routers for service [%v] in namespace [%v]": RemoveRouter
\* removes from the table it has loaded no route of another microservice.
RemovesOnlyItsOwn ==
  [][\A w \in Worker :
       pc[w] = "write" /\ versions' # versions
         => \A k \in versions[base[w]].services :
              IsOwn(k, call[w].ns, call[w].name) \/ k \in Stored'.services]_vars
=============================================================================
