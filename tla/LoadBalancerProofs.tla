------------------------- MODULE LoadBalancerProofs -------------------------
(***************************************************************************)
(* Proofs about LoadBalancer: its types, its safety properties and that it *)
(* implements RouteStore, for any set of workers, microservices and rules  *)
(* and any suffix relation.                                                *)
(***************************************************************************)
EXTENDS LoadBalancer, RouterTableProofs, SequenceTheorems, TLAPS

-----------------------------------------------------------------------------
(* The inductive invariant *)

\* A worker in a call has the call's arguments; about to write, it holds a
\* version that was stored, and the stored one if its load was fresh: nobody
\* else may have written in between.
LoadHeld ==
  \A w \in Worker :
    /\ pc[w] # "idle" => call[w] \in Call
    /\ pc[w] = "write" => /\ base[w] \in 1..Len(versions)
                          /\ fresh[w] => base[w] = Len(versions)

IInv == TypeOK /\ StoreWellFormed /\ LoadHeld

LEMMA InitIInv == Init => IInv
<1> SUFFICES ASSUME Init PROVE IInv
  OBVIOUS
<1>1. versions \in Seq(Table) /\ Len(versions) = 1 /\ versions[1] = EmptyTable
  BY EmptyTableFacts DEF Init
<1>2. TypeOK
  BY <1>1, WorkerAssumption DEF Init, TypeOK, MutexHeld, Critical
<1>3. StoreWellFormed
  BY <1>1, EmptyTableFacts DEF StoreWellFormed
<1>4. LoadHeld
  BY DEF Init, LoadHeld
<1> QED
  BY <1>2, <1>3, <1>4 DEF IInv

\* What one write appends is a table with its routers and services paired.
LEMMA WriteFacts ==
  ASSUME IInv, NEW w \in Worker, Write(w)
  PROVE  /\ versions' = Append(versions, Apply(versions[base[w]], call[w]))
         /\ call[w] \in Call
         /\ base[w] \in 1..Len(versions)
         /\ versions[base[w]] \in Table /\ WellFormed(versions[base[w]])
         /\ versions' \in Seq(Table) /\ Len(versions') = Len(versions) + 1
         /\ Stored' = Apply(versions[base[w]], call[w])
         /\ StoreWellFormed'
<1>1. versions' = Append(versions, Apply(versions[base[w]], call[w])) /\ pc[w] = "write"
  BY DEF Write
<1>2. call[w] \in Call /\ base[w] \in 1..Len(versions)
  BY <1>1 DEF IInv, LoadHeld
<1>3. versions \in Seq(Table)
  BY DEF IInv, TypeOK
<1>4. versions[base[w]] \in Table /\ WellFormed(versions[base[w]])
  BY <1>2, <1>3 DEF IInv, StoreWellFormed
<1> DEFINE new == Apply(versions[base[w]], call[w])
<1>5. new \in Table /\ WellFormed(new)
  BY <1>2, <1>4, ApplyFacts
<1> HIDE DEF new
<1>6. /\ versions' \in Seq(Table)
      /\ Len(versions') = Len(versions) + 1
      /\ \A i \in 1..Len(versions) : versions'[i] = versions[i]
      /\ versions'[Len(versions) + 1] = new
  BY <1>1, <1>3, <1>5 DEF new
<1>7. Stored' = new
  BY <1>6 DEF Stored
<1>8. StoreWellFormed'
  <2> SUFFICES ASSUME NEW i \in 1..Len(versions')
               PROVE  WellFormed(versions'[i])
    BY DEF StoreWellFormed, WellFormed
  <2>1. CASE i \in 1..Len(versions)
    BY <1>6, <2>1 DEF IInv, StoreWellFormed
  <2>2. CASE i = Len(versions) + 1
    BY <1>5, <1>6, <2>2
  <2> QED
    BY <1>3, <1>6, <2>1, <2>2
<1> QED
  BY <1>1, <1>2, <1>4, <1>6, <1>7, <1>8 DEF new

LEMMA NextIInv == IInv /\ [Next]_vars => IInv'
<1> SUFFICES ASSUME IInv, [Next]_vars PROVE IInv'
  OBVIOUS
<1> USE DEF IInv, Critical
<1>0. versions \in Seq(Table) /\ Len(versions) \in Nat \ {0}
  BY EmptySeq, SeqDef, LenProperties DEF TypeOK
<1>1. ASSUME NEW w \in Worker, Lock(w) PROVE IInv'
  <2> USE <1>1 DEF Lock, store
  <2>1. MutexHeld'
    BY WorkerAssumption DEF MutexHeld, TypeOK
  <2>2. StoreWellFormed'
    BY DEF StoreWellFormed
  <2>3. TypeOK'
    BY <2>1 DEF TypeOK
  <2>4. LoadHeld'
    BY DEF LoadHeld, TypeOK
  <2> QED
    BY <2>1, <2>2, <2>3, <2>4
<1>2. ASSUME NEW w \in Worker, Load(w) PROVE IInv'
  <2> USE <1>2 DEF Load, store
  <2>1. MutexHeld'
    BY WorkerAssumption DEF MutexHeld, TypeOK
  <2>2. StoreWellFormed'
    BY DEF StoreWellFormed
  <2>3. TypeOK'
    BY <2>1, <1>0 DEF TypeOK
  <2>4. LoadHeld'
    BY <1>0 DEF LoadHeld, TypeOK
  <2> QED
    BY <2>1, <2>2, <2>3, <2>4
<1>3. ASSUME NEW w \in Worker, Write(w) PROVE IInv'
  <2>1. /\ versions' \in Seq(Table) /\ Len(versions') = Len(versions) + 1
        /\ StoreWellFormed'
    BY <1>3, WriteFacts
  <2>2. ASSUME NEW v \in Worker, v # w PROVE pc[v] \notin Critical
    BY <1>3, <2>2 DEF Write, TypeOK, MutexHeld
  <2>3. \/ pc' = [pc EXCEPT ![w] = "reload"] /\ mutex' = mutex /\ call' = call
        \/ /\ pc' = [pc EXCEPT ![w] = "idle"] /\ mutex' = NoWorker
           /\ call' = [call EXCEPT ![w] = NoCall]
    BY <1>3 DEF Write, Return
  <2>4. /\ base' = [base EXCEPT ![w] = 0] /\ fresh' = [fresh EXCEPT ![w] = FALSE]
        /\ seen' = seen /\ pods' = pods /\ pc[w] = "write"
    BY <1>3 DEF Write, Forget
  <2>5. versions' # << >>
    BY <1>0, <2>1
  <2>6. MutexHeld'
    BY <2>2, <2>3, <2>4, WorkerAssumption DEF MutexHeld, TypeOK
  <2>7. TypeOK'
    <3>1. versions' \in Seq(Table) \ {<<>>} /\ seen' \in 1..Len(versions')
      BY <1>0, <2>1, <2>4, <2>5 DEF TypeOK
    <3>2. mutex' \in Worker \union {NoWorker} /\ call' \in [Worker -> Call \union {NoCall}]
      BY <2>3 DEF TypeOK
    <3>3. pc' \in [Worker -> Critical \union {"idle", "lock"}]
      BY <2>3 DEF TypeOK
    <3>4. base' \in [Worker -> 0..Len(versions')] /\ fresh' \in [Worker -> BOOLEAN]
      BY <1>0, <2>1, <2>4 DEF TypeOK
    <3>5. pods' \in [stamped : BOOLEAN, loaded : 1..Len(versions')]
      <4>1. pods \in [stamped : BOOLEAN, loaded : 1..Len(versions)]
        BY DEF TypeOK
      <4>2. 1..Len(versions) \subseteq 1..Len(versions')
        BY <1>0, <2>1
      <4> QED
        BY <2>4, <4>1, <4>2 DEF TypeOK
    <3> QED
      BY <2>6, <3>1, <3>2, <3>3, <3>4, <3>5 DEF TypeOK
  <2>8. LoadHeld'
    BY <2>2, <2>3, <2>4 DEF LoadHeld, TypeOK
  <2> QED
    BY <2>1, <2>7, <2>8
<1>4. ASSUME NEW w \in Worker, Reload(w) PROVE IInv'
  <2> USE <1>4 DEF Reload, Return, store
  <2>1. MutexHeld'
    BY WorkerAssumption DEF MutexHeld, TypeOK
  <2>2. StoreWellFormed'
    BY DEF StoreWellFormed
  <2>3. TypeOK'
    <3>1. [stamped |-> TRUE, loaded |-> Len(versions)]
            \in [stamped : BOOLEAN, loaded : 1..Len(versions)]
      BY <1>0
    <3>2. pods' \in [stamped : BOOLEAN, loaded : 1..Len(versions)] /\ versions' = versions
      BY <3>1 DEF TypeOK
    <3> QED
      BY <2>1, <3>2 DEF TypeOK
  <2>4. LoadHeld'
    BY DEF LoadHeld, TypeOK
  <2> QED
    BY <2>1, <2>2, <2>3, <2>4
<1>5. ASSUME NEW w \in Worker, Fail(w) PROVE IInv'
  <2> USE <1>5 DEF Fail, Return, Forget, store
  <2>1. MutexHeld'
    BY WorkerAssumption DEF MutexHeld, TypeOK
  <2>2. StoreWellFormed'
    BY DEF StoreWellFormed
  <2>3. TypeOK'
    BY <2>1, <1>0 DEF TypeOK
  <2>4. LoadHeld'
    BY DEF LoadHeld, TypeOK
  <2> QED
    BY <2>1, <2>2, <2>3, <2>4
<1>6. ASSUME NEW w \in Worker, NEW c \in Call, Invoke(w, c) PROVE IInv'
  <2> USE <1>6 DEF Invoke, store
  <2>1. MutexHeld'
    BY WorkerAssumption DEF MutexHeld, TypeOK
  <2>2. StoreWellFormed'
    BY DEF StoreWellFormed
  <2>3. TypeOK'
    BY <2>1, <1>0 DEF TypeOK
  <2>4. LoadHeld'
    BY DEF LoadHeld, TypeOK
  <2> QED
    BY <2>1, <2>2, <2>3, <2>4
<1>7. CASE Sync
  BY <1>0, <1>7 DEF Sync, workers, TypeOK, StoreWellFormed, MutexHeld, LoadHeld
<1>8. CASE Crash
  BY <1>0, <1>8, WorkerAssumption DEF Crash, TypeOK, StoreWellFormed, MutexHeld, LoadHeld
<1>9. CASE UNCHANGED vars
  BY <1>9 DEF vars, TypeOK, StoreWellFormed, MutexHeld, LoadHeld
<1> QED
  BY <1>1, <1>2, <1>3, <1>4, <1>5, <1>6, <1>7, <1>8, <1>9 DEF Next, Step

-----------------------------------------------------------------------------
(* Theorems *)

\* The inductive invariant holds in every reachable state.
THEOREM Invariance == Spec => []IInv
<1> QED
  BY InitIInv, NextIInv, PTL DEF Spec

\* The types hold: the informer is never ahead of the API server, a loaded
\* version exists, every stored table is a table (loadConfig, writeConfig); and
\* the mutex is held exactly while a call is there to give it back, on every
\* error path.  This is what CallReturns takes from safety; the rest of it is
\* fairness.
THEOREM TypeCorrect == Spec => []TypeOK
<1>1. IInv => TypeOK
  BY DEF IInv
<1> QED
  BY <1>1, Invariance, PTL

\* In every configuration ever stored the routers and the services are
\* paired, whatever calls raced, failed, or started from a stale load.
THEOREM RoutersAndServicesPaired == Spec => []StoreWellFormed
<1>1. IInv => StoreWellFormed
  BY DEF IInv
<1> QED
  BY <1>1, Invariance, PTL

\* A step that stores a configuration is the Write of the one worker about to
\* write: the mutex keeps the others out.
LEMMA WriterUnique ==
  ASSUME IInv, [Next]_vars, versions' # versions, NEW w \in Worker, pc[w] = "write"
  PROVE  Write(w)
<1>1. PICK v \in Worker : Write(v)
  BY DEF Next, Step, Invoke, Lock, Load, Reload, Fail, Sync, Crash, store, vars
<1>2. v = w
  BY <1>1 DEF Write, IInv, TypeOK, MutexHeld, Critical
<1> QED
  BY <1>1, <1>2

\* The mutex makes load, edit and store one atomic step for every call whose
\* load was not stale (CreateRouter and RemoveRouter).
THEOREM FreshCallsAreAtomic == Spec => FreshCallIsAtomic
<1>1. ASSUME IInv, [Next]_vars
      PROVE  [\A w \in Worker :
                pc[w] = "write" /\ fresh[w] /\ versions' # versions
                  => Stored' = Apply(Stored, call[w])]_vars
  <2> SUFFICES ASSUME NEW w \in Worker, pc[w] = "write", fresh[w], versions' # versions
               PROVE  Stored' = Apply(Stored, call[w])
    OBVIOUS
  <2>1. Stored' = Apply(versions[base[w]], call[w])
    BY <1>1, WriterUnique, WriteFacts
  <2>2. base[w] = Len(versions)
    BY <1>1 DEF IInv, LoadHeld
  <2> QED
    BY <2>1, <2>2 DEF Stored
<1> QED
  BY <1>1, Invariance, PTL DEF Spec, FreshCallIsAtomic

\* Such a call leaves the service and the rule of every router that does not
\* match its own microservice as they are stored.  With RemovalIsExact: only
\* a stale load, or a namespace that ends in another, can cost a microservice
\* its routes in the call of another.
THEOREM FreshCallsSpareOthers == Spec => FreshCallSparesOthers
<1> DEFINE Spared(w) ==
      LET others == Others(call[w].ns, call[w].name)
      IN  Part(Stored', others) = Part(Stored, others)
<1>1. ASSUME IInv, [Next]_vars
      PROVE  [\A w \in Worker :
                pc[w] = "write" /\ fresh[w] /\ versions' # versions => Spared(w)]_vars
  <2> SUFFICES ASSUME NEW w \in Worker, pc[w] = "write", fresh[w], versions' # versions
               PROVE  Spared(w)
    OBVIOUS
  <2>1. /\ Stored' = Apply(versions[base[w]], call[w])
        /\ call[w] \in Call /\ versions[base[w]] \in Table
    BY <1>1, WriterUnique, WriteFacts
  <2>2. base[w] = Len(versions)
    BY <1>1 DEF IInv, LoadHeld
  <2>3. Stored' = Apply(Stored, call[w]) /\ Stored \in Table
    BY <2>1, <2>2 DEF Stored
  <2> HIDE DEF Stored
  <2> QED
    BY <2>1, <2>3, ApplySpares
<1> QED
  BY <1>1, Invariance, PTL DEF Spec, FreshCallSparesOthers

\* However stale its load, CreateRouter stores all the routers it was asked
\* for and RemoveRouter leaves nothing of the microservice.
THEOREM CommitsDoWhatWasAsked == Spec => CommitDoesWhatWasAsked
<1> DEFINE Asked(w) ==
      LET c == call[w]
          keys == KeysFor(c.ns, c.name, DOMAIN c.routes)
      IN  IF c.kind = "create"
          THEN keys \subseteq Stored'.services \intersect DOMAIN Stored'.routers
          ELSE \A k \in Stored'.services \union DOMAIN Stored'.routers :
                 ~IsOwn(k, c.ns, c.name)
<1>1. ASSUME IInv, [Next]_vars
      PROVE  [\A w \in Worker : pc[w] = "write" /\ versions' # versions => Asked(w)]_vars
  <2> SUFFICES ASSUME NEW w \in Worker, pc[w] = "write", versions' # versions
               PROVE  Asked(w)
    OBVIOUS
  <2> DEFINE t == versions[base[w]]
             c == call[w]
  <2>1. /\ c \in Call /\ t \in Table /\ WellFormed(t)
        /\ Stored' = Apply(t, c)
    BY <1>1, WriterUnique, WriteFacts
  <2> HIDE DEF t
  <2>2. /\ c.ns \in Namespace /\ c.name \in Name
        /\ c.kind = "create" => c.routes \in Routes
    BY <2>1 DEF Call
  <2>3. CASE c.kind = "create"
    BY <2>1, <2>2, <2>3, AddRoutesFacts DEF Apply
  <2>4. CASE c.kind # "create"
    BY <2>1, <2>2, <2>4, DropRoutesFacts DEF Apply
  <2> QED
    BY <2>3, <2>4
<1> QED
  BY <1>1, Invariance, PTL DEF Spec, CommitDoesWhatWasAsked

\* Where no namespace ends in the name of another, RemoveRouter removes what
\* its message says and no more: the suffix is the only way it strays.
THEOREM RemovalIsExact ==
  (\A p \in SuffixOf : p[1] = p[2]) => (Spec => RemovesOnlyItsOwn)
<1> DEFINE Exact(w) ==
      \A k \in versions[base[w]].services :
        IsOwn(k, call[w].ns, call[w].name) \/ k \in Stored'.services
<1> SUFFICES ASSUME \A p \in SuffixOf : p[1] = p[2] PROVE Spec => RemovesOnlyItsOwn
  OBVIOUS
<1>1. ASSUME IInv, [Next]_vars
      PROVE  [\A w \in Worker : pc[w] = "write" /\ versions' # versions => Exact(w)]_vars
  <2> SUFFICES ASSUME NEW w \in Worker, pc[w] = "write", versions' # versions,
                      NEW k \in versions[base[w]].services,
                      ~IsOwn(k, call[w].ns, call[w].name)
               PROVE  k \in Stored'.services
    OBVIOUS
  <2> DEFINE t == versions[base[w]]
             c == call[w]
  <2>1. Stored' = Apply(t, c) /\ c \in Call /\ t \in Table
    BY <1>1, WriterUnique, WriteFacts
  <2>2. k \in Key
    BY <2>1 DEF Table
  <2>3. k \in Others(c.ns, c.name)
    BY <2>2, ContainsFacts DEF Others
  <2>4. Part(Stored', Others(c.ns, c.name)) = Part(t, Others(c.ns, c.name))
    BY <2>1, ApplySpares
  <2>5. Stored'.services \intersect Others(c.ns, c.name) = t.services \intersect Others(c.ns, c.name)
    BY <2>4 DEF Part
  <2> QED
    BY <2>3, <2>5
<1> QED
  BY <1>1, Invariance, PTL DEF Spec, RemovesOnlyItsOwn

\* The load balancer implements RouteStore: a stored configuration is always
\* one whole call applied to one configuration stored before.
THEOREM Implementation == Spec => ImplementsRouteStore
<1>1. Init => Promise!Init
  BY DEF Init, Promise!Init, EmptyTable, Promise!EmptyTable, NoRouters, Promise!NoRouters
<1>2. ASSUME IInv, [Next]_vars PROVE [Promise!Next]_versions
  <2> SUFFICES ASSUME versions' # versions PROVE Promise!Next
    OBVIOUS
  <2>1. PICK w \in Worker : Write(w)
    BY <1>2 DEF Next, Step, Invoke, Lock, Load, Reload, Fail, Sync, Crash, store, vars
  <2>2. /\ versions' = Append(versions, Apply(versions[base[w]], call[w]))
        /\ call[w] \in Call /\ base[w] \in 1..Len(versions)
    BY <1>2, <2>1, WriteFacts
  <2>3. Promise!Call = Call
    BY DEF Call, Promise!Call, Routes, Promise!Routes, NoRoutes, Promise!NoRoutes
  <2>4. \A t, c : Promise!Apply(t, c) = Apply(t, c)
    BY DEF Apply, Promise!Apply, AddRoutes, Promise!AddRoutes, DropRoutes,
           Promise!DropRoutes, KeysFor, Promise!KeysFor, Contains, Promise!Contains,
           Restrict, Promise!Restrict
  <2>5. Promise!Commit(call[w], base[w])
    BY <2>2, <2>4 DEF Promise!Commit
  <2> QED
    BY <2>2, <2>3, <2>5 DEF Promise!Next
<1> QED
  BY <1>1, <1>2, Invariance, PTL DEF Spec, ImplementsRouteStore, Promise!Spec
=============================================================================
