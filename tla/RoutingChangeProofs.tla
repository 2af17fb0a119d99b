------------------------ MODULE RoutingChangeProofs ------------------------
(***************************************************************************)
(* Proofs about RoutingChange, for lists of any length over any entries    *)
(* and any number of edits: Equals never tells apart lists that hold the   *)
(* same routes, so that no mere reordering is taken for a change; and if   *)
(* the list applied repeats no entry it tells apart all others, so that no *)
(* change is missed as long as the status conceals none.                   *)
(***************************************************************************)
EXTENDS RoutingChange, FiniteSetTheorems, TLAPS

\* A routing is a list.
LEMMA RoutingFacts ==
  ASSUME NEW r \in Routings
  PROVE  Len(r) \in Nat /\ r \in [1..Len(r) -> Entry]
<1>1. PICK n \in 0..MaxEntries : r \in [1..n -> Entry]
  BY DEF Routings, BoundedSeq, SeqOf
<1>2. n \in Nat
  BY <1>1, BoundsAssumption
<1>3. Len(r) = n
  BY <1>1, <1>2
<1> QED
  BY <1>1, <1>2, <1>3

\* Where a list has an entry.
Places(e, r) == {i \in DOMAIN r : r[i] = e}

\* A list has an entry at finitely many places, and as often as at so many.
LEMMA TimesFacts ==
  ASSUME NEW n \in Nat, NEW r \in [1..n -> Entry], NEW e
  PROVE  /\ IsFiniteSet(Places(e, r)) /\ Times(e, r) = Cardinality(Places(e, r))
         /\ Times(e, r) = 0 <=> ~\E i \in 1..n : r[i] = e
<1>1. Places(e, r) \subseteq 1..n /\ IsFiniteSet(1..n)
  BY FS_Interval DEF Places
<1>2. IsFiniteSet(Places(e, r))
  BY <1>1, FS_Subset
<1>3. Times(e, r) = Cardinality(Places(e, r))
  BY DEF Times, Places
<1>4. Places(e, r) = {} <=> ~\E i \in 1..n : r[i] = e
  BY DEF Places
<1> QED
  BY <1>2, <1>3, <1>4, FS_EmptySet

\* A list that has every entry as often as another is no longer: its places go
\* one by one to places of the other with the same entry.
LEMMA NoLonger ==
  ASSUME NEW n \in Nat, NEW k \in Nat, NEW a \in [1..n -> Entry], NEW b \in [1..k -> Entry],
         SameRouting(a, b)
  PROVE  n <= k
<1>1. ASSUME NEW e \in Entry PROVE \E f : f \in Bijection(Places(e, a), Places(e, b))
  <2>1. Cardinality(Places(e, a)) = Cardinality(Places(e, b))
    BY TimesFacts DEF SameRouting
  <2>2. ExistsBijection(Places(e, a), Places(e, b))
    BY <2>1, TimesFacts, FS_SameCardinalityBij
  <2> QED
    BY <2>2 DEF ExistsBijection
<1> DEFINE pair(e) == CHOOSE f : f \in Bijection(Places(e, a), Places(e, b))
           place == [i \in 1..n |-> pair(a[i])[i]]
<1>2. ASSUME NEW e \in Entry PROVE pair(e) \in Bijection(Places(e, a), Places(e, b))
  BY <1>1
<1> HIDE DEF pair
<1>3. ASSUME NEW i \in 1..n
      PROVE  a[i] \in Entry /\ i \in Places(a[i], a) /\ place[i] \in Places(a[i], b)
  <2>1. a[i] \in Entry /\ i \in Places(a[i], a) /\ place[i] = pair(a[i])[i]
    BY DEF Places
  <2>2. pair(a[i]) \in [Places(a[i], a) -> Places(a[i], b)]
    BY <1>2, <2>1 DEF Bijection, Injection
  <2> QED
    BY <2>1, <2>2
<1>4. place \in [1..n -> 1..k] /\ \A i \in 1..n : b[place[i]] = a[i]
  <2>1. \A i \in 1..n : place[i] \in 1..k /\ b[place[i]] = a[i]
    BY <1>3 DEF Places
  <2> QED
    BY <2>1
<1>5. ASSUME NEW i \in 1..n, NEW j \in 1..n, place[i] = place[j] PROVE i = j
  <2>1. a[i] = a[j]
    BY <1>4, <1>5
  <2>2. pair(a[i])[i] = pair(a[i])[j]
    BY <1>5, <2>1
  <2>3. i \in Places(a[i], a) /\ j \in Places(a[i], a)
    BY <1>3, <2>1
  <2>4. IsInjective(pair(a[i])) /\ DOMAIN pair(a[i]) = Places(a[i], a)
    BY <1>2, <1>3 DEF Bijection, Injection
  <2> QED
    BY <2>2, <2>3, <2>4 DEF IsInjective
<1> HIDE DEF place
<1>6. place \in Injection(1..n, 1..k)
  BY <1>4, <1>5 DEF Injection, IsInjective
<1>7. /\ Cardinality(1..n) = n
      /\ IsFiniteSet(1..k) /\ Cardinality(1..k) = k
  BY FS_Interval
<1> QED
  BY <1>6, <1>7, FS_Injection

\* The places of the entries of one list in another: no longer a list fits in,
\* and one as long fills it.
LEMMA PlacesFacts ==
  ASSUME NEW n \in Nat, NEW k \in Nat, NEW a \in [1..n -> Entry], NEW b \in [1..k -> Entry],
         IsInjective(a), \A i \in 1..n : \E j \in 1..k : a[i] = b[j]
  PROVE  n = k => IsInjective(b) /\ \A j \in 1..k : \E i \in 1..n : a[i] = b[j]
<1> DEFINE place == [i \in 1..n |-> CHOOSE j \in 1..k : a[i] = b[j]]
<1>1. place \in [1..n -> 1..k] /\ \A i \in 1..n : a[i] = b[place[i]]
  OBVIOUS
<1> HIDE DEF place
<1>2. ASSUME NEW i \in 1..n, NEW j \in 1..n, place[i] = place[j] PROVE i = j
  <2>1. a[i] = a[j] /\ DOMAIN a = 1..n
    BY <1>1, <1>2
  <2> QED
    BY <2>1 DEF IsInjective
<1>3. place \in Injection(1..n, 1..k)
  BY <1>1, <1>2 DEF Injection, IsInjective
<1>4. /\ IsFiniteSet(1..n) /\ Cardinality(1..n) = n
      /\ IsFiniteSet(1..k) /\ Cardinality(1..k) = k
  BY FS_Interval
<1>5. ASSUME n = k, NEW j \in 1..k PROVE \E i \in 1..n : place[i] = j /\ a[i] = b[j]
  <2>1. place \in Surjection(1..n, 1..k)
    BY <1>3, <1>4, <1>5, FS_Injection
  <2>2. PICK i \in 1..n : place[i] = j
    BY <1>5, <2>1 DEF Surjection
  <2> QED
    BY <1>1, <2>2
<1>6. ASSUME n = k, NEW i \in 1..k, NEW j \in 1..k, b[i] = b[j] PROVE i = j
  <2>1. PICK x \in 1..n : place[x] = i /\ a[x] = b[i]
    BY <1>5, <1>6
  <2>2. PICK y \in 1..n : place[y] = j /\ a[y] = b[j]
    BY <1>5, <1>6
  <2>3. x = y
    BY <1>6, <2>1, <2>2 DEF IsInjective
  <2> QED
    BY <2>1, <2>2, <2>3
<1> QED
  BY <1>5, <1>6 DEF IsInjective

\* A list without repeats has an entry once or not at all.
LEMMA OnceFacts ==
  ASSUME NEW n \in Nat, NEW r \in [1..n -> Entry], IsInjective(r), NEW e
  PROVE  Times(e, r) = IF \E i \in 1..n : r[i] = e THEN 1 ELSE 0
<1>1. ASSUME NEW i \in 1..n, r[i] = e PROVE Times(e, r) = 1
  <2>1. Places(e, r) = {i}
    BY <1>1 DEF Places, IsInjective
  <2>2. Times(e, r) = Cardinality({i})
    BY <2>1, TimesFacts
  <2> QED
    BY <2>2, FS_Singleton
<1>2. ASSUME ~\E i \in 1..n : r[i] = e PROVE Times(e, r) = 0
  BY <1>2, TimesFacts
<1> QED
  BY <1>1, <1>2

\* Lists that hold the same routes are equal to Equals.
LEMMA SameIsEqual ==
  ASSUME NEW a \in Routings, NEW b \in Routings, SameRouting(a, b)
  PROVE  Equals(a, b)
<1> DEFINE n == Len(a)
           k == Len(b)
<1>1. /\ n \in Nat /\ a \in [1..n -> Entry] /\ DOMAIN a = 1..n
      /\ k \in Nat /\ b \in [1..k -> Entry] /\ DOMAIN b = 1..k
  BY RoutingFacts
<1> HIDE DEF n, k
<1>2. n = k
  <2>1. SameRouting(b, a)
    BY DEF SameRouting
  <2>2. n <= k /\ k <= n
    BY <1>1, <2>1, NoLonger
  <2> QED
    BY <1>1, <2>2
<1>3. ASSUME NEW i \in 1..n PROVE \E j \in 1..k : a[i] = b[j]
  <2>1. a[i] \in Entry
    BY <1>1
  <2>2. Times(a[i], a) # 0
    BY <1>1, <1>3, <2>1, TimesFacts
  <2>3. Times(a[i], b) # 0
    BY <2>1, <2>2 DEF SameRouting
  <2>4. \E j \in 1..k : b[j] = a[i]
    BY <1>1, <2>1, <2>3, TimesFacts
  <2> QED
    BY <2>4
<1> QED
  BY <1>1, <1>2, <1>3 DEF Equals, n, k

\* Lists that are equal to Equals hold the same routes, if the first repeats no
\* entry; then the second does not either.
LEMMA EqualIsSame ==
  ASSUME NEW a \in Routings, NEW b \in Routings, IsInjective(a), Equals(a, b)
  PROVE  SameRouting(a, b)
<1> DEFINE n == Len(a)
           k == Len(b)
<1>1. /\ n \in Nat /\ a \in [1..n -> Entry] /\ DOMAIN a = 1..n
      /\ k \in Nat /\ b \in [1..k -> Entry] /\ DOMAIN b = 1..k
  BY RoutingFacts
<1> HIDE DEF n, k
<1>2. n = k /\ \A i \in 1..n : \E j \in 1..k : a[i] = b[j]
  BY <1>1 DEF Equals, n, k
<1>3. IsInjective(b) /\ \A j \in 1..k : \E i \in 1..n : a[i] = b[j]
  BY <1>1, <1>2, PlacesFacts
<1>4. ASSUME NEW e \in Entry PROVE Times(e, a) = Times(e, b)
  <2>1. (\E i \in 1..n : a[i] = e) <=> (\E j \in 1..k : b[j] = e)
    BY <1>2, <1>3
  <2>2. /\ Times(e, a) = IF \E i \in 1..n : a[i] = e THEN 1 ELSE 0
        /\ Times(e, b) = IF \E j \in 1..k : b[j] = e THEN 1 ELSE 0
    BY <1>1, <1>3, OnceFacts
  <2> QED
    BY <2>1, <2>2
<1> QED
  BY <1>4 DEF SameRouting

\* SameRouting is transitive, and keeps apart entries apart.
LEMMA SameFacts ==
  ASSUME NEW a \in Routings, NEW b \in Routings, SameRouting(a, b)
  PROVE  /\ SameRouting(b, a)
         /\ IsInjective(a) => IsInjective(b)
         /\ \A c : SameRouting(b, c) => SameRouting(a, c)
<1>1. Equals(a, b)
  BY SameIsEqual
<1>2. IsInjective(a) => IsInjective(b)
  <2>1. /\ Len(a) \in Nat /\ a \in [1..Len(a) -> Entry] /\ DOMAIN a = 1..Len(a)
        /\ Len(b) \in Nat /\ b \in [1..Len(b) -> Entry] /\ DOMAIN b = 1..Len(b)
    BY RoutingFacts
  <2>2. Len(a) = Len(b) /\ \A i \in 1..Len(a) : \E j \in 1..Len(b) : a[i] = b[j]
    BY <1>1, <2>1 DEF Equals
  <2> QED
    BY <2>1, <2>2, PlacesFacts
<1> QED
  BY <1>2 DEF SameRouting

\* A list that is equal to itself, and the empty one.
LEMMA SelfFacts ==
  /\ \A r : SameRouting(r, r)
  /\ \A r \in Routings : Equals(r, r)
  /\ << >> \in Routings
<1>1. << >> \in [1..0 -> Entry] /\ 0 \in 0..MaxEntries
  BY BoundsAssumption
<1> QED
  BY <1>1, SameIsEqual DEF Routings, BoundedSeq, SeqOf, SameRouting

-----------------------------------------------------------------------------
(* Types *)

LEMMA ReportedFacts ==
  ASSUME inst \in Resource, NEW phase \in {"Success", "Failure"}
  PROVE  /\ Reported(phase) \in Resource
         /\ Reported(phase).recorded = inst.spec /\ Reported(phase).spec = inst.spec
         /\ Reported(phase).gen = inst.gen
  BY DEF Reported, Resource

LEMMA EditedFacts ==
  ASSUME TypeOK, NEW r \in Routings, Edit(r)
  PROVE  /\ cr' \in Resource
         /\ cr'.recorded = cr.recorded /\ cr'.spec = r /\ cr'.gen = cr.gen + 1
<1> DEFINE s == [cr EXCEPT !.spec = r, !.gen = @ + 1]
<1>1. cr' = s /\ cr \in Resource /\ cr.gen <= MaxEdits
  BY DEF Edit, TypeOK
<1>2. cr.gen \in Nat /\ cr.gen + 1 \in 1..MaxEdits + 1
  BY <1>1, BoundsAssumption DEF Resource
<1>3. s \in Resource /\ s.recorded = cr.recorded /\ s.spec = r /\ s.gen = cr.gen + 1
  BY <1>1, <1>2 DEF Resource
<1> QED
  BY <1>1, <1>3

LEMMA InitTyped == Init => TypeOK
<1> SUFFICES ASSUME Init PROVE TypeOK
  OBVIOUS
<1>1. PICK r \in Routings : /\ cr = [spec |-> r, recorded |-> r, phase |-> "Success", gen |-> 1]
                            /\ applied = IF r = << >> THEN None ELSE r
  BY DEF Init
<1>2. 1 \in 1..MaxEdits + 1
  BY BoundsAssumption
<1>3. cr \in Resource
  BY <1>1, <1>2 DEF Resource
<1> QED
  BY <1>1, <1>3 DEF Init, TypeOK, Place

LEMMA NextTyped == TypeOK /\ [Next]_vars => TypeOK'
<1> SUFFICES ASSUME TypeOK, [Next]_vars PROVE TypeOK'
  OBVIOUS
<1> USE DEF TypeOK, Place, Go, Done, Failed
<1>1. CASE Read
  BY <1>1, NoneAssumption DEF Read
<1>2. CASE UpdateDeployment
  BY <1>2 DEF UpdateDeployment
<1>3. CASE DeleteService
  BY <1>3 DEF DeleteService, Restart
<1>4. CASE RecreateService \/ RecreateRouter
  <2>1. inst \in Resource /\ inst.spec \in Routings
    BY <1>4 DEF RecreateService, RecreateRouter, Resource
  <2> QED
    BY <1>4, <2>1, SelfFacts DEF RecreateService, RecreateRouter
<1>5. CASE ReportSuccess \/ ReportFailure
  <2>1. PICK phase \in {"Success", "Failure"} : WriteStatus(phase)
    BY <1>5 DEF ReportSuccess, ReportFailure
  <2>2. inst \in Resource
    BY <1>5 DEF ReportSuccess, ReportFailure
  <2>3. cr' \in Resource /\ concealed' \in BOOLEAN
    BY <2>1, <2>2, ReportedFacts DEF WriteStatus
  <2> QED
    BY <1>5, <2>3 DEF ReportSuccess, ReportFailure
<1>6. ASSUME NEW r \in Routings, Edit(r) PROVE TypeOK'
  <2>1. cr' \in Resource
    BY <1>6, EditedFacts
  <2> QED
    BY <1>6, <2>1 DEF Edit
<1>7. CASE SyncResource
  BY <1>7 DEF SyncResource
<1>8. CASE Crash
  BY <1>8 DEF Crash, Restart
<1>9. CASE UNCHANGED vars
  BY <1>9 DEF vars
<1> QED
  BY <1>1, <1>2, <1>3, <1>4, <1>5, <1>6, <1>7, <1>8, <1>9 DEF Next, Reconcile

-----------------------------------------------------------------------------
(* The inductive invariant *)

\* Copies are no newer than what they are copies of, and one of the same
\* generation has the same spec.
Reflects(c, r) == c.gen <= r.gen /\ (c.gen = r.gen => c.spec = r.spec)

Copies ==
  /\ Reflects(seen, cr)
  /\ pc # "idle" => Reflects(inst, seen)

\* What the informer has shown since the instance was read is queued, and
\* nothing else.
Wakeups == pc # "idle" => (queued <=> seen.gen # inst.gen)

\* The worker only comes to the service over a change of the routing.
AtService ==
  /\ pc \in {"deleteService", "recreateService", "recreateRouter"} => ServiceChanged(inst)
  /\ pc = "recreateService" => applied = None
  /\ pc = "recreateRouter" => applied = << >>
  /\ pc = "failure" => concealed

\* As long as nothing is concealed, copies show what the status records.
StatusKnown ==
  ~concealed =>
    /\ queued => seen.recorded = cr.recorded
    /\ pc # "idle" => inst.recorded = cr.recorded
    /\ AtRest => ~ServiceChanged(cr)

\* The routes have been made from the routing of the instance i, or are being
\* made, and the status does not say so yet.
Ahead(i) == ServiceChanged(i) /\ applied \in {<< >>, i.spec}

\* As long as nothing is concealed, routes without repeats are those the status
\* records, or those of the current spec, which will be taken up again.
Truthful ==
  ~concealed /\ applied # None /\ IsInjective(applied) =>
    CASE pc = "idle" -> MadeFrom(cr.recorded) \/ (queued /\ seen = cr /\ Ahead(cr))
      [] pc \in {"updateDeployment", "deleteService"} ->
           MadeFrom(cr.recorded) \/ (inst = cr /\ Ahead(cr))
      [] pc = "success" ->
           IF ServiceChanged(inst) THEN applied = inst.spec ELSE MadeFrom(cr.recorded)
      [] OTHER -> TRUE

IInv == TypeOK /\ Copies /\ Wakeups /\ AtService /\ StatusKnown /\ Truthful


\* What a step of the status write makes of the resource.
LEMMA WriteSteps ==
  ASSUME TypeOK, NEW phase \in {"Success", "Failure"}, WriteStatus(phase), inst \in Resource
  PROVE  /\ cr'.spec = cr.spec /\ cr'.gen = cr.gen
         /\ \/ cr = inst /\ cr'.recorded = inst.spec
               /\ concealed' = (concealed /\ ~(phase = "Success" /\ MadeFrom(inst.spec)))
            \/ cr # inst /\ inst.recorded = inst.spec /\ UNCHANGED <<cr, concealed>>
            \/ concealed' /\ cr' = cr
<1>1. /\ Reported(phase).recorded = inst.spec /\ Reported(phase).spec = inst.spec
      /\ Reported(phase).gen = inst.gen
  BY ReportedFacts
<1> QED
  BY <1>1 DEF WriteStatus, Failed

\* Generations are numbers.
LEMMA GenFacts ==
  ASSUME TypeOK
  PROVE  /\ cr.gen \in Nat /\ seen.gen \in Nat
         /\ pc # "idle" => inst.gen \in Nat
  BY BoundsAssumption DEF TypeOK, Resource

LEMMA CopiesNext ==
  ASSUME TypeOK, Copies, [Next]_vars
  PROVE  Copies'
<1> SUFFICES /\ seen'.gen <= cr'.gen /\ (seen'.gen = cr'.gen => seen'.spec = cr'.spec)
             /\ pc' # "idle" => /\ inst'.gen <= seen'.gen
                                /\ inst'.gen = seen'.gen => inst'.spec = seen'.spec
  BY DEF Copies, Reflects
<1>0. /\ cr.gen \in Nat /\ seen.gen \in Nat /\ (pc # "idle" => inst.gen \in Nat)
      /\ seen.gen <= cr.gen /\ (seen.gen = cr.gen => seen.spec = cr.spec)
      /\ pc # "idle" => inst.gen <= seen.gen /\ (inst.gen = seen.gen => inst.spec = seen.spec)
  BY GenFacts DEF Copies, Reflects
<1> USE DEF Go, Done
<1>1. CASE Read
  BY <1>0, <1>1 DEF Read
<1>2. CASE UpdateDeployment \/ RecreateService \/ RecreateRouter
  BY <1>0, <1>2 DEF UpdateDeployment, RecreateService, RecreateRouter
<1>3. CASE DeleteService
  BY <1>0, <1>3 DEF DeleteService, Restart
<1>4. CASE ReportSuccess \/ ReportFailure
  <2>1. PICK phase \in {"Success", "Failure"} : WriteStatus(phase)
    BY <1>4 DEF ReportSuccess, ReportFailure
  <2>2. inst \in Resource
    BY <1>4 DEF ReportSuccess, ReportFailure, TypeOK
  <2>3. cr'.spec = cr.spec /\ cr'.gen = cr.gen
    BY <2>1, <2>2, WriteSteps
  <2> QED
    BY <1>0, <1>4, <2>3 DEF ReportSuccess, ReportFailure
<1>5. ASSUME NEW r \in Routings, Edit(r)
      PROVE  /\ seen'.gen <= cr'.gen /\ (seen'.gen = cr'.gen => seen'.spec = cr'.spec)
             /\ pc' # "idle" => /\ inst'.gen <= seen'.gen
                                /\ inst'.gen = seen'.gen => inst'.spec = seen'.spec
  <2>1. cr'.gen = cr.gen + 1
    BY <1>5, EditedFacts
  <2> QED
    BY <1>0, <1>5, <2>1 DEF Edit
<1>6. CASE SyncResource
  <2>1. UNCHANGED <<cr, pc, inst>> /\ seen' = cr
    BY <1>6 DEF SyncResource
  <2>2. pc # "idle" => inst.gen <= cr.gen /\ (inst.gen = cr.gen => inst.gen = seen.gen /\ seen.gen = cr.gen)
    BY <1>0
  <2> QED
    BY <1>0, <2>1, <2>2
<1>7. CASE Crash
  BY <1>0, <1>7 DEF Crash, Restart
<1>8. CASE UNCHANGED vars
  BY <1>0, <1>8 DEF vars
<1> QED
  BY <1>1, <1>2, <1>3, <1>4, <1>5, <1>6, <1>7, <1>8 DEF Next, Reconcile

LEMMA WakeupsNext ==
  ASSUME TypeOK, Copies, Wakeups, [Next]_vars
  PROVE  Wakeups'
<1> SUFFICES ASSUME pc' # "idle" PROVE queued' <=> seen'.gen # inst'.gen
  BY DEF Wakeups
<1>0. /\ cr.gen \in Nat /\ seen.gen \in Nat /\ (pc # "idle" => inst.gen \in Nat)
      /\ seen.gen <= cr.gen
      /\ pc # "idle" => inst.gen <= seen.gen /\ (queued <=> seen.gen # inst.gen)
      /\ queued \in BOOLEAN
  BY GenFacts DEF Copies, Reflects, Wakeups, TypeOK
<1> USE DEF Go, Done
<1>1. CASE Read
  BY <1>1 DEF Read
<1>2. CASE UpdateDeployment \/ RecreateService \/ RecreateRouter \/ DeleteService
  BY <1>0, <1>2 DEF UpdateDeployment, RecreateService, RecreateRouter, DeleteService, Restart
<1>3. CASE ReportSuccess \/ ReportFailure \/ Crash
  BY <1>3 DEF ReportSuccess, ReportFailure, Crash, Restart
<1>4. ASSUME NEW r \in Routings, Edit(r) PROVE queued' <=> seen'.gen # inst'.gen
  BY <1>0, <1>4 DEF Edit
<1>5. CASE SyncResource
  <2>1. UNCHANGED <<pc, inst>> /\ seen' = cr /\ queued' = (queued \/ seen.gen # cr.gen)
    BY <1>5 DEF SyncResource
  <2>2. (queued \/ seen.gen # cr.gen) <=> cr.gen # inst.gen
    BY <1>0, <2>1
  <2> QED
    BY <2>1, <2>2
<1>6. CASE UNCHANGED vars
  BY <1>0, <1>6 DEF vars
<1> QED
  BY <1>1, <1>2, <1>3, <1>4, <1>5, <1>6 DEF Next, Reconcile

LEMMA AtServiceNext ==
  ASSUME TypeOK, AtService, [Next]_vars
  PROVE  AtService'
<1> SUFFICES /\ pc' \in {"deleteService", "recreateService", "recreateRouter"}
                  => ~Equals(inst'.recorded, inst'.spec)
             /\ pc' = "recreateService" => applied' = None
             /\ pc' = "recreateRouter" => applied' = << >>
             /\ pc' = "failure" => concealed'
  BY DEF AtService, ServiceChanged, Equals
<1> USE DEF Go, Done, AtService, ServiceChanged, Failed
<1>1. CASE Read \/ UpdateDeployment
  BY <1>1 DEF Read, UpdateDeployment
<1>2. CASE DeleteService
  BY <1>2 DEF DeleteService, Restart
<1>3. CASE RecreateService \/ RecreateRouter
  BY <1>3 DEF RecreateService, RecreateRouter
<1>4. CASE ReportSuccess \/ ReportFailure \/ Crash
  BY <1>4 DEF ReportSuccess, ReportFailure, Crash, Restart
<1>5. CASE (\E r \in Routings : Edit(r)) \/ SyncResource \/ UNCHANGED vars
  BY <1>5 DEF Edit, SyncResource, vars
<1> QED
  BY <1>1, <1>2, <1>3, <1>4, <1>5 DEF Next, Reconcile

\* An instance whose resource has not been edited since has no request queued.
LEMMA Undisturbed ==
  ASSUME TypeOK, Copies, Wakeups, pc # "idle", inst.gen = cr.gen
  PROVE  ~queued /\ seen.gen = cr.gen
<1>1. /\ cr.gen \in Nat /\ seen.gen \in Nat /\ inst.gen \in Nat
      /\ seen.gen <= cr.gen /\ inst.gen <= seen.gen
      /\ queued <=> seen.gen # inst.gen
  BY GenFacts DEF Copies, Reflects, Wakeups
<1> QED
  BY <1>1

LEMMA StatusKnownNext ==
  ASSUME IInv, [Next]_vars
  PROVE  StatusKnown'
<1> SUFFICES ASSUME ~concealed'
             PROVE  /\ queued' => seen'.recorded = cr'.recorded
                    /\ pc' # "idle" => inst'.recorded = cr'.recorded
                    /\ pc' = "idle" /\ ~queued' /\ seen'.gen = cr'.gen
                         => Equals(cr'.recorded, cr'.spec)
  BY DEF StatusKnown, AtRest, ServiceChanged, Equals
<1>0. /\ TypeOK /\ Copies /\ Wakeups /\ AtService
      /\ cr.gen \in Nat /\ seen.gen \in Nat /\ (pc # "idle" => inst.gen \in Nat)
      /\ seen.gen <= cr.gen /\ (seen.gen = cr.gen => seen.spec = cr.spec)
      /\ pc # "idle" => inst.gen <= seen.gen /\ (inst.gen = seen.gen => inst.spec = seen.spec)
      /\ pc # "idle" => (queued <=> seen.gen # inst.gen)
  BY GenFacts DEF IInv, Copies, Reflects, Wakeups
<1>a. ~concealed => /\ queued => seen.recorded = cr.recorded
                    /\ pc # "idle" => inst.recorded = cr.recorded
                    /\ pc = "idle" /\ ~queued /\ seen.gen = cr.gen
                         => Equals(cr.recorded, cr.spec)
  BY DEF IInv, StatusKnown, AtRest, ServiceChanged
<1> DEFINE Goal == /\ queued' => seen'.recorded = cr'.recorded
                   /\ pc' # "idle" => inst'.recorded = cr'.recorded
                   /\ pc' = "idle" /\ ~queued' /\ seen'.gen = cr'.gen
                        => Equals(cr'.recorded, cr'.spec)
<1> USE DEF Go, Done, Failed
<1>1. CASE Read
  <2>1. ~concealed /\ cr' = cr /\ seen' = seen /\ ~queued' /\ queued
    BY <1>1 DEF Read
  <2>2. CASE pc' # "idle"
    BY <1>1, <1>a, <2>1, <2>2 DEF Read
  <2>3. CASE pc' = "idle"
    <3>1. Equals(seen.recorded, seen.spec)
      BY <1>1, <2>3 DEF Read, ServiceChanged
    <3> QED
      BY <1>0, <1>a, <2>1, <2>3, <3>1
  <2> QED
    BY <2>2, <2>3
<1>2. CASE UpdateDeployment \/ RecreateService \/ RecreateRouter
  BY <1>a, <1>2 DEF UpdateDeployment, RecreateService, RecreateRouter
<1>3. CASE DeleteService
  BY <1>a, <1>3 DEF DeleteService, Restart
<1>4. CASE ReportSuccess
  <2>1. /\ pc = "success" /\ WriteStatus("Success") /\ inst \in Resource
        /\ pc' = "idle" /\ UNCHANGED <<seen, queued>>
    BY <1>0, <1>4 DEF ReportSuccess, TypeOK
  <2>2. /\ cr'.spec = cr.spec /\ cr'.gen = cr.gen
        /\ \/ cr = inst /\ cr'.recorded = inst.spec
           \/ cr # inst /\ inst.recorded = inst.spec /\ cr' = cr /\ ~concealed
    BY <1>0, <2>1, WriteSteps
  <2>3. CASE cr = inst /\ cr'.recorded = inst.spec
    <3>1. ~queued
      BY <1>0, <2>1, <2>3, Undisturbed
    <3>2. Equals(inst.spec, inst.spec)
      BY <2>1, SelfFacts DEF Resource
    <3> QED
      BY <2>1, <2>2, <2>3, <3>1, <3>2
  <2>4. CASE cr # inst /\ inst.recorded = inst.spec /\ cr' = cr /\ ~concealed
    <3>1. Equals(inst.spec, inst.spec)
      BY <2>1, SelfFacts DEF Resource
    <3>2. ~queued /\ seen.gen = cr.gen => inst.spec = cr.spec
      BY <1>0, <2>1
    <3> QED
      BY <1>a, <2>1, <2>2, <2>4, <3>1, <3>2
  <2> QED
    BY <2>2, <2>3, <2>4
<1>5. CASE ReportFailure
  <2>1. pc = "failure" /\ WriteStatus("Failure") /\ inst \in Resource
    BY <1>0, <1>5 DEF ReportFailure, TypeOK
  <2>2. concealed'
    BY <1>0, <2>1, WriteSteps DEF AtService
  <2> QED
    BY <2>2
<1>6. ASSUME NEW r \in Routings, Edit(r) PROVE Goal
  <2>1. cr'.recorded = cr.recorded /\ cr'.gen = cr.gen + 1
    BY <1>0, <1>6, EditedFacts
  <2>2. ~concealed /\ UNCHANGED <<seen, queued, pc, inst>>
    BY <1>6 DEF Edit
  <2> QED
    BY <1>0, <1>a, <2>1, <2>2
<1>7. CASE SyncResource
  BY <1>0, <1>a, <1>7 DEF SyncResource
<1>8. CASE Crash
  BY <1>8 DEF Crash, Restart
<1>9. CASE UNCHANGED vars
  BY <1>a, <1>9 DEF vars
<1> QED
  BY <1>1, <1>2, <1>3, <1>4, <1>5, <1>6, <1>7, <1>8, <1>9 DEF Next, Reconcile

\* The status tells the routes again when success is recorded.
LEMMA TruthfulReport ==
  ASSUME IInv, ReportSuccess, ~concealed', applied # None, IsInjective(applied)
  PROVE  SameRouting(applied, cr'.recorded)
<1>1. /\ TypeOK /\ pc = "success" /\ WriteStatus("Success") /\ inst \in Resource
      /\ applied \in Routings /\ cr \in Resource
  BY DEF IInv, ReportSuccess, TypeOK
<1>2. \/ cr = inst /\ cr'.recorded = inst.spec
         /\ concealed' = (concealed /\ ~MadeFrom(inst.spec))
      \/ cr # inst /\ inst.recorded = inst.spec /\ UNCHANGED <<cr, concealed>>
  BY <1>1, WriteSteps
<1>3. inst.recorded \in Routings /\ inst.spec \in Routings
  BY <1>1 DEF Resource
<1>4. ~concealed => /\ inst.recorded = cr.recorded
                    /\ IF ServiceChanged(inst) THEN applied = inst.spec
                       ELSE SameRouting(applied, cr.recorded)
  BY <1>1 DEF IInv, StatusKnown, Truthful, MadeFrom
<1>5. CASE concealed
  BY <1>2, <1>5 DEF MadeFrom
<1>6. CASE ~concealed /\ ServiceChanged(inst)
  <2>1. applied = inst.spec /\ SameRouting(applied, applied)
    BY <1>4, <1>6, SelfFacts
  <2>2. ~(inst.recorded = inst.spec)
    BY <1>3, <1>6, SelfFacts DEF ServiceChanged
  <2> QED
    BY <1>2, <2>1, <2>2
<1>7. CASE ~concealed /\ ~ServiceChanged(inst)
  <2>1. SameRouting(applied, inst.recorded) /\ Equals(inst.recorded, inst.spec)
    BY <1>4, <1>7 DEF ServiceChanged
  <2>2. IsInjective(inst.recorded)
    BY <1>1, <1>3, <2>1, SameFacts
  <2>3. SameRouting(inst.recorded, inst.spec)
    BY <1>3, <2>1, <2>2, EqualIsSame
  <2>4. SameRouting(applied, inst.spec)
    BY <1>1, <1>3, <2>1, <2>3, SameFacts
  <2> QED
    BY <1>2, <1>4, <1>7, <2>1, <2>4
<1> QED
  BY <1>5, <1>6, <1>7

LEMMA TruthfulNext ==
  ASSUME IInv, [Next]_vars
  PROVE  Truthful'
<1> DEFINE Told(a, r) == a # None /\ SameRouting(a, r)
           Goal == CASE pc' = "idle" -> \/ Told(applied', cr'.recorded)
                                        \/ queued' /\ seen' = cr' /\ Ahead(cr)'
                     [] pc' \in {"updateDeployment", "deleteService"} ->
                          \/ Told(applied', cr'.recorded)
                          \/ inst' = cr' /\ Ahead(cr)'
                     [] pc' = "success" -> IF ServiceChanged(inst)' THEN applied' = inst'.spec
                                           ELSE Told(applied', cr'.recorded)
                     [] OTHER -> TRUE
<1> SUFFICES ASSUME ~concealed', applied' # None, IsInjective(applied') PROVE Goal
  BY DEF Truthful, MadeFrom, SameRouting, Times, IsInjective
<1> HIDE DEF Goal
<1>0. TypeOK /\ AtService /\ pc \in Place
  BY DEF IInv, TypeOK
<1>a. ~concealed /\ applied # None /\ IsInjective(applied) =>
        CASE pc = "idle" -> Told(applied, cr.recorded) \/ (queued /\ seen = cr /\ Ahead(cr))
          [] pc \in {"updateDeployment", "deleteService"} ->
               Told(applied, cr.recorded) \/ (inst = cr /\ Ahead(cr))
          [] pc = "success" ->
               IF ServiceChanged(inst) THEN applied = inst.spec ELSE Told(applied, cr.recorded)
          [] OTHER -> TRUE
  BY DEF IInv, Truthful, MadeFrom
<1> HIDE DEF Told
<1> USE DEF Go, Done, Failed, Goal
<1>1. CASE Read
  <2>1. /\ ~concealed /\ UNCHANGED <<cr, applied, seen>> /\ pc = "idle" /\ queued
        /\ Ahead(cr)' <=> Ahead(cr)
    BY <1>1 DEF Read, Ahead, ServiceChanged, Equals
  <2>2. Told(applied, cr.recorded) \/ (seen = cr /\ Ahead(cr))
    BY <1>a, <2>1
  <2>3. \/ inst' = seen /\ pc' \in {"updateDeployment", "deleteService"}
        \/ pc' = "idle" /\ ~ServiceChanged(seen)
    BY <1>1 DEF Read
  <2> QED
    BY <2>1, <2>2, <2>3 DEF Ahead
<1>2. CASE UpdateDeployment
  <2>1. /\ ~concealed /\ UNCHANGED <<cr, applied, inst>> /\ pc = "updateDeployment"
        /\ pc' = IF ServiceChanged(inst) THEN "deleteService" ELSE "success"
        /\ Ahead(cr)' <=> Ahead(cr)
        /\ ServiceChanged(inst)' <=> ServiceChanged(inst)
    BY <1>2 DEF UpdateDeployment, Ahead, ServiceChanged, Equals
  <2>2. Told(applied, cr.recorded) \/ (inst = cr /\ Ahead(cr))
    BY <1>a, <2>1
  <2> QED
    BY <2>1, <2>2 DEF Ahead
<1>3. CASE DeleteService
  BY <1>3 DEF DeleteService, Restart
<1>4. CASE RecreateService
  BY <1>4 DEF RecreateService
<1>5. CASE RecreateRouter
  <2>1. /\ applied' = inst.spec /\ inst' = inst /\ pc' = "success" /\ ServiceChanged(inst)
        /\ ServiceChanged(inst)' <=> ServiceChanged(inst)
    BY <1>0, <1>5 DEF RecreateRouter, AtService, ServiceChanged, Equals
  <2> QED
    BY <2>1
<1>6. CASE ReportSuccess
  <2>1. SameRouting(applied, cr'.recorded) /\ UNCHANGED applied /\ pc' = "idle"
    BY <1>6, TruthfulReport DEF ReportSuccess
  <2> QED
    BY <2>1 DEF Told
<1>7. CASE ReportFailure
  <2>1. pc = "failure" /\ WriteStatus("Failure") /\ inst \in Resource
    BY <1>0, <1>7 DEF ReportFailure, TypeOK
  <2>2. concealed'
    BY <1>0, <2>1, WriteSteps DEF AtService
  <2> QED
    BY <2>2
<1>8. ASSUME NEW r \in Routings, Edit(r) PROVE Goal
  <2>1. /\ ~concealed /\ UNCHANGED <<applied, seen, queued, pc, inst>>
        /\ Told(applied, cr.recorded)
    BY <1>8 DEF Edit, Told, MadeFrom
  <2>2. cr'.recorded = cr.recorded
    BY <1>0, <1>8, EditedFacts
  <2>3. ServiceChanged(inst)' <=> ServiceChanged(inst)
    BY <2>1 DEF ServiceChanged, Equals
  <2> QED
    BY <1>a, <2>1, <2>2, <2>3
<1>9. CASE SyncResource
  <2>1. /\ ~concealed /\ UNCHANGED <<cr, applied, pc, inst>> /\ seen # cr
        /\ Ahead(cr)' <=> Ahead(cr)
        /\ ServiceChanged(inst)' <=> ServiceChanged(inst)
    BY <1>9 DEF SyncResource, Ahead, ServiceChanged, Equals
  <2> QED
    BY <1>a, <2>1
<1>10. CASE Crash
  <2>1. /\ ~concealed /\ UNCHANGED <<cr, applied>> /\ pc' = "idle" /\ queued' /\ seen' = cr'
        /\ pc = "idle" \/ cr = inst
        /\ Ahead(cr)' <=> Ahead(cr)
    BY <1>10 DEF Crash, Restart, Ahead, ServiceChanged, Equals
  <2>2. Told(applied, cr.recorded) \/ Ahead(cr)
    BY <1>0, <1>a, <2>1 DEF AtService, Place, Ahead
  <2> QED
    BY <2>1, <2>2
<1>11. CASE UNCHANGED vars
  <2>1. UNCHANGED vars /\ (Ahead(cr)' <=> Ahead(cr)) /\ (ServiceChanged(inst)' <=> ServiceChanged(inst))
    BY <1>11 DEF vars, Ahead, ServiceChanged, Equals
  <2> QED
    BY <1>a, <2>1 DEF vars
<1> QED
  BY <1>1, <1>2, <1>3, <1>4, <1>5, <1>6, <1>7, <1>8, <1>9, <1>10, <1>11 DEF Next, Reconcile

LEMMA InitInv == Init => IInv
<1> SUFFICES ASSUME Init PROVE IInv
  OBVIOUS
<1>1. PICK r \in Routings : /\ cr = [spec |-> r, recorded |-> r, phase |-> "Success", gen |-> 1]
                            /\ applied = IF r = << >> THEN None ELSE r
  BY DEF Init
<1>2. cr.recorded = r /\ cr.spec = r /\ Equals(r, r) /\ SameRouting(r, r) /\ cr.gen <= cr.gen
  BY <1>1, SelfFacts
<1> QED
  BY <1>1, <1>2, InitTyped
     DEF Init, IInv, Copies, Reflects, Wakeups, AtService, StatusKnown, AtRest, ServiceChanged,
         Truthful, MadeFrom

LEMMA NextInv == IInv /\ [Next]_vars => IInv'
<1> QED
  BY NextTyped, CopiesNext, WakeupsNext, AtServiceNext, StatusKnownNext, TruthfulNext DEF IInv

-----------------------------------------------------------------------------
(* Theorems *)

\* The inductive invariant holds in every reachable state.
THEOREM Invariance == Spec => []IInv
<1> QED
  BY InitInv, NextInv, PTL DEF Spec

\* The variables stay in their types.
THEOREM TypeCorrect == Spec => []TypeOK
<1>1. IInv => TypeOK
  BY DEF IInv
<1> QED
  BY <1>1, Invariance, PTL

\* At rest (hasChanges, Equals, udpateStatus) the routes that stand are those the
\* spec asks for, if they were made from a list without repeats and the status
\* conceals nothing, whatever edits, other rewritings of the status, stale copies
\* and restarts came before.
THEOREM NoChangeMissed == Spec => []ChangeNoticed
<1>1. IInv => ChangeNoticed
  <2> SUFFICES ASSUME IInv, AtRest, ~concealed, applied # None, IsInjective(applied)
               PROVE  SameRouting(applied, cr.spec)
    BY DEF ChangeNoticed
  <2>1. SameRouting(applied, cr.recorded)
    BY DEF IInv, Truthful, AtRest, MadeFrom
  <2>2. Equals(cr.recorded, cr.spec)
    BY DEF IInv, StatusKnown, ServiceChanged
  <2>3. applied \in Routings /\ cr.recorded \in Routings /\ cr.spec \in Routings
    BY DEF IInv, TypeOK, Resource
  <2>4. SameRouting(cr.recorded, cr.spec)
    BY <2>1, <2>2, <2>3, SameFacts, EqualIsSame
  <2> QED
    BY <2>1, <2>3, <2>4, SameFacts
<1> QED
  BY <1>1, Invariance, PTL

\* The service and its routes are only touched by a reconcile that has read a
\* spec with other routes than the status records (DeleteService and what comes
\* after it), whether or not the lists repeat an entry.
THEOREM ReorderingIsNoChange == Spec => ReorderingKeepsRoutes
<1>1. IInv /\ [Next]_vars => [applied' # applied => ~SameRouting(inst.recorded, inst.spec)]_vars
  <2> SUFFICES ASSUME IInv, [Next]_vars, applied' # applied
               PROVE  ~SameRouting(inst.recorded, inst.spec)
    OBVIOUS
  <2>1. pc \in {"deleteService", "recreateService", "recreateRouter"}
    BY DEF Next, Reconcile, Read, UpdateDeployment, DeleteService, RecreateService, RecreateRouter,
           ReportSuccess, ReportFailure, Edit, SyncResource, Crash, vars
  <2>2. ~Equals(inst.recorded, inst.spec) /\ inst \in Resource
    BY <2>1 DEF IInv, TypeOK, AtService, ServiceChanged
  <2> QED
    BY <2>2, SameIsEqual DEF Resource
<1> QED
  BY <1>1, Invariance, PTL DEF Spec, ReorderingKeepsRoutes
=============================================================================
