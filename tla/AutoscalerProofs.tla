-------------------------- MODULE AutoscalerProofs --------------------------
(***************************************************************************)
(* Proofs about Autoscaler: its types, that no microservice is scaled down *)
(* to zero, and that an operator at rest has the autoscaler agree with the *)
(* section; for any sections, any number of edits and failures, and with   *)
(* or without an autoscaler of the user's own.                             *)
(***************************************************************************)
EXTENDS Autoscaler, TLAPS

-----------------------------------------------------------------------------
(* What the operator asks for *)

\* The number of replicas getInstanceObjects asks for is never zero.
LEMMA DesiredFacts == ASSUME NEW w \in Wish PROVE Desired(w) \in 1..MaxReplicas
  BY BoundsAssumption DEF Desired, Wish

\* An autoscaler the API server takes from the operator starts above zero.
LEMMA ScalerFacts ==
  ASSUME NEW w \in Wish, NEW apiVersion \in {"apps/v1", ""}
  PROVE  LET h == Scaler(w, apiVersion)
         IN  h \in Hpa /\ (Admitted(h) => h.min >= 1)
  BY DEF Wish, Hpa, Scaler, Admitted

-----------------------------------------------------------------------------
(* The inductive invariant *)

\* Of the autoscaler stored, whoever made it, the range begins above zero:
\* what Kubernetes makes of the replicas depends on it.
RangeAboveZero == hpa # None => hpa.min >= 1

IInv == TypeOK /\ NeverScaledToZero /\ RangeAboveZero

LEMMA InitIInv == Init => IInv
<1> SUFFICES ASSUME Init PROVE IInv
  OBVIOUS
<1>1. queued \in BOOLEAN /\ spoiled \in BOOLEAN
  BY Zenon DEF Init
<1>2. wish \in Wish /\ edits \in 0..MaxEdits /\ faults \in 0..MaxFaults
  BY WishesAssumption, BoundsAssumption DEF Init
<1> QED
  BY <1>1, <1>2 DEF Init, IInv, TypeOK, NeverScaledToZero, RangeAboveZero

\* A request fails only within the bound.
LEMMA FaultFacts == TypeOK /\ (Fault \/ UNCHANGED faults) => faults' \in 0..MaxFaults
  BY BoundsAssumption DEF Fault, TypeOK

\* The one request of the handler leaves an autoscaler whose range begins
\* above zero, or none.
LEMMA ApplyFacts ==
  ASSUME TypeOK, RangeAboveZero, inst \in Wish,
         NEW apiVersion \in {"apps/v1", ""}, ApplyScaler(apiVersion)
  PROVE  hpa' \in Hpa \union {None} /\ (hpa' # None => hpa'.min >= 1)
<1>1. hpa' = hpa \/ hpa' = None \/ (hpa' = Scaler(inst, apiVersion) /\ Admitted(hpa'))
  BY DEF ApplyScaler
<1> QED
  BY <1>1, ScalerFacts DEF TypeOK, RangeAboveZero

LEMMA NextIInv == IInv /\ [Next]_vars => IInv'
<1> SUFFICES ASSUME IInv, [Next]_vars PROVE IInv'
  OBVIOUS
<1> USE DEF IInv
<1>1. CASE Dequeue
  <2>1. queued' \in BOOLEAN
    BY <1>1, Zenon DEF Dequeue
  <2> QED
    BY <1>1, <2>1 DEF Dequeue, server, informers, count, TypeOK, NeverScaledToZero, RangeAboveZero
<1>2. CASE CreateDeployment
  <2>1. queued' \in BOOLEAN
    <3>1. queued' = TRUE \/ queued' \in {faults = 0 \/ queued, TRUE}
      BY <1>2 DEF CreateDeployment
    <3> QED
      BY <3>1, Zenon
  <2>2. inst \in Wish /\ Desired(inst) \in 1..MaxReplicas /\ existing = None
    BY <1>2, DesiredFacts DEF CreateDeployment, TypeOK
  <2>3. replicas' \in {replicas, None, Desired(inst)} /\ faults' \in 0..MaxFaults
    BY <1>2, FaultFacts DEF CreateDeployment
  <2>4. IF pc' = "idle" THEN inst' = None ELSE inst' \in Wish
    BY <1>2, <2>2 DEF CreateDeployment, Finish
  <2>5. pc' \in {"idle", "scaleNew"} /\ existing' = None
    BY <1>2, <2>2 DEF CreateDeployment, Finish
  <2> QED
    BY <1>2, <2>1, <2>2, <2>3, <2>4, <2>5
       DEF CreateDeployment, informers, TypeOK, NeverScaledToZero, RangeAboveZero
<1>3. CASE Run
  <2>1. inst \in Wish
    BY <1>3 DEF Run, TypeOK
  <2>2. hpa' \in Hpa \union {None} /\ (hpa' # None => hpa'.min >= 1)
    BY <1>3, <2>1, ApplyFacts DEF Run, TypeOK, RangeAboveZero
  <2>3. spoiled' \in BOOLEAN
    <3>1. spoiled' = spoiled \/ spoiled' = TRUE
      BY <1>3 DEF Run
    <3> QED
      BY <3>1, Zenon DEF TypeOK
  <2>4. faults' \in 0..MaxFaults
    BY <1>3, FaultFacts DEF Run
  <2>5. IF pc' = "idle" THEN inst' = None /\ existing' = None
        ELSE pc' = "update" /\ inst' \in Wish /\ existing' \in 0..MaxReplicas
    BY <1>3, <2>1 DEF Run, Finish, TypeOK
  <2> QED
    BY <1>3, <2>2, <2>3, <2>4, <2>5 DEF Run, informers, TypeOK, NeverScaledToZero, RangeAboveZero
<1>4. CASE UpdateDeployment
  <2>1. queued' \in BOOLEAN
    <3>1. queued' = queued \/ queued' = TRUE
      BY <1>4 DEF UpdateDeployment
    <3> QED
      BY <3>1, Zenon DEF TypeOK
  <2>2. inst \in Wish /\ Desired(inst) \in 1..MaxReplicas
    BY <1>4, DesiredFacts DEF UpdateDeployment, TypeOK
  <2>3. replicas' = replicas \/ replicas' = Desired(inst)
    BY <1>4 DEF UpdateDeployment
  <2>4. faults' \in 0..MaxFaults
    BY <1>4, FaultFacts DEF UpdateDeployment
  <2> QED
    BY <1>4, <2>1, <2>2, <2>3, <2>4
       DEF UpdateDeployment, Finish, informers, TypeOK, NeverScaledToZero, RangeAboveZero
<1>5. ASSUME NEW w \in Wishes, Edit(w) PROVE IInv'
  <2>1. queued' \in BOOLEAN /\ spoiled' \in BOOLEAN
    BY <1>5, Zenon DEF Edit, Settled
  <2>2. wish' \in Wish /\ edits' \in 0..MaxEdits
    BY <1>5, WishesAssumption, BoundsAssumption DEF Edit, TypeOK
  <2> QED
    BY <1>5, <2>1, <2>2 DEF Edit, server, informers, local, TypeOK, NeverScaledToZero, RangeAboveZero
<1>6. CASE AddUserScaler
  <2>1. hpa' \in Hpa /\ hpa'.min >= 1
    BY <1>6, BoundsAssumption DEF AddUserScaler, Hpa
  <2> QED
    BY <1>6, <2>1 DEF AddUserScaler, informers, local, count, TypeOK, NeverScaledToZero, RangeAboveZero
<1>7. CASE Scale
  <2>1. hpa \in Hpa /\ hpa.min >= 1
    BY <1>7 DEF Scale, TypeOK, RangeAboveZero
  <2>2. hpa.min \in 0..MaxReplicas /\ hpa.max \in 0..MaxReplicas
    BY <2>1 DEF Hpa
  <2>3. replicas' \in hpa.min..hpa.max
    BY <1>7 DEF Scale
  <2>4. replicas' \in 1..MaxReplicas
    BY <2>1, <2>2, <2>3, BoundsAssumption
  <2> QED
    BY <1>7, <2>4 DEF Scale, informers, local, count, TypeOK, NeverScaledToZero, RangeAboveZero
<1>8. CASE SyncDeployment \/ SyncScaler \/ UNCHANGED vars
  BY <1>8 DEF SyncDeployment, SyncScaler, vars, server, local, count, TypeOK, NeverScaledToZero, RangeAboveZero
<1> QED
  BY <1>1, <1>2, <1>3, <1>4, <1>5, <1>6, <1>7, <1>8 DEF Next, Reconcile

-----------------------------------------------------------------------------
(* Theorems *)

\* The inductive invariant holds in every reachable state.
THEOREM Invariance == Spec => []IInv
<1> QED
  BY InitIInv, NextIInv, PTL DEF Spec

\* The types hold, and a reconcile under way holds a section.
THEOREM TypeCorrect == Spec => []TypeOK
<1>1. IInv => TypeOK
  BY DEF IInv
<1> QED
  BY <1>1, Invariance, PTL

\* Neither a section, however odd, nor the autoscaler of Kubernetes between
\* two of them takes the Deployment to zero replicas (getInstanceObjects,
\* createScaler).
THEOREM AlwaysAReplica == Spec => []NeverScaledToZero
<1>1. IInv => NeverScaledToZero
  BY DEF IInv
<1> QED
  BY <1>1, Invariance, PTL

-----------------------------------------------------------------------------
(* The autoscaler at rest *)

\* The informer shows the autoscaler that is there, or not yet the one the user
\* has added.
Fresh == hpaSeen = hpa \/ (hpaSeen = None /\ hpa # None /\ hpa.owner = "user")

\* What is known to be the user's is left alone.
UserKnown == hpaSeen # None /\ hpaSeen.owner = "user" => hpa = hpaSeen

\* A Deployment the informer has shown is there: the operator deletes none.
Stays == replicasSeen # None => replicas # None

\* Between an edit made at rest and the handler's next request its copy is
\* fresh; after that request the autoscaler agrees with the section, and what is
\* done on stale copies from then on changes nothing about that.
Undisturbed ==
  ~spoiled =>
    /\ pc # "idle" => inst = wish
    /\ edits > 0 => replicasSeen # None /\ pc \notin {"create", "scaleNew"}
    /\ \/ Agrees(hpa, wish)
       \/ Fresh /\ (pc \in {"create", "scaleNew", "scale"} \/ (pc = "idle" /\ queued))

RestInv == IInv /\ UserKnown /\ Stays /\ Undisturbed

\* An autoscaler of the user's suits every section; none suits one that does not
\* ask for any; and the operator's suits the section it is made of, if it names
\* the Deployment or the section has never changed.
LEMMA AgreesFacts ==
  ASSUME NEW w \in Wish, edits \in Nat
  PROVE  /\ \A h : h # None /\ h.owner = "user" => Agrees(h, w)
         /\ ~Enabled(w) => Agrees(None, w)
         /\ ~(Enabled(w) /\ Accepted(w) /\ Admitted(Scaler(w, ""))) /\ Enabled(w)
              => \A h : Agrees(h, w)
         /\ \A v : (edits = 0 \/ v = "apps/v1") /\ Enabled(w) /\ Scaler(w, v) # None
              => Agrees(Scaler(w, v), w)
<1>1. ASSUME NEW h
      PROVE  Agrees(h, w) <=>
               /\ Enabled(w) /\ Accepted(w) /\ Admitted(Scaler(w, "")) =>
                    /\ h # None
                    /\ h.owner = "operator" =>
                         /\ h.min = w.min /\ h.max = w.max
                         /\ edits > 0 => h.target = "apps/v1"
               /\ ~Enabled(w) => h = None \/ h.owner = "user"
  BY DEF Agrees
<1>2. ASSUME NEW h, h # None, h.owner = "user" PROVE Agrees(h, w)
  BY <1>1, <1>2
<1>3. ~Enabled(w) => Agrees(None, w)
  BY <1>1
<1>4. ASSUME NEW h, Enabled(w), ~(Accepted(w) /\ Admitted(Scaler(w, ""))) PROVE Agrees(h, w)
  BY <1>1, <1>4
<1>5. ASSUME NEW v, edits = 0 \/ v = "apps/v1", Scaler(w, v) # None, Enabled(w)
      PROVE  Agrees(Scaler(w, v), w)
  <2> DEFINE h == Scaler(w, v)
  <2>1. h.min = w.min /\ h.max = w.max /\ h.target = v
    BY DEF Scaler
  <2>2. edits > 0 => v = "apps/v1"
    BY <1>5
  <2>3. h # None
    BY <1>5
  <2> HIDE DEF h
  <2>4. Agrees(h, w)
    BY <1>1, <1>5, <2>1, <2>2, <2>3
  <2> QED
    BY <2>4 DEF h
<1> QED
  BY <1>2, <1>3, <1>4, <1>5

LEMMA EditsFacts == TypeOK => edits \in Nat
  BY BoundsAssumption DEF TypeOK

\* The handler's request makes the autoscaler agree, on a fresh copy, and leaves
\* it in agreement, on any.
LEMMA ApplyAgrees ==
  ASSUME RestInv, inst \in Wish, NEW v \in {"apps/v1", ""}, edits = 0 \/ v = "apps/v1",
         ApplyScaler(v), Agrees(hpa, inst) \/ Fresh
  PROVE  Agrees(hpa', inst)
<1>0. TypeOK /\ edits \in Nat /\ None \notin Hpa
  BY EditsFacts, NoneAssumption DEF RestInv, IInv
<1>1. Admitted(Scaler(inst, v)) <=> Admitted(Scaler(inst, ""))
  BY DEF Admitted, Scaler
<1>2. Enabled(inst) => Agrees(Scaler(inst, v), inst)
  <2>1. Scaler(inst, v) # None
    BY <1>0, ScalerFacts
  <2> QED
    BY <1>0, <2>1, AgreesFacts
<1>3. CASE hpaSeen # None /\ hpaSeen.owner = "user"
  <2>1. hpa' = hpa /\ hpa # None /\ hpa.owner = "user"
    BY <1>3 DEF ApplyScaler, RestInv, UserKnown
  <2> QED
    BY <1>0, <2>1, AgreesFacts
<1>4. CASE hpaSeen # None /\ hpaSeen.owner # "user"
  <2>1. CASE ~Enabled(inst)
    BY <1>0, <1>4, <2>1, AgreesFacts DEF ApplyScaler
  <2>2. CASE Enabled(inst) /\ ~(Accepted(inst) /\ Admitted(Scaler(inst, "")))
    BY <1>0, <2>2, AgreesFacts
  <2>3. CASE Enabled(inst) /\ Accepted(inst) /\ Admitted(Scaler(inst, ""))
    <3>1. hpa # None
      BY <1>4, <2>3 DEF Agrees, Fresh
    <3> QED
      BY <1>1, <1>2, <1>4, <2>3, <3>1 DEF ApplyScaler
  <2> QED
    BY <2>1, <2>2, <2>3
<1>5. CASE hpaSeen = None
  <2>1. CASE hpa' = hpa /\ (Agrees(hpa, inst) \/ (hpa # None /\ hpa.owner = "user"))
    BY <1>0, <2>1, AgreesFacts
  <2>2. CASE Enabled(inst) /\ hpa' = Scaler(inst, v)
    BY <1>2, <2>2
  <2>3. CASE hpa' = hpa /\ hpa = None
    <3>1. ~(Enabled(inst) /\ Accepted(inst) /\ Admitted(Scaler(inst, "")))
      <4>1. Scaler(inst, v) # None
        BY <1>0, ScalerFacts
      <4> QED
        BY <1>1, <1>5, <2>3, <4>1 DEF ApplyScaler
    <3> QED
      BY <1>0, <2>3, <3>1, AgreesFacts
  <2> QED
    BY <1>5, <2>1, <2>2, <2>3 DEF ApplyScaler, Fresh
<1> QED
  BY <1>3, <1>4, <1>5

LEMMA InitRest == Init => RestInv
<1> SUFFICES ASSUME Init PROVE RestInv
  OBVIOUS
<1>1. IInv
  BY InitIInv
<1> QED
  BY <1>1 DEF Init, RestInv, UserKnown, Stays, Undisturbed, Fresh

LEMMA NextRest == RestInv /\ [Next]_vars => RestInv'
<1> SUFFICES ASSUME RestInv, [Next]_vars PROVE UserKnown' /\ Stays' /\ Undisturbed'
  BY NextIInv DEF RestInv
<1>0. /\ IInv /\ TypeOK /\ UserKnown /\ Stays /\ Undisturbed /\ edits \in Nat
      /\ pc # "idle" => inst \in Wish
  BY BoundsAssumption DEF RestInv, IInv, TypeOK
\* A step that leaves the section, the handler's failures and the edits alone.
<1>c. ASSUME UNCHANGED <<wish, edits, hpa>>, Agrees(hpa, wish) PROVE Agrees(hpa', wish')
  BY <1>c DEF Agrees
<1>1. CASE Dequeue
  BY <1>0, <1>1 DEF Dequeue, server, informers, count, UserKnown, Stays, Undisturbed, Fresh, Agrees
<1>2. CASE CreateDeployment
  <2>1. Desired(inst) # None
    BY <1>0, <1>2, DesiredFacts, NoneAssumption DEF CreateDeployment
  <2> QED
    BY <1>0, <1>2, <2>1
       DEF CreateDeployment, Finish, informers, UserKnown, Stays, Undisturbed, Fresh, Agrees
<1>3. CASE Run
  <2>1. UNCHANGED <<wish, queued, replicas, replicasSeen, hpaSeen, edits>> /\ pc \in {"scaleNew", "scale"}
        /\ pc' \in {"idle", "update"} /\ (pc' # "idle" => inst' = inst) /\ inst \in Wish
    BY <1>0, <1>3 DEF Run, Finish, informers
  <2>2. hpa' = hpa \/ ApplyScaler(IF pc = "scaleNew" THEN "" ELSE "apps/v1")
    BY <1>3 DEF Run
  <2>3. UserKnown' /\ Stays'
    BY <1>0, <2>1, <2>2 DEF UserKnown, Stays, ApplyScaler
  <2>4. ASSUME ~spoiled' PROVE Agrees(hpa', wish) /\ inst = wish /\ ~spoiled
    <3> DEFINE A == ApplyScaler(IF pc = "scaleNew" THEN "" ELSE "apps/v1")
    <3>0. (A /\ spoiled' = spoiled) \/ spoiled' = TRUE
      BY <1>3 DEF Run
    <3> HIDE DEF A
    <3>1. ~spoiled /\ A
      BY <2>4, <3>0
    <3>2. /\ inst = wish /\ (edits = 0 \/ pc = "scale") /\ (Agrees(hpa, inst) \/ Fresh)
      BY <1>0, <2>1, <3>1 DEF Undisturbed
    <3>3. CASE pc = "scale"
      BY <2>1, <3>1, <3>2, <3>3, ApplyAgrees DEF A
    <3>4. CASE pc = "scaleNew"
      BY <2>1, <3>1, <3>2, <3>4, ApplyAgrees DEF A
    <3> QED
      BY <2>1, <3>1, <3>2, <3>3, <3>4
  <2>5. Undisturbed'
    BY <1>0, <2>1, <2>4 DEF Undisturbed, Agrees
  <2> QED
    BY <2>3, <2>5
<1>4. CASE UpdateDeployment
  <2>1. Desired(inst) # None
    BY <1>0, <1>4, DesiredFacts, NoneAssumption DEF UpdateDeployment
  <2> QED
    BY <1>0, <1>4, <2>1
       DEF UpdateDeployment, Finish, informers, UserKnown, Stays, Undisturbed, Fresh, Agrees
<1>5. ASSUME NEW w \in Wishes, Edit(w) PROVE UserKnown' /\ Stays' /\ Undisturbed'
  BY <1>0, <1>5 DEF Edit, Settled, server, informers, local, UserKnown, Stays, Undisturbed, Fresh
<1>6. CASE AddUserScaler
  <2>1. UNCHANGED <<wish, queued, replicas, replicasSeen, hpaSeen, pc, inst, spoiled, edits>> /\ hpa = None
        /\ hpa'.owner = "user"
    BY <1>6 DEF AddUserScaler, informers, local, count
  <2>n. hpa' # None
    <3>1. hpa' \in Hpa
      BY <1>6, BoundsAssumption DEF AddUserScaler, Hpa
    <3> QED
      BY <3>1, NoneAssumption
  <2>2. Agrees(hpa, wish) => Agrees(hpa', wish')
    BY <1>0, <2>1, <2>n, AgreesFacts DEF TypeOK
  <2>3. UserKnown' /\ Stays'
    BY <1>0, <2>1 DEF UserKnown, Stays
  <2>4. Fresh => Fresh'
    BY <2>1, <2>n DEF Fresh
  <2>5. CASE spoiled
    BY <2>1, <2>3, <2>5 DEF Undisturbed
  <2>6. CASE ~spoiled
    <3>1. \/ Agrees(hpa', wish')
          \/ Fresh' /\ (pc \in {"create", "scaleNew", "scale"} \/ (pc = "idle" /\ queued))
      BY <1>0, <2>2, <2>4, <2>6 DEF Undisturbed
    <3>2. /\ pc # "idle" => inst = wish
          /\ edits > 0 => replicasSeen # None /\ pc \notin {"create", "scaleNew"}
      BY <1>0, <2>6 DEF Undisturbed
    <3>3. Undisturbed'
      BY <2>1, <3>1, <3>2 DEF Undisturbed, Agrees
    <3> QED
      BY <2>3, <3>3
  <2> QED
    BY <2>5, <2>6
<1>7. CASE Scale
  <2>1. replicas' # None
    <3>1. hpa.min \in 0..MaxReplicas /\ hpa.max \in 0..MaxReplicas
      BY <1>0, <1>7 DEF Scale, TypeOK, Hpa
    <3>2. replicas' \in 0..MaxReplicas
      BY <1>7, <3>1, BoundsAssumption DEF Scale
    <3> QED
      BY <3>2, NoneAssumption
  <2> QED
    BY <1>0, <1>7, <2>1 DEF Scale, informers, local, count, UserKnown, Stays, Undisturbed, Fresh, Agrees
<1>8. CASE SyncDeployment \/ SyncScaler
  BY <1>0, <1>8 DEF SyncDeployment, SyncScaler, server, local, count, UserKnown, Stays, Undisturbed, Fresh, Agrees
<1>9. CASE UNCHANGED vars
  BY <1>0, <1>9 DEF vars, UserKnown, Stays, Undisturbed, Fresh, Agrees
<1> QED
  BY <1>1, <1>2, <1>3, <1>4, <1>5, <1>6, <1>7, <1>8, <1>9 DEF Next, Reconcile

\* An operator at rest has the autoscaler agree with the section
\* (AutoScalingHandler.Run), however old the copies it went by, unless one of
\* its own errors was dropped or an edit came too soon.
THEOREM AgreesAtRest == Spec => []RestAgrees
<1>1. RestInv => RestAgrees
  BY DEF RestInv, Undisturbed, RestAgrees
<1> QED
  BY <1>1, InitRest, NextRest, PTL DEF Spec

\* So the autoscaler converges if the operator comes to rest for good, which is
\* what fairness has to bring about.
THEOREM RestConverges == Spec /\ <>[](pc = "idle" /\ ~queued) => ScalerConverges
<1>1. RestAgrees /\ pc = "idle" /\ ~queued => spoiled \/ Agrees(hpa, wish)
  BY DEF RestAgrees
<1> QED
  BY <1>1, AgreesAtRest, PTL DEF ScalerConverges
=============================================================================
