----------------------------- MODULE Autoscaler -----------------------------
(***************************************************************************)
(* AutoScalingHandler (process/autoscaling_handler.go) and the replicas of *)
(* the Deployment, for one microservice: what the reconciler writes to the *)
(* HorizontalPodAutoscaler and to the Deployment, what the autoscaler of   *)
(* Kubernetes does with them, and a user who may keep an autoscaler of his *)
(* own under the same name.                                                *)
(*                                                                         *)
(* The reconciler reads both through informers that lag.  It never returns *)
(* an error of the handler, so nothing is tried again before the next      *)
(* change of the microservice.                                             *)
(***************************************************************************)
EXTENDS Integers

CONSTANTS Wishes,      \* the autoscaling sections users write
          MaxReplicas, \* bound: replicas
          None,        \* no object
          SmartReload, \* SMART_RELOAD is not "false"
          UserScaler,  \* the user may keep an autoscaler of his own
          MaxEdits,    \* bound: edits
          MaxFaults    \* bound: failed requests

\* The scaler list: absent, one createScaler accepts, or one it rejects.
Wish == [min : 0..MaxReplicas, max : 0..MaxReplicas, scaler : {"none", "valid", "invalid"}]

ASSUME WishesAssumption == Wishes \subseteq Wish
ASSUME BoundsAssumption == MaxReplicas \in Nat \ {0} /\ MaxEdits \in Nat /\ MaxFaults \in Nat

VARIABLES
  wish,      \* Spec.Autoscaling
  queued,    \* the microservice is in the work queue
  replicas,  \* API server: Spec.Replicas of the Deployment, None before it exists
  hpa,       \* API server: the autoscaler
  replicasSeen, hpaSeen,  \* the informers: the same
  pc, inst,  \* the reconcile: where it is, and the section it has read
  existing,  \* the replicas of existingDeployment, None if it was not found
  spoiled,   \* since the last edit made at rest, the handler has failed or
             \* another edit has come too soon (history)
  edits, faults

server == <<replicas, hpa>>
informers == <<replicasSeen, hpaSeen>>
local == <<pc, inst, existing>>
count == <<spoiled, edits, faults>>
vars == <<wish, queued, replicas, hpa, replicasSeen, hpaSeen, pc, inst, existing,
          spoiled, edits, faults>>

Hpa == [owner : {"operator", "user"}, min : 0..MaxReplicas, max : 0..MaxReplicas,
        target : {"apps/v1", ""}]

ASSUME NoneAssumption == None \notin Hpa /\ None \notin 0..MaxReplicas

-----------------------------------------------------------------------------
(* autoScalingEnabled, getInstanceObjects and createScaler *)

Enabled(w) == w.min # w.max /\ w.scaler # "none"

\* createScaler: every metric of a known resource and type, with a limit on the
\* container and a value that parses.
Accepted(w) == w.scaler = "valid"

\* A slip for the mutants: a min of zero is taken for a number of replicas.
DesiredUnchecked(w) == IF w.min = w.max \/ w.scaler = "none" THEN w.min ELSE 1

\* One replica, unless there is no scaling and a number is given.
Desired(w) == IF (w.min = w.max \/ w.scaler = "none") /\ w.min > 0 THEN w.min ELSE 1

\* The apiVersion of the scaled Deployment is the one in the Go object: set on
\* an object read through the informer, empty on one the operator has built.
Scaler(w, apiVersion) ==
  [owner |-> "operator", min |-> w.min, max |-> w.max, target |-> apiVersion]

\* The API server's validation of an autoscaler.
Admitted(h) == 1 <= h.min /\ h.min <= h.max

-----------------------------------------------------------------------------
Init ==
  /\ wish \in Wishes /\ queued = TRUE
  /\ replicas = None /\ hpa = None /\ replicasSeen = None /\ hpaSeen = None
  /\ pc = "idle" /\ inst = None /\ existing = None
  /\ spoiled = FALSE /\ edits = 0 /\ faults = 0

Fault == faults < MaxFaults /\ faults' = faults + 1

\* A slip for the mutants: the section read is kept.
FinishHeld == pc' = "idle" /\ existing' = None /\ UNCHANGED inst

Finish == pc' = "idle" /\ inst' = None /\ existing' = None

\* The create path first creates the Deployment, then runs the handler; the
\* update path runs it before it updates the Deployment.
Dequeue ==
  /\ pc = "idle" /\ queued
  /\ inst' = wish /\ existing' = replicasSeen /\ queued' = FALSE
  /\ pc' = IF replicasSeen = None THEN "create" ELSE "scale"
  /\ UNCHANGED <<wish, server, informers, count>>

\* A failure here, or later at the Service, brings the reconcile back and skips
\* the handler; a Deployment that the informer has not shown yet is such a
\* failure.  After a success the event of the finalizer registered on the way
\* here brings another reconcile, unless a failed try has been the answer to it.
CreateDeployment ==
  /\ pc = "create"
  /\ \/ /\ replicas = None /\ replicas' = Desired(inst)
        /\ pc' = "scaleNew" /\ queued' \in {faults = 0 \/ queued, TRUE}
        /\ UNCHANGED <<inst, existing, faults>>
     \/ /\ replicas # None /\ Finish /\ queued' = TRUE
        /\ UNCHANGED <<replicas, faults>>
     \/ /\ Fault /\ Finish /\ queued' = TRUE
        /\ IF replicas = None THEN replicas' \in {None, Desired(inst)} ELSE UNCHANGED replicas
  /\ UNCHANGED <<wish, hpa, informers, spoiled, edits>>

\* Update replaces what is there; Create keeps it, and its AlreadyExists is
\* not taken for an error.
ApplyScaler(apiVersion) ==
  IF hpaSeen = None
  THEN hpa' = IF hpa = None /\ Enabled(inst) /\ Accepted(inst)
                   /\ Admitted(Scaler(inst, apiVersion))
              THEN Scaler(inst, apiVersion) ELSE hpa
  ELSE IF hpaSeen.owner = "user" THEN UNCHANGED hpa
  ELSE IF ~Enabled(inst) THEN hpa' = None
  ELSE hpa' = IF hpa # None /\ Accepted(inst) /\ Admitted(Scaler(inst, apiVersion))
              THEN Scaler(inst, apiVersion) ELSE hpa

\* A slip for the mutants: the handler does nothing for an autoscaler it no
\* longer wants.
RunWithoutDelete ==
  /\ pc \in {"scaleNew", "scale"}
  /\ \/ /\ IF Enabled(inst) THEN ApplyScaler(IF pc = "scaleNew" THEN "" ELSE "apps/v1")
                            ELSE UNCHANGED hpa
        /\ UNCHANGED <<faults, spoiled>>
     \/ Fault /\ spoiled' = TRUE /\ UNCHANGED hpa
  /\ IF pc = "scaleNew" THEN Finish ELSE pc' = "update" /\ UNCHANGED <<inst, existing>>
  /\ UNCHANGED <<wish, queued, replicas, informers, edits>>

\* AutoScalingHandler.Run: one request at most, and no error is returned.
Run ==
  /\ pc \in {"scaleNew", "scale"}
  /\ \/ /\ ApplyScaler(IF pc = "scaleNew" THEN "" ELSE "apps/v1")
        /\ UNCHANGED <<faults, spoiled>>
     \/ Fault /\ spoiled' = TRUE /\ UNCHANGED hpa
  /\ IF pc = "scaleNew" THEN Finish ELSE pc' = "update" /\ UNCHANGED <<inst, existing>>
  /\ UNCHANGED <<wish, queued, replicas, informers, edits>>

\* Under smart reload the Deployment is updated if the replicas read at the
\* outset are not the min of the section (or something else has changed).
UpdateDeployment ==
  /\ pc = "update"
  /\ \/ replicas' = Desired(inst) /\ UNCHANGED <<queued, faults>>
     \/ SmartReload /\ existing = inst.min /\ UNCHANGED <<replicas, queued, faults>>
     \/ Fault /\ queued' = TRUE /\ UNCHANGED replicas
  /\ Finish
  /\ UNCHANGED <<wish, hpa, informers, spoiled, edits>>

-----------------------------------------------------------------------------
(* The environment *)

\* The operator has handled what it knows of; its informers show the Deployment,
\* and the autoscaler as it is.
Settled == replicasSeen # None /\ hpaSeen = hpa /\ pc = "idle" /\ ~queued

Edit(w) ==
  /\ edits < MaxEdits /\ w # wish
  /\ spoiled' = ~Settled
  /\ wish' = w /\ queued' = TRUE /\ edits' = edits + 1
  /\ UNCHANGED <<server, informers, local, faults>>

\* The user adds an autoscaler of his own where there is none.
AddUserScaler ==
  /\ UserScaler /\ hpa = None
  /\ hpa' = [owner |-> "user", min |-> 1, max |-> MaxReplicas, target |-> "apps/v1"]
  /\ UNCHANGED <<wish, queued, replicas, informers, local, count>>

\* The autoscaler of Kubernetes sets any number of replicas in its range.
Scale ==
  /\ hpa # None /\ replicas # None
  /\ hpa.target = "apps/v1"
  /\ replicas' \in hpa.min..hpa.max
  /\ UNCHANGED <<wish, queued, hpa, informers, local, count>>

SyncDeployment ==
  /\ replicasSeen # replicas /\ replicasSeen' = replicas
  /\ UNCHANGED <<wish, queued, server, hpaSeen, local, count>>

SyncScaler ==
  /\ hpaSeen # hpa /\ hpaSeen' = hpa
  /\ UNCHANGED <<wish, queued, server, replicasSeen, local, count>>

Reconcile == Dequeue \/ CreateDeployment \/ Run \/ UpdateDeployment

Next ==
  \/ Reconcile
  \/ \E w \in Wishes : Edit(w)
  \/ AddUserScaler \/ Scale \/ SyncDeployment \/ SyncScaler

Spec == Init /\ [][Next]_vars

\* The worker and the informers go on; nothing is asked of users or Kubernetes.
FairSpec ==
  Spec /\ WF_vars(Reconcile) /\ WF_vars(SyncDeployment) /\ WF_vars(SyncScaler)
-----------------------------------------------------------------------------
(* Properties *)

\* The variables stay in their types, a section is held exactly while a reconcile
\* is under way, and the replicas of a Deployment on the update path alone.
TypeOK ==
  /\ wish \in Wish /\ queued \in BOOLEAN
  /\ replicas \in 0..MaxReplicas \union {None}
  /\ replicasSeen \in 0..MaxReplicas \union {None}
  /\ hpa \in Hpa \union {None} /\ hpaSeen \in Hpa \union {None}
  /\ pc \in {"idle", "create", "scaleNew", "scale", "update"}
  /\ IF pc = "idle" THEN inst = None ELSE inst \in Wish
  /\ IF pc \in {"scale", "update"} THEN existing \in 0..MaxReplicas ELSE existing = None
  /\ spoiled \in BOOLEAN /\ edits \in 0..MaxEdits /\ faults \in 0..MaxFaults

\* No sequence of sections, however odd their min and max, and no scaling in
\* between takes a microservice down to zero replicas: at zero the autoscaler
\* of Kubernetes would stay off.
NeverScaledToZero == replicas = None \/ replicas > 0

Agrees(h, w) ==
  CASE Enabled(w) /\ Accepted(w) /\ Admitted(Scaler(w, "")) ->
         /\ h # None
         /\ h.owner = "operator" =>
              /\ h.min = w.min /\ h.max = w.max
              /\ edits > 0 => h.target = "apps/v1"
    [] ~Enabled(w) -> h = None \/ h.owner = "user"
    [] OTHER -> TRUE

\* A handler that has no more to do has done it: whenever the operator is at
\* rest, the autoscaler agrees with the section, unless an error was dropped or
\* an edit came too soon since the last edit made at rest.  It goes by a copy
\* of the autoscaler that may be older than its own last request.
RestAgrees == pc = "idle" /\ ~queued => spoiled \/ Agrees(hpa, wish)

\* "Successfully created/updated/deleted AutoScaling configuration": when the
\* edits end, the autoscaler has the range of the last section and scales the
\* Deployment, or is gone if that section does not enable it.  This needs an
\* edit made at rest after which no request of the handler has failed: errors
\* of the handler are dropped and stale answers believed, but one such edit
\* makes good for all that went wrong before.  Errors anywhere else in the
\* reconcile bring the handler back.
ScalerConverges == <>[](spoiled \/ Agrees(hpa, wish))
-----------------------------------------------------------------------------
(* What messages of the code say, and the code does not do *)

\* "min: 2" of the README's example: an update of the Deployment does not take
\* a microservice that scales below the min of its section.
UpdateKeepsMin ==
  [][pc = "update" /\ replicas' # replicas /\ Enabled(inst) /\ hpa # None
       => replicas' >= inst.min]_vars
=============================================================================
