--------------------------- MODULE RoutingChange ---------------------------
(***************************************************************************)
(* How a microservice that has been created gets other routes under smart  *)
(* reload.  hasChanges goes by Equals (util/komutil.go), which compares    *)
(* the list recorded in the status with the list in the spec; and          *)
(* udpateStatus records the list of the spec whenever a reconcile has      *)
(* changed anything, with either result, whether its routes have been made *)
(* or not.  The module Reconciler has the lists as functions from port to  *)
(* rule; here they are lists, which may be reordered and may repeat an     *)
(* entry, and the rest of the reconcile is kept short: one microservice,   *)
(* which nobody deletes, its Deployment always there.                      *)
(***************************************************************************)
EXTENDS SequencesExt, FiniteSets, Naturals

CONSTANTS Entry,       \* pairs of a port and a rule
          None,        \* no service, no instance at hand
          MaxEntries,  \* bound: entries of a routing
          MaxEdits     \* bound: edits of the spec

ASSUME BoundsAssumption == MaxEntries \in Nat /\ MaxEdits \in Nat

Routings == BoundedSeq(Entry, MaxEntries)

\* The custom resource: Spec.Container.Routing.HTTP, Status.Routing.HTTP,
\* Status.Status and the generation.
Resource == [spec : Routings, recorded : Routings,
             phase : {"Success", "Failure"}, gen : 1..MaxEdits + 1]

ASSUME NoneAssumption == None \notin Routings /\ None \notin Resource

VARIABLES
  cr,       \* the custom resource
  applied,  \* the list the service and its routes were last made from: empty
            \* for a service without routes, None for no service
  seen,     \* the custom resource in the informer
  queued,   \* the microservice is in the work queue
  pc,       \* where Reconcile is
  inst,     \* its local variable instance
  concealed \* the status may no longer tell the routes apart from those wanted:
            \* an error has been dropped, or an edit has overtaken a reconcile
            \* (history, until the status is next known to be true)

vars == <<cr, applied, seen, queued, pc, inst, concealed>>

-----------------------------------------------------------------------------
\* Slips for the mutants: the lengths are not compared; the lists are compared
\* place by place.
EqualsAnyLength(a, b) == \A i \in DOMAIN a : \E j \in DOMAIN b : a[i] = b[j]
EqualsInPlace(a, b) == a = b

\* Equals: as long, and every entry of the first is found in the second.
Equals(a, b) ==
  /\ Len(a) = Len(b)
  /\ \A i \in DOMAIN a : \E j \in DOMAIN b : a[i] = b[j]

ServiceChanged(i) == ~Equals(i.recorded, i.spec)

\* Created, with success, and settled.
Init ==
  /\ \E r \in Routings :
       /\ cr = [spec |-> r, recorded |-> r, phase |-> "Success", gen |-> 1]
       /\ applied = IF r = << >> THEN None ELSE r
  /\ seen = cr /\ queued = FALSE
  /\ pc = "idle" /\ inst = None /\ concealed = FALSE

Done == pc' = "idle" /\ inst' = None

Go(next) == pc' = next /\ UNCHANGED inst

Failed == concealed' = TRUE

\* The instance is read from the informer.  The Deployment may have changed too,
\* or count as changed (hasChanges); if nothing has, that is all.
Read ==
  /\ pc = "idle" /\ queued /\ queued' = FALSE
  /\ \/ inst' = seen /\ pc' = "updateDeployment"
     \/ inst' = seen /\ pc' = "deleteService" /\ ServiceChanged(seen)
     \/ Done /\ ~ServiceChanged(seen)
  /\ UNCHANGED <<cr, applied, seen, concealed>>

UpdateDeployment ==
  /\ pc = "updateDeployment"
  /\ \/ Go(IF ServiceChanged(inst) THEN "deleteService" ELSE "success") /\ UNCHANGED concealed
     \/ Go("failure") /\ Failed
  /\ UNCHANGED <<cr, applied, seen, queued>>

\* The process ends and a new one starts.
Restart == seen' = cr' /\ queued' = TRUE /\ Done

\* The service may be missing, or missing in the informer, or not be deleted;
\* whatever fails from here on leads to success.  Without a routing in the spec
\* the variable service is nil, and that ends the process.
DeleteService ==
  /\ pc = "deleteService" /\ UNCHANGED cr
  /\ \/ Failed /\ Go("success") /\ UNCHANGED <<applied, seen, queued>>
     \/ /\ applied # None /\ applied' = None /\ UNCHANGED concealed
        /\ IF inst.spec = << >> THEN Restart
           ELSE Go("recreateService") /\ UNCHANGED <<seen, queued>>

\* RemoveRouter and Create.
RecreateService ==
  /\ pc = "recreateService"
  /\ \/ applied' = << >> /\ Go("recreateRouter") /\ UNCHANGED concealed
     \/ Failed /\ Go("success") /\ UNCHANGED applied
  /\ UNCHANGED <<cr, seen, queued>>

\* CreateRouter may fail before or after it has stored the routes.
RecreateRouter ==
  /\ pc = "recreateRouter"
  /\ \/ applied' = inst.spec /\ UNCHANGED concealed
     \/ applied' \in {applied, inst.spec} /\ Failed
  /\ Go("success")
  /\ UNCHANGED <<cr, seen, queued>>

\* A slip for the mutants: the routing is appended to the one recorded.
ReportedAppended(phase) == [inst EXCEPT !.recorded = @ \o inst.spec, !.phase = phase]

\* udpateStatus: the routing of the spec is recorded with either phase.
Reported(phase) == [inst EXCEPT !.recorded = inst.spec, !.phase = phase]

\* Both lists hold the same entries equally often.
Times(e, r) == Cardinality({i \in DOMAIN r : r[i] = e})
SameRouting(a, b) == \A e \in Entry : Times(e, a) = Times(e, b)

\* The service was last made from the routing r.
MadeFrom(r) == applied # None /\ SameRouting(applied, r)

\* It is written if it differs (also by the order of the list), the write is
\* refused if the resource has changed, and that error is dropped.
WriteStatus(phase) ==
  \/ /\ cr = inst /\ cr' = Reported(phase)
     /\ concealed' = (concealed /\ ~(phase = "Success" /\ MadeFrom(inst.spec)))
  \/ cr # inst /\ Reported(phase) = inst /\ UNCHANGED <<cr, concealed>>
  \/ Reported(phase) # inst /\ Failed /\ UNCHANGED cr

ReportSuccess ==
  /\ pc = "success" /\ WriteStatus("Success") /\ Done
  /\ UNCHANGED <<applied, seen, queued>>

ReportFailure ==
  /\ pc = "failure" /\ WriteStatus("Failure") /\ Done
  /\ queued' = TRUE
  /\ UNCHANGED <<applied, seen>>

-----------------------------------------------------------------------------
(* The environment *)

\* An edit overtakes a reconcile that was interrupted, or not recorded yet.
Edit(r) ==
  /\ r # cr.spec /\ cr.gen <= MaxEdits
  /\ cr' = [cr EXCEPT !.spec = r, !.gen = @ + 1]
  /\ concealed' = (concealed \/ (applied # None /\ ~MadeFrom(cr.recorded)))
  /\ UNCHANGED <<applied, seen, queued, pc, inst>>

\* ignoreStatusUpdatePredicate.
SyncResource ==
  /\ seen # cr /\ seen' = cr
  /\ queued' = (queued \/ seen.gen # cr.gen)
  /\ UNCHANGED <<cr, applied, pc, inst, concealed>>

Crash ==
  /\ UNCHANGED <<cr, applied>> /\ Restart
  /\ concealed' = (concealed \/ (pc # "idle" /\ cr # inst))

Reconcile ==
  \/ Read \/ UpdateDeployment
  \/ DeleteService \/ RecreateService \/ RecreateRouter
  \/ ReportSuccess \/ ReportFailure

Next ==
  \/ Reconcile
  \/ \E r \in Routings : Edit(r)
  \/ SyncResource \/ Crash

Spec == Init /\ [][Next]_vars
-----------------------------------------------------------------------------
(* Properties *)

Place == {"idle", "updateDeployment", "deleteService", "recreateService", "recreateRouter",
          "success", "failure"}

\* The variables stay in their types, and the worker has an instance exactly
\* while it is busy.
TypeOK ==
  /\ cr \in Resource /\ seen \in Resource
  /\ applied \in Routings \union {None}
  /\ queued \in BOOLEAN /\ concealed \in BOOLEAN
  /\ pc \in Place
  /\ IF pc = "idle" THEN inst = None ELSE inst \in Resource

\* The operator has nothing to do, and has seen the last edit.
AtRest == pc = "idle" /\ ~queued /\ seen.gen = cr.gen

\* "Equals checks object equality": at rest, the routes are those the spec asks
\* for, whatever edits came one upon the other, though the status may have been
\* rewritten for other reasons, stale copies been read and the process lost on
\* the way.  Unless they were made from a list with an entry twice; or the
\* service is gone (what becomes of it then is the matter of Reconciler); or the
\* status conceals it.
ChangeNoticed ==
  AtRest /\ ~concealed /\ applied # None /\ IsInjective(applied) => SameRouting(applied, cr.spec)

\* The service and the routes of a microservice are only touched by a reconcile
\* that has read a spec with other routes than the status records: a list that
\* is only reordered keeps them, repeats or not.
ReorderingKeepsRoutes ==
  [][applied' # applied => ~SameRouting(inst.recorded, inst.spec)]_vars
=============================================================================
