----------------------------- MODULE Lifecycle -----------------------------
(***************************************************************************)
(* What the operator promises about the life of a microservice and of the  *)
(* things that exist on its behalf: none of them comes before the operator *)
(* has registered its finalizer or after it has taken it away, whatever    *)
(* fails in between, and a microservice with a routing is only let go once *)
(* its routes are gone.                                                    *)
(*                                                                         *)
(* There is one exception, and it is part of the promise: routes may come  *)
(* back at any time as long as the copy of the configuration the operator  *)
(* works with still has them.                                              *)
(***************************************************************************)
CONSTANT Microservice

VARIABLES life,        \* where the custom resource is in its life
          routed,      \* its spec has a routing
          objects,     \* what exists on its behalf
          remembered   \* the operator's copy of the configuration has its routes

vars == <<life, routed, objects, remembered>>

Object == {"deployment", "service", "routes"}

\* absent -> new -> kept -> leaving -> released -> absent; new may also be
\* deleted at once, and the last step skipped.
Life == {"absent", "new", "kept", "leaving", "released"}

TypeOK ==
  /\ life \in [Microservice -> Life]
  /\ routed \in [Microservice -> BOOLEAN]
  /\ objects \in [Microservice -> SUBSET Object]
  /\ remembered \in [Microservice -> BOOLEAN]

Init ==
  /\ life = [m \in Microservice |-> "absent"]
  /\ routed = [m \in Microservice |-> FALSE]
  /\ objects = [m \in Microservice |-> {}]
  /\ remembered = [m \in Microservice |-> FALSE]

Move(m, from, to) ==
  /\ life[m] \in from
  /\ \E stage \in to : life' = [life EXCEPT ![m] = stage]
  /\ UNCHANGED <<objects, remembered>>

Appear(m) ==
  /\ Move(m, {"absent"}, {"new"})
  /\ \E r \in BOOLEAN : routed' = [routed EXCEPT ![m] = r]

\* Users edit the spec at any time.
Edit(m) ==
  /\ life[m] # "absent"
  /\ \E r \in BOOLEAN : routed' = [routed EXCEPT ![m] = r]
  /\ UNCHANGED <<life, objects, remembered>>

\* The operator registers its finalizer.
Keep(m) == Move(m, {"new"}, {"kept"}) /\ UNCHANGED routed

Delete(m) ==
  \/ Move(m, {"kept"}, {"leaving"}) /\ UNCHANGED routed
  \/ Move(m, {"new"}, {"released"}) /\ UNCHANGED routed
  \/ Move(m, {"new"}, {"absent"}) /\ routed' = [routed EXCEPT ![m] = FALSE]

\* The operator takes its finalizer away.
Release(m) ==
  /\ routed[m] => "routes" \notin objects[m]
  /\ \/ Move(m, {"leaving"}, {"released"}) /\ UNCHANGED routed
     \/ Move(m, {"leaving"}, {"absent"}) /\ routed' = [routed EXCEPT ![m] = FALSE]

Vanish(m) == Move(m, {"released"}, {"absent"}) /\ routed' = [routed EXCEPT ![m] = FALSE]

Obtainable(m) ==
  (IF life[m] \in {"kept", "leaving"} THEN Object ELSE {})
    \union (IF remembered[m] THEN {"routes"} ELSE {})

\* Things come and go.
Change ==
  /\ objects' \in [Microservice -> SUBSET Object]
  /\ \A m \in Microservice : objects'[m] \subseteq objects[m] \union Obtainable(m)
  /\ remembered' \in [Microservice -> BOOLEAN]
  /\ \A m \in Microservice : remembered'[m] => remembered[m] \/ "routes" \in objects'[m]
  /\ UNCHANGED <<life, routed>>

Next ==
  \/ \E m \in Microservice :
       Appear(m) \/ Edit(m) \/ Keep(m) \/ Delete(m) \/ Release(m) \/ Vanish(m)
  \/ Change

Spec == Init /\ [][Next]_vars
=============================================================================
