---------------------------- MODULE RouterTable ----------------------------
(***************************************************************************)
(* The part of the Traefik configuration the operator edits: the maps      *)
(* http.services and http.routers of TraefikConfig, and the two edits made *)
(* to them by LoadBalancer.CreateRouter and LoadBalancer.RemoveRouter      *)
(* (process/loadbalancer_controller.go).                                   *)
(*                                                                         *)
(* A map key is the string namespace_service_port.  Kubernetes names hold  *)
(* no underscore, so the string stands for the record [ns, name, port] and *)
(* two keys are equal exactly when the records are.  A service entry is    *)
(* the URL of its own key, so the set of keys says everything about        *)
(* http.services.  Names with "@internal", which the code treats apart,    *)
(* are not Kubernetes names and no caller in the repository passes one.    *)
(***************************************************************************)
EXTENDS Functions

CONSTANTS Namespace,  \* namespaces microservices live in
          Name,       \* names of microservices, hence of their services
          Port,       \* container ports
          Rule,       \* Traefik rules, the empty rule apart
          SuffixOf    \* <<n, s>> is here iff the string s is a suffix of n

ASSUME SuffixAssumption ==
  /\ SuffixOf \subseteq Namespace \X Namespace
  /\ \A n \in Namespace : <<n, n>> \in SuffixOf

Key == [ns : Namespace, name : Name, port : Port]

\* The routes one call asks for: the Go map from port to rule.
Routes == UNION {[P -> Rule] : P \in SUBSET Port}

NoRoutes == [p \in {} |-> {}]

\* Both maps at once: the keys of http.services, and http.routers with the
\* rule of each entry.
Table == [services : SUBSET Key, routers : UNION {[K -> Rule] : K \in SUBSET Key}]

NoRouters == [k \in {} |-> {}]

\* http.services and http.routers of a configuration just created: both nil.
EmptyTable == [services |-> {}, routers |-> NoRouters]

KeysFor(ns, name, ports) == {[ns |-> ns, name |-> name, port |-> p] : p \in ports}

\* A slip for the mutants: the loop over routes skips one port.
AddRoutesButOne(t, ns, name, routes) ==
  LET left == CHOOSE p \in DOMAIN routes : TRUE
      keys == KeysFor(ns, name, DOMAIN routes \ {left})
  IN  [services |-> t.services \union keys,
       routers  |-> [k \in DOMAIN t.routers \union keys |->
                       IF k \in DOMAIN t.routers THEN t.routers[k] ELSE routes[k.port]]]

\* A slip for the mutants: the maps are made anew whenever they are not nil.
AddRoutesResetting(t, ns, name, routes) ==
  LET keys == KeysFor(ns, name, DOMAIN routes)
  IN  [services |-> keys, routers |-> [k \in keys |-> routes[k.port]]]

\* CreateRouter: an entry that is already there is kept as it is, rule included.
AddRoutes(t, ns, name, routes) ==
  LET keys == KeysFor(ns, name, DOMAIN routes)
  IN  [services |-> t.services \union keys,
       routers  |-> [k \in DOMAIN t.routers \union keys |->
                       IF k \in DOMAIN t.routers THEN t.routers[k] ELSE routes[k.port]]]

\* strings.Contains(key, namespace + "_" + service + "_"): both underscores
\* must meet those of the key, so the names agree and the namespace searched
\* for is a suffix of the one in the key.
Contains(k, ns, name) == k.name = name /\ <<k.ns, ns>> \in SuffixOf

\* A slip for the mutants: the inner loop over cfg.Http.Routers is forgotten.
DropServicesOnly(t, ns, name) ==
  [t EXCEPT !.services = {k \in @ : ~Contains(k, ns, name)}]

\* RemoveRouter: routers are only looked at once a service key has matched.
DropRoutes(t, ns, name) ==
  LET hit == {k \in t.services : Contains(k, ns, name)}
  IN  [services |-> t.services \ hit,
       routers  |-> IF hit = {} THEN t.routers
                    ELSE Restrict(t.routers, {k \in DOMAIN t.routers : ~Contains(k, ns, name)})]

\* The keys a microservice calls its own.
IsOwn(k, ns, name) == k.ns = ns /\ k.name = name

OwnKeys(t, ns, name) == {k \in t.services : IsOwn(k, ns, name)}

\* A call of CreateRouter or RemoveRouter with its arguments.  The reconciler
\* only calls CreateRouter when it has routes to add; RemoveRouter is told
\* whether to reload the load balancer, CreateRouter always does.
Call == [kind : {"create"}, ns : Namespace, name : Name,
         routes : Routes \ {NoRoutes}, reload : {TRUE}]
        \union [kind : {"remove"}, ns : Namespace, name : Name,
                routes : {NoRoutes}, reload : BOOLEAN]

\* What a call makes of the table it has loaded.
Apply(t, c) == IF c.kind = "create" THEN AddRoutes(t, c.ns, c.name, c.routes)
               ELSE DropRoutes(t, c.ns, c.name)

\* What a table has under some keys.
Part(t, keys) ==
  [services |-> t.services \intersect keys,
   routers  |-> Restrict(t.routers, DOMAIN t.routers \intersect keys)]

\* The keys no call for the microservice is to touch: those RemoveRouter would
\* not match.
Others(ns, name) == {k \in Key : ~Contains(k, ns, name)}

\* Traefik resolves every router it is given, and every service is reachable.
WellFormed(t) == DOMAIN t.routers = t.services
=============================================================================
