------------------------- MODULE RouterTableProofs -------------------------
(***************************************************************************)
(* Lemmas on the two edits of the Traefik configuration, for any           *)
(* namespaces, names, ports and rules and any suffix relation.             *)
(***************************************************************************)
EXTENDS RouterTable, TLAPS

\* What CreateRouter makes of a table is a table, in which every service has
\* its router if that held before, and the routers asked for are there.
LEMMA AddRoutesFacts ==
  ASSUME NEW t \in Table, NEW ns \in Namespace, NEW name \in Name, NEW routes \in Routes
  PROVE  LET u == AddRoutes(t, ns, name, routes)
             keys == KeysFor(ns, name, DOMAIN routes)
         IN  /\ u \in Table
             /\ WellFormed(t) => WellFormed(u)
             /\ keys \subseteq u.services \intersect DOMAIN u.routers
<1> DEFINE keys == KeysFor(ns, name, DOMAIN routes)
           u == AddRoutes(t, ns, name, routes)
<1>1. DOMAIN routes \subseteq Port /\ \A p \in DOMAIN routes : routes[p] \in Rule
  BY DEF Routes
<1>2. /\ keys \subseteq Key
      /\ \A k \in keys : k.port \in DOMAIN routes
  BY <1>1 DEF KeysFor, Key
<1>3. /\ t.services \subseteq Key
      /\ DOMAIN t.routers \subseteq Key
      /\ \A k \in DOMAIN t.routers : t.routers[k] \in Rule
  BY DEF Table
<1>4. /\ u.services = t.services \union keys
      /\ u.routers = [k \in DOMAIN t.routers \union keys |->
                        IF k \in DOMAIN t.routers THEN t.routers[k] ELSE routes[k.port]]
      /\ u = [services |-> u.services, routers |-> u.routers]
  BY DEF AddRoutes
<1>5. u.routers \in [DOMAIN t.routers \union keys -> Rule]
  BY <1>1, <1>2, <1>3, <1>4
<1>6. DOMAIN t.routers \union keys \in SUBSET Key /\ u.services \in SUBSET Key
  BY <1>2, <1>3, <1>4
<1>7. u.routers \in UNION {[K -> Rule] : K \in SUBSET Key}
  BY <1>5, <1>6
<1>8. u \in Table
  BY <1>4, <1>6, <1>7 DEF Table
<1>9. WellFormed(t) => WellFormed(u)
  BY <1>4 DEF WellFormed
<1>10. keys \subseteq u.services \intersect DOMAIN u.routers
  BY <1>4
<1> QED
  BY <1>8, <1>9, <1>10

\* What RemoveRouter makes of a table is a table.  If every service had its
\* router, that still holds, and nothing of the microservice is left: the
\* routers are only looked at once a service has matched, so without that
\* premise a lone router would stay.
LEMMA DropRoutesFacts ==
  ASSUME NEW t \in Table, NEW ns \in Namespace, NEW name \in Name
  PROVE  LET u == DropRoutes(t, ns, name)
         IN  /\ u \in Table
             /\ WellFormed(t) =>
                  /\ WellFormed(u)
                  /\ \A k \in u.services \union DOMAIN u.routers : ~IsOwn(k, ns, name)
<1> DEFINE hit == {k \in t.services : Contains(k, ns, name)}
           left == {k \in DOMAIN t.routers : ~Contains(k, ns, name)}
           u == DropRoutes(t, ns, name)
<1>1. /\ t.services \subseteq Key
      /\ DOMAIN t.routers \subseteq Key
      /\ \A k \in DOMAIN t.routers : t.routers[k] \in Rule
      /\ t.routers \in UNION {[K -> Rule] : K \in SUBSET Key}
  BY DEF Table
<1>2. /\ u = [services |-> t.services \ hit,
              routers |-> IF hit = {} THEN t.routers ELSE [k \in left |-> t.routers[k]]]
      /\ u.services = t.services \ hit
      /\ u.routers = IF hit = {} THEN t.routers ELSE [k \in left |-> t.routers[k]]
  BY DEF DropRoutes, Restrict
<1>3. [k \in left |-> t.routers[k]] \in [left -> Rule] /\ left \in SUBSET Key
  BY <1>1
<1>4. [k \in left |-> t.routers[k]] \in UNION {[K -> Rule] : K \in SUBSET Key}
  BY <1>3
<1>5. u.routers \in UNION {[K -> Rule] : K \in SUBSET Key}
  BY <1>1, <1>2, <1>4
<1>6. u \in Table
  BY <1>1, <1>2, <1>5 DEF Table
<1>7. \A k \in Key : IsOwn(k, ns, name) => Contains(k, ns, name)
  BY SuffixAssumption DEF IsOwn, Contains, Key
<1>8. ASSUME WellFormed(t)
      PROVE  /\ u.services = {k \in t.services : ~Contains(k, ns, name)}
             /\ DOMAIN u.routers = u.services
  BY <1>2, <1>8 DEF WellFormed
<1>9. WellFormed(t) => \A k \in u.services \union DOMAIN u.routers : ~IsOwn(k, ns, name)
  BY <1>1, <1>7, <1>8
<1> QED
  BY <1>6, <1>8, <1>9 DEF WellFormed

\* A call makes of a table a table, and keeps every service with its router.
LEMMA ApplyFacts ==
  ASSUME NEW t \in Table, NEW c \in Call
  PROVE  /\ Apply(t, c) \in Table
         /\ WellFormed(t) => WellFormed(Apply(t, c))
<1>1. /\ c.ns \in Namespace /\ c.name \in Name
      /\ c.kind = "create" => c.routes \in Routes
  BY DEF Call
<1>2. CASE c.kind = "create"
  BY <1>1, <1>2, AddRoutesFacts DEF Apply
<1>3. CASE c.kind # "create"
  BY <1>1, <1>3, DropRoutesFacts DEF Apply
<1> QED
  BY <1>2, <1>3

\* The keys of a microservice are among those RemoveRouter matches, and they
\* are all of them if no namespace ends in the name of another.
LEMMA ContainsFacts ==
  ASSUME NEW k \in Key, NEW ns, NEW name
  PROVE  /\ IsOwn(k, ns, name) => Contains(k, ns, name)
         /\ (\A p \in SuffixOf : p[1] = p[2]) => (Contains(k, ns, name) => IsOwn(k, ns, name))
<1>1. k.ns \in Namespace
  BY DEF Key
<1>2. IsOwn(k, ns, name) => Contains(k, ns, name)
  BY <1>1, SuffixAssumption DEF IsOwn, Contains
<1>3. ASSUME \A p \in SuffixOf : p[1] = p[2], Contains(k, ns, name) PROVE IsOwn(k, ns, name)
  <2>1. <<k.ns, ns>> \in SuffixOf /\ k.name = name
    BY <1>3 DEF Contains
  <2>2. k.ns = ns
    BY <1>3, <2>1
  <2> QED
    BY <2>1, <2>2 DEF IsOwn
<1> QED
  BY <1>2, <1>3

\* Neither edit touches an entry RemoveRouter would not match.
LEMMA ApplySpares ==
  ASSUME NEW t \in Table, NEW c \in Call
  PROVE  LET others == Others(c.ns, c.name)
         IN  Part(Apply(t, c), others) = Part(t, others)
<1> DEFINE u == Apply(t, c)
           others == Others(c.ns, c.name)
<1>1. /\ u.services \intersect others = t.services \intersect others
      /\ DOMAIN u.routers \intersect others = DOMAIN t.routers \intersect others
      /\ \A k \in DOMAIN t.routers \intersect others : u.routers[k] = t.routers[k]
  <2>1. CASE c.kind = "create"
    <3> DEFINE keys == KeysFor(c.ns, c.name, DOMAIN c.routes)
    <3>1. \A k \in keys : k \notin others
      <4> SUFFICES ASSUME NEW k \in keys, k \in others PROVE FALSE
        OBVIOUS
      <4>1. k \in Key /\ ~Contains(k, c.ns, c.name)
        BY DEF Others
      <4>2. IsOwn(k, c.ns, c.name)
        BY DEF KeysFor, IsOwn
      <4> QED
        BY <4>1, <4>2, ContainsFacts
    <3>2. /\ u.services = t.services \union keys
          /\ u.routers = [k \in DOMAIN t.routers \union keys |->
                            IF k \in DOMAIN t.routers THEN t.routers[k] ELSE c.routes[k.port]]
      BY <2>1 DEF Apply, AddRoutes
    <3> HIDE DEF keys, u, others
    <3>3. DOMAIN u.routers = DOMAIN t.routers \union keys
      BY <3>2
    <3>4. \A k \in DOMAIN t.routers : u.routers[k] = t.routers[k]
      BY <3>2
    <3> QED
      BY <3>1, <3>2, <3>3, <3>4
  <2>2. CASE c.kind # "create"
    <3> DEFINE hit == {k \in t.services : Contains(k, c.ns, c.name)}
               left == {k \in DOMAIN t.routers : ~Contains(k, c.ns, c.name)}
    <3>1. /\ u.services = t.services \ hit
          /\ u.routers = IF hit = {} THEN t.routers ELSE [k \in left |-> t.routers[k]]
      BY <2>2 DEF Apply, DropRoutes, Restrict
    <3>2. u.services \intersect others = t.services \intersect others
      BY <3>1 DEF Others
    <3>3. DOMAIN t.routers \intersect others \subseteq left
      BY DEF Others
    <3> HIDE DEF hit, u, others
    <3>4. CASE hit = {}
      BY <3>1, <3>2, <3>4
    <3>5. CASE hit # {}
      <4>1. DOMAIN u.routers = left /\ \A k \in left : u.routers[k] = t.routers[k]
        BY <3>1, <3>5
      <4> QED
        BY <3>2, <3>3, <4>1
    <3> QED
      BY <3>4, <3>5
  <2> QED
    BY <2>1, <2>2
<1> HIDE DEF u, others
<1>2. Part(u, others) = Part(t, others)
  BY <1>1 DEF Part, Restrict
<1> QED
  BY <1>2 DEF u, others

\* A configuration just created is a table without routes.
LEMMA EmptyTableFacts == EmptyTable \in Table /\ WellFormed(EmptyTable)
<1>1. NoRouters \in [{} -> Rule] /\ DOMAIN NoRouters = {}
  BY DEF NoRouters
<1> QED
  BY <1>1 DEF EmptyTable, Table, WellFormed
=============================================================================
