------------------------ MODULE ClientLifetimeProofs ------------------------
(***************************************************************************)
(* Proofs about ClientLifetime, for any number of meta requests, requests, *)
(* hosts and endpoints and any limits.                                     *)
(*                                                                         *)
(* None of the invariants of ClientLifetime is inductive by itself. The    *)
(* strengthening Inv has three parts: EndpointInv ties the endpoint table, *)
(* the phases and the two counters to the pointers that meta requests and  *)
(* connections hold; HoldInv says which stages hold which pointers and     *)
(* references; DestroyInv follows the destruction of the client.           *)
(***************************************************************************)
EXTENDS ClientLifetime, FiniteSetTheorems, TLAPS

\* The table names exactly the open endpoints, each under its own host.
TableNamesOpen ==
    /\ \A h \in Host : endpoints[h] # None => phase[endpoints[h]] = "open" /\ host[endpoints[h]] = h
    /\ \A e \in Endpoint : phase[e] = "open" => host[e] \in Host /\ endpoints[host[e]] = e

\* num_endpoints_allocated counts the endpoints created and not yet shut down.
AllocatedExact ==
    num_endpoints_allocated = Cardinality({e \in Endpoint : phase[e] \in {"open", "closing"}})

EndpointInv == RefCountExact /\ HeldEndpointIsOpen /\ TableNamesOpen /\ AllocatedExact

\* What the stage of a request and the place of a meta request tell about
\* what they hold.
MetaInv ==
    \A m \in MetaRequest : meta_endpoint[m] # None <=> listed[m] \in {"pending", "threaded"}

StageInv ==
    \A r \in Request :
        /\ stage[r] \in Holding => owner[r] \in MetaRequest
        /\ stage[r] \in Unfinished => listed[owner[r]] = "threaded"
        /\ connection_endpoint[r] # None =>
              stage[r] \in {"connecting", "acquiring", "open", "counted", "reported", "released"}
        /\ keeps_client[r] => stage[r] \in {"acquiring", "counted", "reported", "released", "leaving"}
        /\ stage[r] = "leaving" => keeps_client[r]

HoldInv == MetaInv /\ StageInv

\* Destruction starts when the last reference is gone and stops nothing that
\* is needed: a clean-up task still pending at its end is run by the
\* process-work task that is scheduled then.
DestroyInv ==
    /\ active <=> start_destroy = "no"
    /\ start_destroy # "no" => destroyer # "nobody"
    /\ destroyer # "nobody" => ~ClientHeld
    /\ start_destroy = "done" /\ endpoints_cleanup_task_scheduled => process_work_task_scheduled

Inv == TypeOK /\ EndpointInv /\ HoldInv /\ DestroyInv /\ FreedWhenQuiet
-----------------------------------------------------------------------------
\* Counting the holders of an endpoint when one of them changes its pointer:
\* used wherever an endpoint is acquired or released.
LEMMA PointersZero ==
    ASSUME NEW S, IsFiniteSet(S), NEW T, NEW f \in [S -> T], NEW e
    PROVE  /\ PointersTo(e, f) \in Nat
           /\ PointersTo(e, f) = 0 <=> \A s \in S : f[s] # e
<1> DEFINE A == {s \in S : f[s] = e}
<1>1. IsFiniteSet(A)
  <2>1. A \subseteq S
    OBVIOUS
  <2> QED
    BY <2>1, FS_Subset
<1>2. A = {} <=> \A s \in S : f[s] # e
  OBVIOUS
<1>3. PointersTo(e, f) = Cardinality(A)
  BY DEF PointersTo
<1> HIDE DEF A
<1>4. Cardinality(A) \in Nat /\ (Cardinality(A) = 0 <=> A = {})
  BY <1>1, FS_CardinalityType, FS_EmptySet
<1> QED
  BY <1>2, <1>3, <1>4

\* A holder changes its pointer from old to new.
Moves(pointer, changed, old, new) ==
    \E x \in DOMAIN pointer : pointer[x] = old /\ changed = [pointer EXCEPT ![x] = new]

Change(e, old, new) == IF e = new THEN 1 ELSE IF e = old THEN -1 ELSE 0

LEMMA PointersMove ==
    ASSUME NEW f, IsFiniteSet(DOMAIN f), NEW g, NEW old, NEW new, old # new,
           Moves(f, g, old, new), NEW d
    PROVE  PointersTo(d, g) = PointersTo(d, f) + Change(d, old, new)
<1>0. PICK x \in DOMAIN f : f[x] = old /\ g = [f EXCEPT ![x] = new]
  BY Zenon DEF Moves
<1> DEFINE A == {s \in DOMAIN f : f[s] = d}
           B == {s \in DOMAIN f : g[s] = d}
<1>1. PointersTo(d, f) = Cardinality(A) /\ PointersTo(d, g) = Cardinality(B)
  BY <1>0 DEF PointersTo
<1>2. IsFiniteSet(A) /\ IsFiniteSet(B)
  <2>1. A \subseteq DOMAIN f /\ B \subseteq DOMAIN f
    OBVIOUS
  <2> QED
    BY <2>1, FS_Subset
<1>3. Cardinality(A) \in Nat /\ Cardinality(B) \in Nat
  BY <1>2, FS_CardinalityType
<1>4. CASE d = new
  <2>1. B = A \cup {x} /\ x \notin A
    BY <1>0, <1>4
  <2>2. Cardinality(B) = Cardinality(A) + 1
    BY <1>2, <2>1, FS_AddElement
  <2> QED
    BY <1>1, <1>4, <2>2 DEF Change
<1>5. CASE d # new /\ d = old
  <2>1. A = B \cup {x} /\ x \notin B
    BY <1>0, <1>5
  <2>2. Cardinality(A) = Cardinality(B) + 1
    BY <1>2, <2>1, FS_AddElement
  <2> HIDE DEF A, B
  <2> QED
    BY <1>1, <1>3, <1>5, <2>2 DEF Change
<1>6. CASE d # new /\ d # old
  <2>1. A = B
    BY <1>0, <1>6
  <2> HIDE DEF A, B
  <2> QED
    BY <1>1, <1>3, <1>6, <2>1 DEF Change
<1> QED
  BY <1>4, <1>5, <1>6
-----------------------------------------------------------------------------
\* An endpoint has a positive reference count iff somebody points to it.
LEMMA RefCountPositive ==
    ASSUME TypeOK, RefCountExact, NEW e \in Endpoint
    PROVE  ref_count[e] > 0 <=> \/ \E m \in MetaRequest : meta_endpoint[m] = e
                                \/ \E r \in Request : connection_endpoint[r] = e
<1>t. /\ IsFiniteSet(MetaRequest) /\ meta_endpoint \in [MetaRequest -> Endpoint \cup {None}]
      /\ IsFiniteSet(Request) /\ connection_endpoint \in [Request -> Endpoint \cup {None}]
  BY LifetimeAssumption DEF TypeOK
<1>1. /\ PointersTo(e, meta_endpoint) \in Nat
      /\ PointersTo(e, meta_endpoint) = 0 <=> \A m \in MetaRequest : meta_endpoint[m] # e
  BY <1>t, PointersZero, Zenon
<1>2. /\ PointersTo(e, connection_endpoint) \in Nat
      /\ PointersTo(e, connection_endpoint) = 0 <=> \A r \in Request : connection_endpoint[r] # e
  BY <1>t, PointersZero, Zenon
<1> QED
  BY <1>1, <1>2 DEF RefCountExact

\* The counts stay exact when one meta request or one connection changes its
\* pointer and the reference counts follow.
LEMMA MovePointer ==
    ASSUME TypeOK, RefCountExact, NEW old \in Endpoint \cup {None}, NEW new \in Endpoint \cup {None},
           old # new,
           \A d \in Endpoint :
               ref_count'[d] = ref_count[d] + Change(d, old, new),
           \/ /\ Moves(meta_endpoint, meta_endpoint', old, new)
              /\ UNCHANGED connection_endpoint
           \/ /\ Moves(connection_endpoint, connection_endpoint', old, new)
              /\ UNCHANGED meta_endpoint
    PROVE  RefCountExact'
<1> SUFFICES ASSUME NEW d \in Endpoint
             PROVE  ref_count'[d] = PointersTo(d, meta_endpoint') + PointersTo(d, connection_endpoint')
  BY DEF RefCountExact
<1>t. /\ IsFiniteSet(MetaRequest) /\ meta_endpoint \in [MetaRequest -> Endpoint \cup {None}]
      /\ IsFiniteSet(Request) /\ connection_endpoint \in [Request -> Endpoint \cup {None}]
  BY LifetimeAssumption DEF TypeOK
<1>1. /\ PointersTo(d, meta_endpoint) \in Nat
      /\ PointersTo(d, connection_endpoint) \in Nat
      /\ ref_count[d] = PointersTo(d, meta_endpoint) + PointersTo(d, connection_endpoint)
  BY <1>t, PointersZero, Zenon DEF RefCountExact
<1>c. Change(d, old, new) \in Int
  BY DEF Change
<1>2. CASE /\ Moves(meta_endpoint, meta_endpoint', old, new)
           /\ UNCHANGED connection_endpoint
  <2>1. PointersTo(d, meta_endpoint')
          = PointersTo(d, meta_endpoint) + Change(d, old, new)
    BY <1>t, <1>2, PointersMove
  <2> QED
    BY <1>1, <1>c, <1>2, <2>1
<1>3. CASE /\ Moves(connection_endpoint, connection_endpoint', old, new)
           /\ UNCHANGED meta_endpoint
  <2>1. PointersTo(d, connection_endpoint')
          = PointersTo(d, connection_endpoint) + Change(d, old, new)
    BY <1>t, <1>3, PointersMove
  <2> QED
    BY <1>1, <1>c, <1>3, <2>1
<1> QED
  BY <1>2, <1>3

\* Somebody points to e from now on, or no longer: a meta request or a
\* connection.
PointerMoves(old, new) ==
    \/ Moves(meta_endpoint, meta_endpoint', old, new) /\ UNCHANGED connection_endpoint
    \/ Moves(connection_endpoint, connection_endpoint', old, new) /\ UNCHANGED meta_endpoint

\* An open endpoint is acquired (aws_s3_endpoint_acquire).
LEMMA AcquireKeeps ==
    ASSUME TypeOK, EndpointInv, NEW e \in Endpoint, phase[e] = "open", PointerMoves(None, e),
           ref_count' = [ref_count EXCEPT ![e] = @ + 1],
           UNCHANGED <<endpoints, phase, host, num_endpoints_allocated>>
    PROVE  EndpointInv'
<1>1. RefCountExact'
  <2>1. \A d \in Endpoint : ref_count'[d] = ref_count[d] + Change(d, None, e)
    BY LifetimeAssumption DEF TypeOK, Change
  <2> QED
    BY <2>1, MovePointer, LifetimeAssumption DEF PointerMoves, EndpointInv
<1>2. HeldEndpointIsOpen'
  <2>1. \A m \in MetaRequest : meta_endpoint'[m] = meta_endpoint[m] \/ meta_endpoint'[m] = e
    BY DEF PointerMoves, Moves, TypeOK
  <2>2. \A r \in Request :
           connection_endpoint'[r] = connection_endpoint[r] \/ connection_endpoint'[r] = e
    BY DEF PointerMoves, Moves, TypeOK
  <2> QED
    BY <2>1, <2>2 DEF EndpointInv, HeldEndpointIsOpen, TableNamesOpen
<1> QED
  BY <1>1, <1>2 DEF EndpointInv, TableNamesOpen, AllocatedExact

\* A held endpoint is released (aws_s3_endpoint_release). When it is destroyed
\* by that, nobody else points to it.
LEMMA ReleaseKeeps ==
    ASSUME TypeOK, EndpointInv, NEW e \in Endpoint, PointerMoves(e, None), ReleaseEndpoint(e)
    PROVE  EndpointInv' /\ ref_count' \in [Endpoint -> Nat]
<1>h. \/ \E m \in MetaRequest : meta_endpoint[m] = e
      \/ \E r \in Request : connection_endpoint[r] = e
  BY DEF PointerMoves, Moves, TypeOK
<1>p. ref_count[e] \in Nat /\ ref_count[e] > 0
  BY <1>h, RefCountPositive DEF EndpointInv, TypeOK
<1>o. phase[e] = "open" /\ host[e] \in Host /\ endpoints[host[e]] = e
  BY <1>h DEF EndpointInv, HeldEndpointIsOpen, TableNamesOpen
<1>t. ref_count' \in [Endpoint -> Nat]
  BY <1>p DEF ReleaseEndpoint, TypeOK
<1>1. RefCountExact'
  <2>1. \A d \in Endpoint : ref_count'[d] = ref_count[d] + Change(d, e, None)
    BY LifetimeAssumption DEF TypeOK, Change, ReleaseEndpoint
  <2> QED
    BY <2>1, MovePointer, LifetimeAssumption DEF PointerMoves, EndpointInv
<1>m. /\ \A m \in MetaRequest : meta_endpoint'[m] \in {meta_endpoint[m], None}
      /\ \A r \in Request : connection_endpoint'[r] \in {connection_endpoint[r], None}
  BY DEF PointerMoves, Moves, TypeOK
<1>2. CASE ref_count[e] = 1 /\ ~active
  <2>1. ref_count'[e] = 0
    BY <1>2 DEF ReleaseEndpoint, TypeOK
  <2>2. /\ \A m \in MetaRequest : meta_endpoint'[m] # e
        /\ \A r \in Request : connection_endpoint'[r] # e
    <3>1. /\ IsFiniteSet(MetaRequest) /\ meta_endpoint' \in [MetaRequest -> Endpoint \cup {None}]
          /\ IsFiniteSet(Request) /\ connection_endpoint' \in [Request -> Endpoint \cup {None}]
      BY LifetimeAssumption DEF PointerMoves, Moves, TypeOK
    <3>2. /\ PointersTo(e, meta_endpoint') \in Nat
          /\ PointersTo(e, meta_endpoint') = 0 <=> \A m \in MetaRequest : meta_endpoint'[m] # e
          /\ PointersTo(e, connection_endpoint') \in Nat
          /\ PointersTo(e, connection_endpoint') = 0 <=> \A r \in Request : connection_endpoint'[r] # e
      BY <3>1, PointersZero, Zenon
    <3>3. 0 = PointersTo(e, meta_endpoint') + PointersTo(e, connection_endpoint')
      BY <1>1, <2>1 DEF RefCountExact
    <3> QED
      BY <3>2, <3>3
  <2>3. /\ endpoints' = [endpoints EXCEPT ![host[e]] = None]
        /\ phase' = [phase EXCEPT ![e] = "closing"]
        /\ UNCHANGED <<host, num_endpoints_allocated>>
    BY <1>2 DEF ReleaseEndpoint
  <2>4. HeldEndpointIsOpen'
    <3> SUFFICES ASSUME NEW d \in Endpoint,
                        \/ \E m \in MetaRequest : meta_endpoint'[m] = d
                        \/ \E r \in Request : connection_endpoint'[r] = d
                 PROVE  phase'[d] = "open" /\ endpoints'[host'[d]] = d
      BY DEF HeldEndpointIsOpen
    <3>1. d # e /\ d # None
      BY <2>2, LifetimeAssumption
    <3>2. phase[d] = "open" /\ endpoints[host[d]] = d
      BY <1>m, <3>1 DEF EndpointInv, HeldEndpointIsOpen
    <3>3. host[d] \in Host /\ host[d] # host[e]
      BY <1>o, <3>1, <3>2 DEF EndpointInv, TableNamesOpen
    <3> QED
      BY <2>3, <3>1, <3>2, <3>3 DEF TypeOK
  <2>5. TableNamesOpen'
    BY <1>o, <2>3, LifetimeAssumption DEF EndpointInv, TableNamesOpen, TypeOK
  <2>6. AllocatedExact'
    <3>1. {d \in Endpoint : phase'[d] \in {"open", "closing"}}
            = {d \in Endpoint : phase[d] \in {"open", "closing"}}
      BY <1>o, <2>3 DEF TypeOK
    <3> QED
      BY <2>3, <3>1 DEF EndpointInv, AllocatedExact
  <2> QED
    BY <1>1, <1>t, <2>4, <2>5, <2>6 DEF EndpointInv
<1>3. CASE ~(ref_count[e] = 1 /\ ~active)
  <2>1. UNCHANGED <<endpoints, phase, host, num_endpoints_allocated>>
    BY <1>3 DEF ReleaseEndpoint
  <2>2. HeldEndpointIsOpen'
    BY <1>m, <2>1, LifetimeAssumption DEF EndpointInv, HeldEndpointIsOpen
  <2> QED
    BY <1>1, <1>t, <2>1, <2>2 DEF EndpointInv, TableNamesOpen, AllocatedExact
<1> QED
  BY <1>2, <1>3

\* Nobody points to the endpoints that the clean-up task destroys.
LEMMA CleanupKeeps ==
    ASSUME TypeOK, EndpointInv, RunCleanup, UNCHANGED <<meta_endpoint, connection_endpoint>>
    PROVE  EndpointInv'
<1> DEFINE unreferenced == {e \in Endpoint : ref_count[e] = 0 /\ \E h \in Host : endpoints[h] = e}
<1>0. /\ endpoints' = [h \in Host |-> IF endpoints[h] \in unreferenced THEN None ELSE endpoints[h]]
      /\ phase' = [e \in Endpoint |-> IF e \in unreferenced THEN "closing" ELSE phase[e]]
      /\ UNCHANGED <<host, ref_count, num_endpoints_allocated>>
  BY DEF RunCleanup
<1>1. \A e \in unreferenced : phase[e] = "open" /\ None # e
  BY LifetimeAssumption DEF EndpointInv, TableNamesOpen
<1>2. \A e \in Endpoint : (\E m \in MetaRequest : meta_endpoint[m] = e)
                            \/ (\E r \in Request : connection_endpoint[r] = e)
                               => e \notin unreferenced
  BY RefCountPositive DEF EndpointInv
<1> HIDE DEF unreferenced
<1>3. RefCountExact'
  BY <1>0 DEF EndpointInv, RefCountExact
<1>4. TableNamesOpen'
  BY <1>0, <1>1, LifetimeAssumption DEF EndpointInv, TableNamesOpen, TypeOK
<1>5. HeldEndpointIsOpen'
  BY <1>0, <1>2 DEF EndpointInv, HeldEndpointIsOpen, TableNamesOpen, TypeOK
<1>6. AllocatedExact'
  <2>1. {d \in Endpoint : phase'[d] \in {"open", "closing"}}
          = {d \in Endpoint : phase[d] \in {"open", "closing"}}
    BY <1>0, <1>1 DEF TypeOK
  <2> QED
    BY <1>0, <2>1 DEF EndpointInv, AllocatedExact
<1> QED
  BY <1>3, <1>4, <1>5, <1>6 DEF EndpointInv

\* A destroyed endpoint has shut down.
LEMMA ShutdownKeeps ==
    ASSUME TypeOK, EndpointInv, NEW e \in Endpoint, EndpointShutdown(e)
    PROVE  EndpointInv' /\ num_endpoints_allocated' \in Nat
<1>0. /\ phase[e] = "closing"
      /\ phase' = [phase EXCEPT ![e] = "gone"]
      /\ num_endpoints_allocated' = num_endpoints_allocated - 1
      /\ UNCHANGED <<endpoints, host, ref_count, meta_endpoint, connection_endpoint>>
  BY DEF EndpointShutdown, metaVars, requestVars
<1> DEFINE A == {d \in Endpoint : phase[d] \in {"open", "closing"}}
           B == {d \in Endpoint : phase'[d] \in {"open", "closing"}}
<1>1. A = B \cup {e} /\ e \notin B /\ B \subseteq Endpoint
  BY <1>0 DEF TypeOK
<1> HIDE DEF A, B
<1>2. IsFiniteSet(B) /\ Cardinality(B) \in Nat
  BY <1>1, FS_Subset, FS_CardinalityType, LifetimeAssumption
<1>3. Cardinality(A) = Cardinality(B) + 1
  BY <1>1, <1>2, FS_AddElement, Zenon
<1>4. AllocatedExact' /\ num_endpoints_allocated' \in Nat
  BY <1>0, <1>2, <1>3 DEF EndpointInv, AllocatedExact, A, B
<1>5. RefCountExact' /\ HeldEndpointIsOpen' /\ TableNamesOpen'
  BY <1>0 DEF EndpointInv, RefCountExact, HeldEndpointIsOpen, TableNamesOpen, TypeOK
<1> QED
  BY <1>4, <1>5 DEF EndpointInv

\* A meta request creates the endpoint of a host that has none.
LEMMA CreateKeeps ==
    ASSUME TypeOK, EndpointInv, NEW e \in Endpoint, NEW h \in Host, PointerMoves(None, e),
           phase[e] = "unused", endpoints[h] = None,
           endpoints' = [endpoints EXCEPT ![h] = e],
           phase' = [phase EXCEPT ![e] = "open"],
           host' = [host EXCEPT ![e] = h],
           ref_count' = [ref_count EXCEPT ![e] = 1],
           num_endpoints_allocated' = num_endpoints_allocated + 1
    PROVE  EndpointInv'
<1>u. /\ \A m \in MetaRequest : meta_endpoint[m] # e
      /\ \A r \in Request : connection_endpoint[r] # e
  BY DEF EndpointInv, HeldEndpointIsOpen
<1>1. RefCountExact'
  <2>1. ref_count[e] = 0
    BY <1>u, RefCountPositive DEF EndpointInv, TypeOK
  <2>2. \A d \in Endpoint : ref_count'[d] = ref_count[d] + Change(d, None, e)
    BY <2>1, LifetimeAssumption DEF TypeOK, Change
  <2> QED
    BY <2>2, MovePointer, LifetimeAssumption DEF PointerMoves, EndpointInv
<1>2. HeldEndpointIsOpen'
  <2>1. \A m \in MetaRequest : meta_endpoint'[m] = meta_endpoint[m] \/ meta_endpoint'[m] = e
    BY DEF PointerMoves, Moves, TypeOK
  <2>2. \A r \in Request :
           connection_endpoint'[r] = connection_endpoint[r] \/ connection_endpoint'[r] = e
    BY DEF PointerMoves, Moves, TypeOK
  <2> SUFFICES ASSUME NEW d \in Endpoint,
                      \/ \E m \in MetaRequest : meta_endpoint'[m] = d
                      \/ \E r \in Request : connection_endpoint'[r] = d
               PROVE  phase'[d] = "open" /\ endpoints'[host'[d]] = d
    BY DEF HeldEndpointIsOpen
  <2>3. CASE d = e
    BY <2>3 DEF TypeOK
  <2>4. CASE d # e
    <3>1. phase[d] = "open" /\ endpoints[host[d]] = d
      BY <2>1, <2>2, <2>4 DEF EndpointInv, HeldEndpointIsOpen
    <3>2. host[d] # h
      BY <3>1, LifetimeAssumption
    <3> QED
      BY <2>4, <3>1, <3>2 DEF TypeOK, EndpointInv, TableNamesOpen
  <2> QED
    BY <2>3, <2>4
<1>3. TableNamesOpen'
  BY LifetimeAssumption DEF EndpointInv, TableNamesOpen, TypeOK
<1>4. AllocatedExact'
  <2> DEFINE A == {d \in Endpoint : phase[d] \in {"open", "closing"}}
             B == {d \in Endpoint : phase'[d] \in {"open", "closing"}}
  <2>1. B = A \cup {e} /\ e \notin A /\ A \subseteq Endpoint
    BY DEF TypeOK
  <2> HIDE DEF A, B
  <2>2. IsFiniteSet(A)
    BY <2>1, FS_Subset, LifetimeAssumption
  <2>3. Cardinality(B) = Cardinality(A) + 1
    BY <2>1, <2>2, FS_AddElement, Zenon
  <2> QED
    BY <2>3 DEF EndpointInv, AllocatedExact, A, B
<1> QED
  BY <1>1, <1>2, <1>3, <1>4 DEF EndpointInv
-----------------------------------------------------------------------------
LEMMA InFlightCount == TypeOK => Cardinality(InFlight) \in Nat
<1>1. InFlight \subseteq Request
  BY DEF InFlight
<1> QED
  BY <1>1, FS_Subset, FS_CardinalityType, LifetimeAssumption

\* Which pointer moves in the steps that acquire or release an endpoint.
LEMMA FinishMoves ==
    ASSUME TypeOK, MetaInv, NEW m \in MetaRequest, FinishMetaRequest(m)
    PROVE  meta_endpoint[m] \in Endpoint /\ PointerMoves(meta_endpoint[m], None)
  BY Zenon DEF TypeOK, MetaInv, FinishMetaRequest, Updating, PointerMoves, Moves, requestVars

LEMMA ConnectionMoves ==
    ASSUME TypeOK, MetaInv, StageInv, NEW r \in Request, CreateConnection(r)
    PROVE  /\ owner[r] \in MetaRequest
           /\ meta_endpoint[owner[r]] \in Endpoint
           /\ PointerMoves(None, meta_endpoint[owner[r]])
<1>1. stage[r] = "queued"
  BY DEF CreateConnection, Connecting
<1>2. owner[r] \in MetaRequest /\ meta_endpoint[owner[r]] \in Endpoint /\ connection_endpoint[r] = None
  BY <1>1 DEF TypeOK, MetaInv, StageInv, Holding, Unfinished
<1> QED
  BY <1>2, Zenon DEF TypeOK, CreateConnection, PointerMoves, Moves, metaVars

LEMMA ReleaseMoves ==
    ASSUME TypeOK, NEW r \in Request, ReleaseConnectionEndpoint(r)
    PROVE  connection_endpoint[r] \in Endpoint /\ PointerMoves(connection_endpoint[r], None)
  BY Zenon DEF TypeOK, ReleaseConnectionEndpoint, PointerMoves, Moves, metaVars

\* Every step preserves the type invariant. Only the counters need more than
\* the shape of the action.
LEMMA TypeNext ==
    ASSUME Inv, Next
    PROVE  TypeOK'
<1> USE DEF clientVars, workVars, endpointVars, metaVars, requestVars
<1>0. TypeOK /\ EndpointInv /\ MetaInv /\ StageInv
  BY DEF Inv, HoldInv
<1>1. CASE \E m \in MetaRequest, h \in Host, e \in Endpoint, express \in BOOLEAN :
              MakeMetaRequest(m, h, e, express)
  <2>1. PICK m \in MetaRequest, h \in Host, e \in Endpoint, express \in BOOLEAN :
               MakeMetaRequest(m, h, e, express)
    BY <1>1
  <2>2. /\ endpoints' \in [Host -> Endpoint \cup {None}]
        /\ phase' \in [Endpoint -> {"unused", "open", "closing", "gone"}]
        /\ host' \in [Endpoint -> Host \cup {None}]
        /\ ref_count' \in [Endpoint -> Nat]
        /\ num_endpoints_allocated' \in Nat
    BY <1>0, <2>1 DEF TypeOK, MakeMetaRequest
  <2>3. allocated' \subseteq Resource
    BY <1>0, <2>1 DEF TypeOK, MakeMetaRequest, Resource
  <2> QED
    BY <1>0, <2>1, <2>2, <2>3 DEF TypeOK, MakeMetaRequest, ScheduleProcessWork
<1>2. CASE MakeMetaRequestFails
  BY <1>0, <1>2 DEF TypeOK, MakeMetaRequestFails, Resource
<1>3. CASE \E m \in MetaRequest : Cancel(m)
  BY <1>0, <1>3 DEF TypeOK, Cancel, SetResult, ScheduleProcessWork
<1>4. CASE \E m \in MetaRequest : ReleaseMetaRequest(m)
  BY <1>0, <1>4 DEF TypeOK, ReleaseMetaRequest, DropsReference
<1>5. CASE ReleaseClient
  BY <1>0, <1>5, Zenon DEF TypeOK, ReleaseClient, DropsReference
<1>6. CASE StartDestroyBegin
  BY <1>0, <1>6, Zenon DEF TypeOK, StartDestroyBegin
<1>7. CASE StartDestroyRelease
  BY <1>0, <1>7 DEF TypeOK, StartDestroyRelease
<1>8. CASE StartDestroyEnd
  BY <1>0, <1>8 DEF TypeOK, StartDestroyEnd, ScheduleProcessWork
<1>9. CASE \E x \in Resource : ResourceShutdown(x)
  BY <1>0, <1>9 DEF TypeOK, ResourceShutdown, ScheduleProcessWork
<1>10. CASE \E e \in Endpoint : EndpointShutdown(e)
  <2>1. num_endpoints_allocated' \in Nat
    BY <1>0, <1>10, ShutdownKeeps
  <2> QED
    BY <1>0, <1>10, <2>1 DEF TypeOK, EndpointShutdown, ScheduleProcessWork
<1>11. CASE ProcessWorkBegin
  <2>1. CASE ~active /\ endpoints_cleanup_task_scheduled
    BY <1>0, <1>11, <2>1, Zenon DEF TypeOK, ProcessWorkBegin
  <2>2. CASE ~(~active /\ endpoints_cleanup_task_scheduled)
    <3>1. endpoints_cleanup_task_scheduled' \in BOOLEAN /\ TakeWork
      BY <1>0, <1>11, <2>2 DEF TypeOK, ProcessWorkBegin
    <3> QED
      BY <1>0, <1>11, <3>1, InFlightCount, Zenon DEF TypeOK, ProcessWorkBegin, TakeWork, Unfinished
  <2> QED
    BY <2>1, <2>2
<1>12. CASE ProcessWorkCleanup
  BY <1>0, <1>12, Zenon DEF TypeOK, ProcessWorkCleanup, RunCleanup, ScheduleProcessWork
<1>13. CASE ProcessWorkTake
  BY <1>0, <1>13, InFlightCount DEF TypeOK, ProcessWorkTake, TakeWork, Unfinished
<1>14. CASE \E m \in MetaRequest : PassOver(m)
  BY <1>0, <1>14 DEF TypeOK, PassOver
<1>15. CASE \E m \in MetaRequest : FinishMetaRequest(m)
  <2>1. PICK m \in MetaRequest : FinishMetaRequest(m)
    BY <1>15
  <2>2. ref_count' \in [Endpoint -> Nat]
    BY <1>0, <2>1, FinishMoves, ReleaseKeeps, Zenon DEF FinishMetaRequest
  <2>3. /\ endpoints' \in [Host -> Endpoint \cup {None}]
        /\ phase' \in [Endpoint -> {"unused", "open", "closing", "gone"}]
    BY <1>0, <2>1, Zenon DEF TypeOK, FinishMetaRequest, ReleaseEndpoint
  <2> QED
    BY <1>0, <2>1, <2>2, <2>3 DEF TypeOK, FinishMetaRequest, ReleaseEndpoint
<1>16. CASE \E m \in MetaRequest : RemoveMetaRequest(m)
  BY <1>0, <1>16 DEF TypeOK, RemoveMetaRequest, DropsReference
<1>17. CASE \E m \in MetaRequest, r \in Request : NewRequest(m, r)
  BY <1>0, <1>17, InFlightCount DEF TypeOK, NewRequest, Unfinished
<1>18. CASE \E r \in Request : DropRequest(r)
  BY <1>0, <1>18 DEF TypeOK, DropRequest, ScheduleProcessWork
<1>19. CASE \E r \in Request : CreateConnection(r)
  <2>1. PICK r \in Request : CreateConnection(r)
    BY <1>19
  <2>2. meta_endpoint[owner[r]] \in Endpoint
    BY <1>0, <2>1, ConnectionMoves
  <2> QED
    BY <1>0, <2>1, <2>2 DEF TypeOK, CreateConnection, Unfinished
<1>20. CASE ProcessWorkEnd
  BY <1>0, <1>20 DEF TypeOK, ProcessWorkEnd, FinishDestroy
<1>21. CASE CleanupTask
  BY <1>0, <1>21, Zenon DEF TypeOK, CleanupTask, RunCleanup, ScheduleProcessWork
<1>22. CASE \E r \in Request : PrepareSucceeds(r)
  BY <1>0, <1>22 DEF TypeOK, PrepareSucceeds, Advance, Unfinished, ScheduleProcessWork
<1>23. CASE \E r \in Request : RetryTokenAcquired(r)
  BY <1>0, <1>23 DEF TypeOK, RetryTokenAcquired, Advance, Unfinished
<1>24. CASE \E r \in Request, to \in {"open", "connecting"} : ConnectionAcquired(r, to)
  BY <1>0, <1>24 DEF TypeOK, ConnectionAcquired, Advance, Unfinished
<1>25. CASE \E r \in Request : Retry(r)
  BY <1>0, <1>25 DEF TypeOK, Retry, Advance, Unfinished
<1>26. CASE \E r \in Request : CountFinished(r)
  BY <1>0, <1>26 DEF TypeOK, CountFinished, Advance, Unfinished, ScheduleProcessWork
<1>27. CASE \E r \in Request : Report(r)
  <2>1. result' \in [MetaRequest -> {"none", "to_abort", "aborting", "final"}]
    BY <1>0, <1>27 DEF TypeOK, Report, SetResult
  <2> QED
    BY <1>0, <1>27, <2>1 DEF TypeOK, Report, Advance, Unfinished
<1>28. CASE \E r \in Request : ReleaseRequest(r)
  BY <1>0, <1>28 DEF TypeOK, ReleaseRequest, Advance, Unfinished, DropsReference
<1>29. CASE \E r \in Request : ReleaseConnectionEndpoint(r)
  <2>1. PICK r \in Request : ReleaseConnectionEndpoint(r)
    BY <1>29
  <2>2. ref_count' \in [Endpoint -> Nat]
    BY <1>0, <2>1, ReleaseMoves, ReleaseKeeps, Zenon DEF ReleaseConnectionEndpoint
  <2>3. /\ endpoints' \in [Host -> Endpoint \cup {None}]
        /\ phase' \in [Endpoint -> {"unused", "open", "closing", "gone"}]
    BY <1>0, <2>1, Zenon DEF TypeOK, ReleaseConnectionEndpoint, ReleaseEndpoint
  <2> QED
    BY <1>0, <2>1, <2>2, <2>3 DEF TypeOK, ReleaseConnectionEndpoint, ReleaseEndpoint
<1>30. CASE \E r \in Request : ScheduleLast(r)
  BY <1>0, <1>30 DEF TypeOK, ScheduleLast, Advance, Unfinished, ScheduleProcessWork
<1>31. CASE \E r \in Request : ReleaseKeptClient(r)
  BY <1>0, <1>31 DEF TypeOK, ReleaseKeptClient, Advance, DropsReference
<1> QED
  BY <1>1, <1>2, <1>3, <1>4, <1>5, <1>6, <1>7, <1>8, <1>9, <1>10, <1>11, <1>12, <1>13, <1>14,
     <1>15, <1>16, <1>17, <1>18, <1>19, <1>20, <1>21, <1>22, <1>23, <1>24, <1>25, <1>26, <1>27,
     <1>28, <1>29, <1>30, <1>31
     DEF Next, User, StartDestroy, Shutdowns, Worker, RequestStep

\* Every step keeps the endpoint table, the phases and the counters in line
\* with the pointers.
LEMMA EndpointNext ==
    ASSUME Inv, Next
    PROVE  EndpointInv'
<1> USE DEF clientVars, workVars, endpointVars, metaVars, requestVars
<1>0. TypeOK /\ EndpointInv /\ MetaInv /\ StageInv
  BY DEF Inv, HoldInv
<1>u. ASSUME UNCHANGED <<endpointVars, meta_endpoint, connection_endpoint>>
      PROVE  EndpointInv'
  BY <1>0, <1>u DEF EndpointInv, RefCountExact, HeldEndpointIsOpen, TableNamesOpen, AllocatedExact
<1>1. CASE \E m \in MetaRequest, h \in Host, e \in Endpoint, express \in BOOLEAN :
              MakeMetaRequest(m, h, e, express)
  <2>1. PICK m \in MetaRequest, h \in Host, e \in Endpoint, express \in BOOLEAN :
               MakeMetaRequest(m, h, e, express)
    BY <1>1
  <2>2. PointerMoves(None, e)
    BY <1>0, <2>1, Zenon DEF TypeOK, MetaInv, MakeMetaRequest, PointerMoves, Moves
  <2>3. CASE endpoints[h] = None
    BY <1>0, <2>1, <2>2, <2>3, CreateKeeps DEF MakeMetaRequest
  <2>4. CASE endpoints[h] # None
    <3>1. phase[e] = "open"
      BY <1>0, <2>1, <2>4 DEF MakeMetaRequest, EndpointInv, TableNamesOpen
    <3> QED
      BY <1>0, <2>1, <2>2, <2>4, <3>1, AcquireKeeps DEF MakeMetaRequest
  <2> QED
    BY <2>3, <2>4
<1>2. CASE \E e \in Endpoint : EndpointShutdown(e)
  BY <1>0, <1>2, ShutdownKeeps
<1>3. CASE ProcessWorkCleanup
  BY <1>0, <1>3, CleanupKeeps DEF ProcessWorkCleanup
<1>4. CASE CleanupTask
  BY <1>0, <1>4, CleanupKeeps DEF CleanupTask
<1>5. CASE \E m \in MetaRequest : FinishMetaRequest(m)
  BY <1>0, <1>5, FinishMoves, ReleaseKeeps, Zenon DEF FinishMetaRequest
<1>6. CASE \E r \in Request : CreateConnection(r)
  <2>1. PICK r \in Request : CreateConnection(r)
    BY <1>6
  <2>2. /\ meta_endpoint[owner[r]] \in Endpoint
        /\ PointerMoves(None, meta_endpoint[owner[r]])
        /\ phase[meta_endpoint[owner[r]]] = "open"
    BY <1>0, <2>1, ConnectionMoves DEF EndpointInv, HeldEndpointIsOpen
  <2> QED
    BY <1>0, <2>1, <2>2, AcquireKeeps, Zenon DEF CreateConnection
<1>7. CASE \E r \in Request : ReleaseConnectionEndpoint(r)
  BY <1>0, <1>7, ReleaseMoves, ReleaseKeeps, ZenonT(30) DEF ReleaseConnectionEndpoint
<1>8. CASE \/ MakeMetaRequestFails
           \/ \E m \in MetaRequest : Cancel(m) \/ ReleaseMetaRequest(m)
           \/ ReleaseClient
           \/ StartDestroy
           \/ \E x \in Resource : ResourceShutdown(x)
  BY <1>u, <1>8, SMTT(30) DEF StartDestroy, MakeMetaRequestFails, Cancel, ReleaseMetaRequest,
         ReleaseClient, StartDestroyBegin, StartDestroyRelease, StartDestroyEnd,
         ResourceShutdown
<1>9. CASE \/ ProcessWorkBegin
           \/ ProcessWorkTake
           \/ \E m \in MetaRequest : PassOver(m) \/ RemoveMetaRequest(m)
           \/ \E m \in MetaRequest, r \in Request : NewRequest(m, r)
           \/ \E r \in Request : DropRequest(r)
           \/ ProcessWorkEnd
  BY <1>u, <1>9, SMTT(30) DEF ProcessWorkBegin, ProcessWorkTake, PassOver, RemoveMetaRequest, NewRequest,
         DropRequest, ProcessWorkEnd, TakeWork
<1>10. CASE \/ \E r \in Request : PrepareSucceeds(r) \/ RetryTokenAcquired(r) \/ Retry(r) \/
                                  CountFinished(r) \/ Report(r) \/ ReleaseRequest(r) \/
                                  ScheduleLast(r) \/ ReleaseKeptClient(r)
            \/ \E r \in Request, to \in {"open", "connecting"} : ConnectionAcquired(r, to)
  BY <1>u, <1>10 DEF PrepareSucceeds, RetryTokenAcquired, ConnectionAcquired, Retry,
         CountFinished, Report, ReleaseRequest, ScheduleLast, ReleaseKeptClient, Advance
<1> QED
  BY <1>1, <1>2, <1>3, <1>4, <1>5, <1>6, <1>7, <1>8, <1>9, <1>10
     DEF Next, User, StartDestroy, Shutdowns, Worker, RequestStep

\* Every step keeps the stages in line with what is held.
LEMMA HoldNext ==
    ASSUME Inv, Next
    PROVE  HoldInv'
<1> USE DEF clientVars, workVars, endpointVars, metaVars, requestVars, Holding, Unfinished
<1>0. TypeOK /\ MetaInv /\ StageInv
  BY DEF Inv, HoldInv
<1>u. ASSUME UNCHANGED <<listed, meta_endpoint, requestVars>>
      PROVE  HoldInv'
  BY <1>0, <1>u, Zenon DEF HoldInv, MetaInv, StageInv
<1>1. CASE \/ MakeMetaRequestFails
           \/ \E m \in MetaRequest : Cancel(m) \/ ReleaseMetaRequest(m) \/ PassOver(m)
           \/ ReleaseClient
           \/ StartDestroyBegin
           \/ StartDestroyRelease
           \/ StartDestroyEnd
           \/ \E x \in Resource : ResourceShutdown(x)
           \/ \E e \in Endpoint : EndpointShutdown(e)
           \/ ProcessWorkCleanup
           \/ ProcessWorkEnd
           \/ CleanupTask
  BY <1>u, <1>1, ZenonT(30) DEF MakeMetaRequestFails, Cancel, ReleaseMetaRequest, ReleaseClient,
         StartDestroyBegin, StartDestroyRelease, StartDestroyEnd, ResourceShutdown,
         EndpointShutdown, ProcessWorkCleanup, PassOver, ProcessWorkEnd, CleanupTask
<1>2. CASE \E m \in MetaRequest, h \in Host, e \in Endpoint, express \in BOOLEAN :
              MakeMetaRequest(m, h, e, express)
  BY <1>0, <1>2, LifetimeAssumption, SMTT(30) DEF TypeOK, HoldInv, MetaInv, StageInv, MakeMetaRequest
<1>3. CASE ProcessWorkBegin
  BY <1>0, <1>3, SMTT(30) DEF TypeOK, HoldInv, MetaInv, StageInv, ProcessWorkBegin, TakeWork
<1>4. CASE ProcessWorkTake
  BY <1>0, <1>4, SMTT(30) DEF TypeOK, HoldInv, MetaInv, StageInv, ProcessWorkTake, TakeWork
<1>5. CASE \E m \in MetaRequest : FinishMetaRequest(m)
  BY <1>0, <1>5, LifetimeAssumption DEF TypeOK, HoldInv, MetaInv, StageInv, FinishMetaRequest,
         Updating, CanFinish, Waited
<1>6. CASE \E m \in MetaRequest : RemoveMetaRequest(m)
  BY <1>0, <1>6, SMTT(30) DEF TypeOK, HoldInv, MetaInv, StageInv, RemoveMetaRequest
<1>7. CASE \E m \in MetaRequest, r \in Request : NewRequest(m, r)
  BY <1>0, <1>7, SMTT(30) DEF TypeOK, HoldInv, MetaInv, StageInv, NewRequest, Updating
<1>8. CASE \E r \in Request : DropRequest(r)
  BY <1>0, <1>8, SMTT(30) DEF TypeOK, HoldInv, MetaInv, StageInv, DropRequest, Connecting
<1>9. CASE \E r \in Request : CreateConnection(r)
  BY <1>0, <1>9, SMTT(30) DEF TypeOK, HoldInv, MetaInv, StageInv, CreateConnection, Connecting
<1>10. CASE \E r \in Request : PrepareSucceeds(r)
  BY <1>0, <1>10, SMTT(30) DEF TypeOK, HoldInv, MetaInv, StageInv, PrepareSucceeds, Advance
<1>11. CASE \E r \in Request : RetryTokenAcquired(r)
  BY <1>0, <1>11, SMTT(30) DEF TypeOK, HoldInv, MetaInv, StageInv, RetryTokenAcquired, Advance
<1>12. CASE \E r \in Request, to \in {"open", "connecting"} : ConnectionAcquired(r, to)
  BY <1>0, <1>12, SMTT(30) DEF TypeOK, HoldInv, MetaInv, StageInv, ConnectionAcquired, Advance
<1>13. CASE \E r \in Request : Retry(r)
  BY <1>0, <1>13, SMTT(30) DEF TypeOK, HoldInv, MetaInv, StageInv, Retry, Advance
<1>14. CASE \E r \in Request : CountFinished(r)
  BY <1>0, <1>14, SMTT(30) DEF TypeOK, HoldInv, MetaInv, StageInv, CountFinished, Advance
<1>15. CASE \E r \in Request : Report(r)
  BY <1>0, <1>15, SMTT(30) DEF TypeOK, HoldInv, MetaInv, StageInv, Report, Advance
<1>16. CASE \E r \in Request : ReleaseRequest(r)
  BY <1>0, <1>16, SMTT(30) DEF TypeOK, HoldInv, MetaInv, StageInv, ReleaseRequest, Advance
<1>17. CASE \E r \in Request : ReleaseConnectionEndpoint(r)
  BY <1>0, <1>17, SMTT(30) DEF TypeOK, HoldInv, MetaInv, StageInv, ReleaseConnectionEndpoint
<1>18. CASE \E r \in Request : ScheduleLast(r)
  BY <1>0, <1>18, SMTT(30) DEF TypeOK, HoldInv, MetaInv, StageInv, ScheduleLast, Advance
<1>19. CASE \E r \in Request : ReleaseKeptClient(r)
  BY <1>0, <1>19 DEF TypeOK, HoldInv, MetaInv, StageInv, ReleaseKeptClient, Advance
<1> QED
  BY <1>1, <1>2, <1>3, <1>4, <1>5, <1>6, <1>7, <1>8, <1>9, <1>10, <1>11, <1>12, <1>13, <1>14,
     <1>15, <1>16, <1>17, <1>18, <1>19
     DEF Next, User, StartDestroy, Shutdowns, Worker, RequestStep

\* Nobody gets hold of a client that nobody holds: each step that takes a
\* reference is made by a holder of one.
LEMMA HeldNext ==
    ASSUME Inv, Next, ~ClientHeld
    PROVE  ~ClientHeld'
<1> USE DEF clientVars, workVars, endpointVars, metaVars, requestVars, Holding, Unfinished
<1>0. /\ TypeOK
      /\ ~user_holds
      /\ \A m \in MetaRequest : /\ ~user_holds_meta[m]
                               /\ listed[m] \notin {"pending", "threaded", "finished"}
                               /\ \A r \in Request : owner[r] = m => stage[r] \notin Holding
      /\ \A r \in Request : ~keeps_client[r] /\ stage[r] \notin Holding
  BY DEF Inv, HoldInv, StageInv, ClientHeld, MetaHeld
<1>u. ASSUME UNCHANGED <<user_holds, listed, user_holds_meta, stage, owner, keeps_client>>
      PROVE  ~ClientHeld'
  BY <1>u, SMTT(30) DEF ClientHeld, MetaHeld
<1>1. CASE \/ MakeMetaRequestFails
           \/ \E m \in MetaRequest : Cancel(m) \/ PassOver(m)
           \/ StartDestroyBegin
           \/ StartDestroyRelease
           \/ StartDestroyEnd
           \/ \E x \in Resource : ResourceShutdown(x)
           \/ \E e \in Endpoint : EndpointShutdown(e)
           \/ ProcessWorkCleanup
           \/ ProcessWorkEnd
           \/ CleanupTask
  BY <1>u, <1>1, SMTT(30) DEF MakeMetaRequestFails, Cancel, StartDestroyBegin, StartDestroyRelease,
         StartDestroyEnd, ResourceShutdown, EndpointShutdown, ProcessWorkCleanup, PassOver,
         ProcessWorkEnd, CleanupTask
<1>2. CASE \E m \in MetaRequest, h \in Host, e \in Endpoint, express \in BOOLEAN :
              MakeMetaRequest(m, h, e, express)
  BY <1>0, <1>2, SMTT(30) DEF TypeOK, ClientHeld, MetaHeld, MakeMetaRequest
<1>3. CASE \E m \in MetaRequest : ReleaseMetaRequest(m)
  BY <1>0, <1>3, SMTT(30) DEF TypeOK, ClientHeld, MetaHeld, ReleaseMetaRequest
<1>4. CASE ReleaseClient
  BY <1>0, <1>4, SMTT(30) DEF TypeOK, ClientHeld, MetaHeld, ReleaseClient
<1>5. CASE ProcessWorkBegin
  BY <1>0, <1>5, SMTT(30) DEF TypeOK, ClientHeld, MetaHeld, ProcessWorkBegin, TakeWork
<1>6. CASE ProcessWorkTake
  BY <1>0, <1>6, SMTT(30) DEF TypeOK, ClientHeld, MetaHeld, ProcessWorkTake, TakeWork
<1>7. CASE \E m \in MetaRequest : FinishMetaRequest(m)
  BY <1>0, <1>7, SMTT(30) DEF TypeOK, ClientHeld, MetaHeld, FinishMetaRequest, Updating
<1>8. CASE \E m \in MetaRequest : RemoveMetaRequest(m)
  BY <1>0, <1>8, SMTT(30) DEF TypeOK, ClientHeld, MetaHeld, RemoveMetaRequest
<1>9. CASE \E m \in MetaRequest, r \in Request : NewRequest(m, r)
  BY <1>0, <1>9, SMTT(30) DEF TypeOK, ClientHeld, MetaHeld, NewRequest, Updating
<1>10. CASE \E r \in Request : DropRequest(r)
  BY <1>0, <1>10, SMTT(30) DEF TypeOK, ClientHeld, MetaHeld, DropRequest, Connecting
<1>11. CASE \E r \in Request : CreateConnection(r)
  BY <1>0, <1>11, SMTT(30) DEF TypeOK, ClientHeld, MetaHeld, CreateConnection, Connecting
<1>12. CASE \E r \in Request : PrepareSucceeds(r)
  BY <1>0, <1>12, SMTT(30) DEF TypeOK, ClientHeld, MetaHeld, PrepareSucceeds, Advance
<1>13. CASE \E r \in Request : RetryTokenAcquired(r)
  BY <1>0, <1>13, SMTT(30) DEF TypeOK, ClientHeld, MetaHeld, RetryTokenAcquired, Advance
<1>14. CASE \E r \in Request, to \in {"open", "connecting"} : ConnectionAcquired(r, to)
  BY <1>0, <1>14, SMTT(30) DEF TypeOK, ClientHeld, MetaHeld, ConnectionAcquired, Advance
<1>15. CASE \E r \in Request : Retry(r)
  BY <1>0, <1>15, SMTT(30) DEF TypeOK, ClientHeld, MetaHeld, Retry, Advance
<1>16. CASE \E r \in Request : CountFinished(r)
  BY <1>0, <1>16, SMTT(30) DEF TypeOK, ClientHeld, MetaHeld, CountFinished, Advance
<1>17. CASE \E r \in Request : Report(r)
  BY <1>0, <1>17, SMTT(30) DEF TypeOK, ClientHeld, MetaHeld, Report, Advance
<1>18. CASE \E r \in Request : ReleaseRequest(r)
  BY <1>0, <1>18, SMTT(30) DEF TypeOK, ClientHeld, MetaHeld, ReleaseRequest, Advance
<1>19. CASE \E r \in Request : ScheduleLast(r)
  BY <1>0, <1>19, SMTT(30) DEF TypeOK, ClientHeld, MetaHeld, ScheduleLast, Advance
<1>20. CASE \E r \in Request : ReleaseKeptClient(r)
  BY <1>0, <1>20 DEF TypeOK, ClientHeld, MetaHeld, ReleaseKeptClient, Advance
<1>21. CASE \E r \in Request : ReleaseConnectionEndpoint(r)
  BY <1>u, <1>21 DEF ReleaseConnectionEndpoint
<1> QED
  BY <1>1, <1>2, <1>3, <1>4, <1>5, <1>6, <1>7, <1>8, <1>9, <1>10, <1>11, <1>12, <1>13, <1>14,
     <1>15, <1>16, <1>17, <1>18, <1>19, <1>20, <1>21, SMTT(30)
     DEF Next, User, StartDestroy, Shutdowns, Worker, RequestStep

\* Every step keeps to the order of the client's destruction.
LEMMA DestroyNext ==
    ASSUME Inv, Next
    PROVE  DestroyInv'
<1> USE DEF clientVars, workVars, endpointVars, metaVars, requestVars
<1>0. TypeOK /\ DestroyInv
  BY DEF Inv
<1>h. ~ClientHeld => ~ClientHeld'
  BY HeldNext
<1>u. ASSUME UNCHANGED <<active, start_destroy, destroyer>>,
             endpoints_cleanup_task_scheduled' => endpoints_cleanup_task_scheduled,
             process_work_task_scheduled => process_work_task_scheduled'
      PROVE  DestroyInv'
  BY <1>0, <1>h, <1>u DEF DestroyInv
<1>d. ASSUME NEW thread \in Request \cup {"user", "worker"}, DropsReference(thread),
             UNCHANGED <<active, start_destroy, endpoints_cleanup_task_scheduled,
                         process_work_task_scheduled>>
      PROVE  DestroyInv'
  <2>1. destroyer' # "nobody" => ~ClientHeld'
    BY <1>0, <1>h, <1>d DEF DestroyInv, DropsReference
  <2>2. destroyer # "nobody" => destroyer' # "nobody"
    BY <1>d, LifetimeAssumption DEF DropsReference
  <2> QED
    BY <1>0, <1>d, <2>1, <2>2 DEF DestroyInv
<1>1. CASE \E m \in MetaRequest : ReleaseMetaRequest(m)
  BY <1>d, <1>1 DEF ReleaseMetaRequest
<1>2. CASE ReleaseClient
  BY <1>d, <1>2 DEF ReleaseClient
<1>3. CASE \E m \in MetaRequest : RemoveMetaRequest(m)
  BY <1>d, <1>3 DEF RemoveMetaRequest
<1>4. CASE \E r \in Request : ReleaseRequest(r)
  BY <1>d, <1>4 DEF ReleaseRequest
<1>5. CASE \E r \in Request : ReleaseKeptClient(r)
  BY <1>d, <1>5 DEF ReleaseKeptClient
<1>6. CASE StartDestroyBegin
  BY <1>0, <1>h, <1>6 DEF DestroyInv, StartDestroyBegin, ScheduleProcessWork
<1>7. CASE StartDestroyRelease
  BY <1>0, <1>h, <1>7 DEF DestroyInv, StartDestroyRelease, ScheduleProcessWork
<1>8. CASE StartDestroyEnd
  BY <1>0, <1>h, <1>8 DEF DestroyInv, StartDestroyEnd, ScheduleProcessWork
<1>9. CASE ProcessWorkBegin
  BY <1>0, <1>h, <1>9, SMTT(30) DEF TypeOK, DestroyInv, ProcessWorkBegin
<1>10. CASE ProcessWorkCleanup
  BY <1>u, <1>10 DEF ProcessWorkCleanup, RunCleanup, ScheduleProcessWork
<1>11. CASE CleanupTask
  BY <1>u, <1>11, SMTT(30) DEF CleanupTask, RunCleanup, ScheduleProcessWork
<1>12. CASE \/ \E m \in MetaRequest, h \in Host, e \in Endpoint, express \in BOOLEAN :
                  MakeMetaRequest(m, h, e, express)
            \/ MakeMetaRequestFails
            \/ \E m \in MetaRequest : Cancel(m)
  BY <1>u, <1>12, SMTT(30) DEF MakeMetaRequest, MakeMetaRequestFails, Cancel, ScheduleProcessWork
<1>13. CASE \/ \E x \in Resource : ResourceShutdown(x)
            \/ \E e \in Endpoint : EndpointShutdown(e)
            \/ ProcessWorkTake
            \/ \E m \in MetaRequest : PassOver(m) \/ FinishMetaRequest(m)
            \/ \E m \in MetaRequest, r \in Request : NewRequest(m, r)
  BY <1>u, <1>13 DEF ResourceShutdown, EndpointShutdown, ProcessWorkTake, PassOver,
         FinishMetaRequest, NewRequest, ScheduleProcessWork
<1>14. CASE \/ \E r \in Request : DropRequest(r) \/ CreateConnection(r) \/ PrepareSucceeds(r) \/
                                  RetryTokenAcquired(r) \/ Retry(r) \/ CountFinished(r) \/
                                  Report(r) \/ ReleaseConnectionEndpoint(r) \/ ScheduleLast(r)
            \/ ProcessWorkEnd
            \/ \E r \in Request, to \in {"open", "connecting"} : ConnectionAcquired(r, to)
  BY <1>u, <1>14, Zenon DEF DropRequest, CreateConnection, ProcessWorkEnd, PrepareSucceeds,
         RetryTokenAcquired, ConnectionAcquired, Retry, CountFinished, Report,
     ReleaseConnectionEndpoint, ScheduleLast, ScheduleProcessWork
<1> QED
  BY <1>1, <1>2, <1>3, <1>4, <1>5, <1>6, <1>7, <1>8, <1>9, <1>10, <1>11, <1>12, <1>13, <1>14
     DEF Next, User, StartDestroy, Shutdowns, Worker, RequestStep

\* When the process-work task finds that it may free the client, nothing of
\* the client is left, although finish_destroy reads neither the meta requests,
\* nor the requests, nor the clean-up task's flag.
LEMMA FreedNext ==
    ASSUME Inv, ProcessWorkEnd, FinishDestroy
    PROVE  FreedWhenQuiet'
<1> USE DEF clientVars, workVars, endpointVars, metaVars, requestVars
<1>0. TypeOK /\ EndpointInv /\ StageInv /\ DestroyInv
  BY DEF Inv, HoldInv
<1>1. ~ClientHeld /\ start_destroy = "done"
  BY <1>0 DEF TypeOK, DestroyInv, FinishDestroy, StartDestroyExecuting
<1>2. ~process_work_task_scheduled /\ ~endpoints_cleanup_task_scheduled /\ allocated = {}
  BY <1>0, <1>1 DEF DestroyInv, FinishDestroy
<1>3. \A e \in Endpoint : phase[e] \in {"unused", "gone"}
  <2> DEFINE A == {e \in Endpoint : phase[e] \in {"open", "closing"}}
  <2>1. A \subseteq Endpoint /\ Cardinality(A) = 0
    BY <1>0 DEF EndpointInv, AllocatedExact, FinishDestroy
  <2> HIDE DEF A
  <2>2. A = {}
    BY <2>1, FS_Subset, FS_EmptySet, LifetimeAssumption
  <2> QED
    BY <1>0, <2>2 DEF A, TypeOK
<1>4. \A r \in Request : connection_endpoint[r] = None
  BY <1>0, <1>3 DEF EndpointInv, HeldEndpointIsOpen, TypeOK
<1>5. \A r \in Request : stage[r] \in {"unused", "released"}
  BY <1>0, <1>1 DEF TypeOK, StageInv, ClientHeld, MetaHeld, Holding
<1>6. ~ClientHeld' /\ worker' = "idle"
  BY <1>1 DEF ProcessWorkEnd, ClientHeld, MetaHeld
<1>7. UNCHANGED <<clientVars, process_work_task_scheduled, endpoints_cleanup_task_scheduled,
                  endpointVars, requestVars>>
  BY DEF ProcessWorkEnd
<1> QED
  BY <1>1, <1>2, <1>3, <1>4, <1>5, <1>6, <1>7, Zenon DEF FreedWhenQuiet

\* Nothing happens to a client that is freed: the steps that do not ask for a
\* living client are disabled because nothing is left.
LEMMA FreedStops ==
    ASSUME Inv, freed
    PROVE  ~Next
<1>0. TypeOK /\ FreedWhenQuiet
  BY SMTT(30) DEF Inv
<1>1. ~User
  BY DEF User, MakeMetaRequest, MakeMetaRequestFails, Cancel, ReleaseMetaRequest, ReleaseClient,
         MayRun
<1>2. ~StartDestroy /\ ~Shutdowns
  BY <1>0, Zenon DEF FreedWhenQuiet, StartDestroy, StartDestroyBegin, StartDestroyRelease,
         StartDestroyEnd,
              Shutdowns, ResourceShutdown, EndpointShutdown
<1>3. ~Worker
  BY <1>0, Zenon DEF FreedWhenQuiet, Worker, ProcessWorkBegin, ProcessWorkCleanup, ProcessWorkTake,
         PassOver,
              FinishMetaRequest, RemoveMetaRequest, NewRequest, Updating, DropRequest,
              CreateConnection, Connecting, ProcessWorkEnd, CleanupTask, MayRun
<1>4. \A r \in Request : ~RequestStep(r)
  BY Zenon DEF RequestStep, PrepareSucceeds, RetryTokenAcquired, ConnectionAcquired, Retry,
         CountFinished,
         Report, ReleaseRequest, ReleaseConnectionEndpoint, ScheduleLast, ReleaseKeptClient,
         Advance, MayRun
<1> QED
  BY <1>1, <1>2, <1>3, <1>4 DEF Next
-----------------------------------------------------------------------------
\* A new client satisfies the invariant.
LEMMA InvInit == Init => Inv
<1> SUFFICES ASSUME Init PROVE Inv
  OBVIOUS
<1> USE DEF Init
<1>1. TypeOK
  BY Zenon DEF TypeOK, Resource
<1>2. EndpointInv
  <2>1. RefCountExact
    <3>1. /\ IsFiniteSet(MetaRequest) /\ meta_endpoint \in [MetaRequest -> {None}]
          /\ IsFiniteSet(Request) /\ connection_endpoint \in [Request -> {None}]
      BY LifetimeAssumption
    <3>2. ASSUME NEW e \in Endpoint
          PROVE  PointersTo(e, meta_endpoint) = 0 /\ PointersTo(e, connection_endpoint) = 0
      BY <3>1, PointersZero, LifetimeAssumption, Zenon
    <3> QED
      BY <3>2 DEF RefCountExact
  <2>2. AllocatedExact
    <3>1. {e \in Endpoint : phase[e] \in {"open", "closing"}} = {}
      OBVIOUS
    <3> QED
      BY <3>1, FS_EmptySet, SMTT(30) DEF AllocatedExact
  <2> QED
    BY <2>1, <2>2, LifetimeAssumption, SMTT(30) DEF EndpointInv, HeldEndpointIsOpen, TableNamesOpen
<1>3. HoldInv
  BY DEF HoldInv, MetaInv, StageInv, Holding, Unfinished
<1>4. DestroyInv /\ FreedWhenQuiet
  BY DEF DestroyInv, FreedWhenQuiet
<1> QED
  BY <1>1, <1>2, <1>3, <1>4 DEF Inv

\* Every step, and stuttering, preserves the invariant.
LEMMA InvNext == Inv /\ [Next]_vars => Inv'
<1> SUFFICES ASSUME Inv, [Next]_vars PROVE Inv'
  OBVIOUS
<1>1. CASE Next
  <2>1. FreedWhenQuiet'
    <3>1. ~freed
      BY <1>1, FreedStops, SMTT(30)
    <3>2. CASE ProcessWorkEnd
      BY <3>2, FreedNext DEF ProcessWorkEnd, FreedWhenQuiet
    <3>3. CASE ~ProcessWorkEnd
      <4>u. ASSUME UNCHANGED freed PROVE FreedWhenQuiet'
        BY <3>1, <4>u, SMTT(30) DEF FreedWhenQuiet
      <4>1. CASE User \/ StartDestroy \/ Shutdowns
        BY <4>u, <4>1, SMTT(30) DEF workVars, User, MakeMetaRequest, MakeMetaRequestFails, Cancel,
               ReleaseMetaRequest, ReleaseClient, StartDestroy, StartDestroyBegin,
               StartDestroyRelease, StartDestroyEnd, Shutdowns, ResourceShutdown, EndpointShutdown
      <4>2. CASE Worker
        BY <3>3, <4>u, <4>2 DEF workVars, Worker, ProcessWorkBegin, ProcessWorkCleanup,
               ProcessWorkTake, PassOver, FinishMetaRequest, RemoveMetaRequest, NewRequest,
               DropRequest, CreateConnection, CleanupTask
      <4>3. CASE \E r \in Request : RequestStep(r)
        BY <4>u, <4>3, Zenon DEF workVars, RequestStep, PrepareSucceeds, RetryTokenAcquired,
               ConnectionAcquired, Retry, CountFinished, Report, ReleaseRequest,
               ReleaseConnectionEndpoint, ScheduleLast, ReleaseKeptClient
      <4> QED
        BY <1>1, <4>1, <4>2, <4>3 DEF Next
    <3> QED
      BY <3>2, <3>3
  <2> QED
    BY <1>1, <2>1, TypeNext, EndpointNext, HoldNext, DestroyNext DEF Inv
<1>2. CASE UNCHANGED vars
  <2> USE <1>2 DEF vars, clientVars, workVars, endpointVars, metaVars, requestVars
  <2>1. TypeOK'
    BY SMTT(30) DEF Inv, TypeOK
  <2>2. EndpointInv'
    <3> USE DEF Inv, EndpointInv
    <3>1. RefCountExact'
      BY DEF RefCountExact
    <3>2. HeldEndpointIsOpen'
      BY DEF HeldEndpointIsOpen
    <3>3. TableNamesOpen'
      BY DEF TableNamesOpen
    <3>4. AllocatedExact'
      BY DEF AllocatedExact
    <3> QED
      BY <3>1, <3>2, <3>3, <3>4
  <2>3. MetaInv' /\ StageInv'
    BY SMTT(30) DEF Inv, HoldInv, MetaInv, StageInv
  <2>4. DestroyInv' /\ FreedWhenQuiet'
    BY DEF Inv, DestroyInv, FreedWhenQuiet, ClientHeld, MetaHeld
  <2> QED
    BY <2>1, <2>2, <2>3, <2>4 DEF Inv, HoldInv
<1> QED
  BY <1>1, <1>2

\* The strengthened invariant holds in every reachable state.
THEOREM Invariance == Spec => []Inv
  BY InvInit, InvNext, PTL DEF Spec

\* Every variable keeps its type; in particular no reference count and no count
\* of endpoints is ever decremented below zero.
THEOREM TypeCorrect == Spec => []TypeOK
<1>1. Inv => TypeOK
  BY DEF Inv
<1> QED
  BY <1>1, Invariance, PTL

\* The endpoint of a meta request or of a connection is never destroyed under
\* it, and the table entry of its host names it, so that
\* aws_s3_endpoint_release removes no other endpoint's entry.
THEOREM EndpointsOutliveHolders == Spec => []HeldEndpointIsOpen
<1>1. Inv => HeldEndpointIsOpen
  BY DEF Inv, EndpointInv
<1> QED
  BY <1>1, Invariance, PTL

\* An endpoint's ref_count is the number of its holders.
THEOREM ReferencesCounted == Spec => []RefCountExact
<1>1. Inv => RefCountExact
  BY DEF Inv, EndpointInv
<1> QED
  BY <1>1, Invariance, PTL

\* s_s3_client_finish_destroy_default runs only when nothing of the client is
\* left, although s_s3_client_process_work_default reads only five facts.
THEOREM FreedIsQuiet == Spec => []FreedWhenQuiet
<1>1. Inv => FreedWhenQuiet
  BY DEF Inv
<1> QED
  BY <1>1, Invariance, PTL
=============================================================================
