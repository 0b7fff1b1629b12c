-------------------------- MODULE IndexServingProofs --------------------------
(***************************************************************************)
(* Proofs about the views that a content process leases to its requests,   *)
(* for any number of requests, loader threads, versions and views.         *)
(*                                                                         *)
(* The three properties are inductive together with what they leave        *)
(* implicit: which keys loaders hold.  A key is in the hands of one loader *)
(* (HandsInv), and is not cached while it is being loaded; so a view that  *)
(* is put into the cache replaces none that a request has leased.          *)
(***************************************************************************)
EXTENDS IndexServing, FiniteSetTheorems, WellFoundedInduction, TLAPS

IsView(v) ==
    /\ v = [opened |-> v.opened, leases |-> v.leases, place |-> v.place]
    /\ v.leases \in Nat /\ v.place \in Nat

IsLoader(t) == t = [pc |-> t.pc, key |-> t.key, opened |-> t.opened]

\* What a thread has to load is not cached until it has come to the end.
Loading(t) == t.pc \in {"check", "prepare", "full", "again", "insert"}

\* Requests, threads and views have their fields.
ShapeInv ==
    /\ DOMAIN requests = Request
    /\ DOMAIN loaders = Loader /\ \A l \in Loader : IsLoader(loaders[l])
    /\ IsFiniteSet(Cached) /\ \A k \in Cached : IsView(views[k])

\* One thread at most works on a key.
HandsInv ==
    /\ \A l \in Loader :
          /\ loaders[l].pc = "idle" <=> loaders[l].key = None
          /\ loaders[l].pc = "idle" \/ loaders[l].pc = "finally" \/ Loading(loaders[l])
          /\ loaders[l].pc = "insert" => loaders[l].opened = loaders[l].key
    /\ \A l, m \in Loader : loaders[l].key = loaders[m].key /\ loaders[l].key # None => l = m

\* A key that is being loaded is not cached.
ColdInv == \A l \in Loader : Loading(loaders[l]) => loaders[l].key \notin Cached

ServingInv ==
    /\ ShapeInv /\ HandsInv /\ ColdInv
    /\ LeasesAreCounted /\ ViewsMatchTheirKey /\ ViewsAreBounded

-----------------------------------------------------------------------------
(* Readers and views.                                                       *)

LEMMA ReadersAreFinite ==
    \A k : IsFiniteSet(Readers(k)) /\ Cardinality(Readers(k)) \in Nat
<1> SUFFICES ASSUME NEW k PROVE IsFiniteSet(Readers(k)) /\ Cardinality(Readers(k)) \in Nat
  OBVIOUS
<1>1. Readers(k) \subseteq Request /\ IsFiniteSet(Request)
  BY ServingAssumption DEF Readers
<1> QED
  BY <1>1, FS_Subset, FS_CardinalityType

LEMMA NoReaders ==
    ASSUME LeasesAreCounted, NEW k \in Cached, views[k].leases = 0
    PROVE  \A r \in Request : ~(requests[r].pc = "lookup" /\ requests[r].key = k)
<1>1. Cardinality(Readers(k)) = 0
  BY DEF LeasesAreCounted
<1>2. Readers(k) = {}
  BY <1>1, ReadersAreFinite, FS_EmptySet
<1> QED
  BY <1>2 DEF Readers

LEMMA KeptViews ==
    ASSUME ShapeInv, NEW keys, keys \subseteq Cached
    PROVE  /\ DOMAIN Kept(keys) = keys
           /\ \A k \in keys : /\ IsView(Kept(keys)[k])
                              /\ Kept(keys)[k].opened = views[k].opened
                              /\ Kept(keys)[k].leases = views[k].leases
<1>1. DOMAIN Kept(keys) = keys
  BY DEF Kept
<1>2. ASSUME NEW k \in keys
      PROVE  /\ IsView(Kept(keys)[k])
             /\ Kept(keys)[k].opened = views[k].opened /\ Kept(keys)[k].leases = views[k].leases
  <2> DEFINE before == {j \in keys : views[j].place < views[k].place}
  <2>1. Cardinality(before) \in Nat
    <3>1. before \subseteq Cached /\ IsFiniteSet(Cached)
      BY DEF ShapeInv
    <3> QED
      BY <3>1, FS_Subset, FS_CardinalityType
  <2>2. Kept(keys)[k] = [views[k] EXCEPT !.place = Cardinality(before)]
    BY DEF Kept
  <2> HIDE DEF before
  <2>3. IsView(views[k])
    BY DEF ShapeInv
  <2> QED
    BY <2>1, <2>2, <2>3 DEF IsView
<1> QED
  BY <1>1, <1>2

\* w has the views of keys, as they are, and a last one, of k.
IsWithLast(w, keys, k, opened, leases) ==
    /\ DOMAIN w = keys \cup {k}
    /\ IsView(w[k]) /\ w[k].opened = opened /\ w[k].leases = leases
    /\ \A j \in keys \ {k} : /\ IsView(w[j])
                             /\ w[j].opened = views[j].opened /\ w[j].leases = views[j].leases

LEMMA WithLastViews ==
    ASSUME ShapeInv, NEW keys, keys \subseteq Cached, NEW k, NEW opened, NEW leases \in Nat
    PROVE  IsWithLast(WithLast(keys, k, opened, leases), keys, k, opened, leases)
<1> DEFINE w == WithLast(keys, k, opened, leases)
<1>1. DOMAIN w = keys \cup {k}
  BY DEF WithLast
<1>2. Cardinality(keys \ {k}) \in Nat
  <2>1. keys \ {k} \subseteq Cached /\ IsFiniteSet(Cached)
    BY DEF ShapeInv
  <2> QED
    BY <2>1, FS_Subset, FS_CardinalityType
<1>3. w[k] = [opened |-> opened, leases |-> leases, place |-> Cardinality(keys \ {k})]
  BY DEF WithLast
<1>4. \A j \in keys \ {k} : w[j] = Kept(keys \ {k})[j]
  BY DEF WithLast
<1>5. IsView(w[k]) /\ w[k].opened = opened /\ w[k].leases = leases
  BY <1>2, <1>3 DEF IsView
<1> HIDE DEF w
<1>6. \A j \in keys \ {k} : /\ IsView(w[j]) /\ w[j].opened = views[j].opened
                            /\ w[j].leases = views[j].leases
  BY <1>4, KeptViews
<1> QED
  BY <1>1, <1>5, <1>6 DEF IsWithLast, w

\* What a step of a thread leaves.
LEMMA Stepped ==
    ASSUME ShapeInv, NEW l \in Loader, NEW pc, NEW opened, Step(l, pc, opened)
    PROVE  /\ DOMAIN loaders' = Loader
           /\ loaders'[l] = [pc |-> pc, key |-> loaders[l].key, opened |-> opened]
           /\ \A m \in Loader \ {l} : loaders'[m] = loaders[m]
<1> DEFINE first == [loaders EXCEPT ![l].pc = pc]
<1>1. DOMAIN loaders = Loader
      /\ loaders[l] = [pc |-> loaders[l].pc, key |-> loaders[l].key, opened |-> loaders[l].opened]
  BY DEF ShapeInv, IsLoader
<1>2. /\ DOMAIN first = Loader
      /\ first[l] = [pc |-> pc, key |-> loaders[l].key, opened |-> loaders[l].opened]
      /\ \A m \in Loader \ {l} : first[m] = loaders[m]
  BY <1>1
<1>3. loaders' = [first EXCEPT ![l].opened = opened]
  BY DEF Step
<1> HIDE DEF first
<1> QED
  BY <1>2, <1>3

\* A thread that works goes on with its key.
LEMMA ThreadMoved ==
    ASSUME ServingInv, NEW l \in Loader, NEW pc, NEW opened, loaders[l].pc # "idle",
           /\ DOMAIN loaders' = Loader
           /\ loaders'[l] = [pc |-> pc, key |-> loaders[l].key, opened |-> opened]
           /\ \A m \in Loader \ {l} : loaders'[m] = loaders[m],
           pc \in {"check", "prepare", "full", "again", "insert", "finally"},
           pc = "insert" => opened = loaders[l].key
    PROVE  /\ \A m \in Loader : IsLoader(loaders'[m]) /\ loaders'[m].key = loaders[m].key
           /\ HandsInv'
           /\ pending' = pending => pending' = {loaders'[m].key : m \in Loader} \ {None}
<1>1. loaders'[l].pc = pc /\ loaders'[l].key = loaders[l].key /\ loaders'[l].opened = opened
  OBVIOUS
<1>2. \A m \in Loader : IsLoader(loaders'[m]) /\ loaders'[m].key = loaders[m].key
  BY DEF ServingInv, ShapeInv, IsLoader
<1>3. HandsInv'
  <2>1. ASSUME NEW m \in Loader
        PROVE  /\ loaders'[m].pc = "idle" <=> loaders'[m].key = None
               /\ loaders'[m].pc = "idle" \/ loaders'[m].pc = "finally" \/ Loading(loaders'[m])
               /\ loaders'[m].pc = "insert" => loaders'[m].opened = loaders'[m].key
    BY <1>1 DEF ServingInv, HandsInv, Loading
  <2>2. ASSUME NEW m \in Loader, NEW o \in Loader,
               loaders'[m].key = loaders'[o].key, loaders'[m].key # None
        PROVE  m = o
    BY <1>2, <2>2 DEF ServingInv, HandsInv
  <2> QED
    BY <2>1, <2>2 DEF HandsInv, Loading
<1>4. {loaders'[m].key : m \in Loader} = {loaders[m].key : m \in Loader}
  BY <1>2
<1> QED
  BY <1>2, <1>3, <1>4 DEF ServingInv, ViewsAreBounded

-----------------------------------------------------------------------------
(* The repository, and requests.                                            *)

LEMMA FrameStep ==
    ASSUME ServingInv, UNCHANGED <<requests, views, pending, loaders>> PROVE ServingInv'
<1>1. Cached' = Cached /\ \A k : Readers(k)' = Readers(k)
  BY DEF Cached, Readers
<1>2. ShapeInv' /\ HandsInv' /\ ColdInv'
  BY <1>1 DEF ServingInv, ShapeInv, HandsInv, ColdInv, Loading, IsView, IsLoader
<1>3. LeasesAreCounted' /\ ViewsMatchTheirKey' /\ ViewsAreBounded'
  BY <1>1 DEF ServingInv, LeasesAreCounted, ViewsMatchTheirKey, ViewsAreBounded
<1> QED
  BY <1>2, <1>3 DEF ServingInv

\* Readers of a key when request r becomes one of k, or of none.
LEMMA ReadersMoved ==
    ASSUME DOMAIN requests = Request, NEW r \in Request, NEW q, requests' = [requests EXCEPT ![r] = q]
    PROVE  /\ DOMAIN requests' = Request /\ requests'[r] = q
           /\ \A o \in Request \ {r} : requests'[o] = requests[o]
           /\ \A k : Readers(k)' = IF q.pc = "lookup" /\ q.key = k THEN Readers(k) \cup {r}
                                   ELSE Readers(k) \ {r}
<1>1. /\ DOMAIN requests' = Request /\ requests'[r] = q
      /\ \A o \in Request \ {r} : requests'[o] = requests[o]
  OBVIOUS
<1>2. ASSUME NEW k
      PROVE  Readers(k)' = IF q.pc = "lookup" /\ q.key = k THEN Readers(k) \cup {r}
                           ELSE Readers(k) \ {r}
  BY <1>1 DEF Readers
<1> QED
  BY <1>1, <1>2

LEMMA QueryStep ==
    ASSUME ServingInv, NEW r \in Request, NEW d, Query(r, d) PROVE ServingInv'
<1> DEFINE q == [pc |-> "store", distribution |-> d, key |-> Selected(d)]
<1>1. requests' = [requests EXCEPT ![r] = q] /\ UNCHANGED <<views, pending, loaders>>
      /\ requests[r].pc = "idle" /\ q.pc = "store"
  BY DEF Query, cacheVars
<1> HIDE DEF q
<1>2. /\ DOMAIN requests' = Request /\ requests'[r].pc = "store"
      /\ \A o \in Request \ {r} : requests'[o] = requests[o]
      /\ \A k : Readers(k)' = Readers(k) \ {r}
  BY <1>1, ReadersMoved DEF ServingInv, ShapeInv
<1>3. \A k : Readers(k)' = Readers(k)
  BY <1>1, <1>2 DEF Readers
<1>4. ShapeInv' /\ HandsInv' /\ ColdInv' /\ ViewsMatchTheirKey' /\ ViewsAreBounded'
  BY <1>1, <1>2 DEF ServingInv, ShapeInv, HandsInv, ColdInv, ViewsMatchTheirKey, ViewsAreBounded,
                    Cached, Loading, IsView, IsLoader
<1>5. LeasesAreCounted'
  BY <1>1, <1>2, <1>3 DEF ServingInv, LeasesAreCounted, Cached
<1> QED
  BY <1>4, <1>5 DEF ServingInv

\* A free thread gets a key that is neither cached nor in other hands.
LEMMA Submitted ==
    ASSUME ServingInv, NEW l \in Loader, NEW k, k # None, k \notin Cached, k \notin pending,
           loaders[l].pc = "idle", views' = views,
           loaders' = [loaders EXCEPT ![l] = [Waiting EXCEPT !.pc = "check", !.key = k]],
           pending' = pending \cup {k}
    PROVE  /\ DOMAIN loaders' = Loader /\ \A m \in Loader : IsLoader(loaders'[m])
           /\ HandsInv' /\ ColdInv' /\ ViewsAreBounded'
<1>1. /\ DOMAIN loaders' = Loader
      /\ loaders'[l] = [pc |-> "check", key |-> k, opened |-> None]
      /\ \A m \in Loader \ {l} : loaders'[m] = loaders[m]
  BY DEF ServingInv, ShapeInv, Waiting
<1>2. loaders'[l].pc = "check" /\ loaders'[l].key = k /\ IsLoader(loaders'[l])
  BY <1>1 DEF IsLoader
<1>3. pending = {loaders[m].key : m \in Loader} \ {None} /\ loaders[l].key = None
  BY DEF ServingInv, ViewsAreBounded, HandsInv
<1>4. \A m \in Loader : loaders[m].key # k
  BY <1>3
<1>5. \A m \in Loader : IsLoader(loaders'[m])
  BY <1>1, <1>2 DEF ServingInv, ShapeInv
<1>6. HandsInv'
  <2>1. ASSUME NEW m \in Loader
        PROVE  /\ loaders'[m].pc = "idle" <=> loaders'[m].key = None
               /\ loaders'[m].pc = "idle" \/ loaders'[m].pc = "finally" \/ Loading(loaders'[m])
               /\ loaders'[m].pc = "insert" => loaders'[m].opened = loaders'[m].key
    BY <1>1, <1>2 DEF ServingInv, HandsInv, Loading
  <2>2. ASSUME NEW m \in Loader, NEW o \in Loader,
               loaders'[m].key = loaders'[o].key, loaders'[m].key # None
        PROVE  m = o
    BY <1>1, <1>2, <1>4, <2>2 DEF ServingInv, HandsInv
  <2> QED
    BY <2>1, <2>2 DEF HandsInv, Loading
<1>7. ColdInv'
  BY <1>1, <1>2 DEF ServingInv, ColdInv, Cached, Loading
<1>8. ViewsAreBounded'
  <2>1. {loaders'[m].key : m \in Loader} \ {None} = pending \cup {k}
    BY <1>1, <1>2, <1>3
  <2> QED
    BY <2>1 DEF ServingInv, ViewsAreBounded, Cached
<1> QED
  BY <1>1, <1>5, <1>6, <1>7, <1>8

LEMMA LeaseStep ==
    ASSUME ServingInv, NEW r \in Request, NEW k, NEW due, requests[r].pc # "lookup", Lease(r, k, due)
    PROVE  ServingInv'
<1>1. CASE k \in Cached
  <2> DEFINE q == [Free EXCEPT !.pc = "lookup", !.key = k]
             n == views[k].leases + 1
  <2>1. /\ views' = WithLast(Cached, k, views[k].opened, n)
        /\ requests' = [requests EXCEPT ![r] = q]
        /\ UNCHANGED <<loaders, pending>>
    BY <1>1 DEF Lease
  <2>2. q.pc = "lookup" /\ q.key = k
    BY DEF Free
  <2> HIDE DEF q
  <2>3. n \in Nat /\ views[k].leases = Cardinality(Readers(k))
    <3>1. IsView(views[k]) /\ views[k].leases = Cardinality(Readers(k))
      BY <1>1 DEF ServingInv, ShapeInv, LeasesAreCounted
    <3>2. \A i \in Nat : i + 1 \in Nat
      OBVIOUS
    <3> QED
      BY <3>1, <3>2, ReadersAreFinite
  <2>4. /\ Cached' = Cached
        /\ IsView(views'[k]) /\ views'[k].opened = views[k].opened
        /\ views'[k].leases = views[k].leases + 1
        /\ \A j \in Cached \ {k} : /\ IsView(views'[j])
                                   /\ views'[j].opened = views[j].opened
                                   /\ views'[j].leases = views[j].leases
    <3>1. ShapeInv /\ Cached \subseteq Cached /\ Cached \cup {k} = Cached
      BY <1>1 DEF ServingInv
    <3>2. Cached' = DOMAIN views'
      BY DEF Cached
    <3> DEFINE opened == views[k].opened
    <3>3. views' = WithLast(Cached, k, opened, n)
      BY <2>1
    <3> HIDE DEF n, opened
    <3>4. IsWithLast(views', Cached, k, opened, n)
      BY <2>3, <3>1, <3>3, WithLastViews, Zenon
    <3> QED
      BY <3>1, <3>2, <3>4 DEF n, opened, IsWithLast
  <2>5. /\ DOMAIN requests' = Request /\ requests'[r] = q
        /\ \A o \in Request \ {r} : requests'[o] = requests[o]
        /\ \A j : Readers(j)' = IF j = k THEN Readers(j) \cup {r} ELSE Readers(j) \ {r}
    BY <2>1, <2>2, ReadersMoved DEF ServingInv, ShapeInv
  <2>6. r \notin Readers(k) /\ \A j : Readers(j) \ {r} = Readers(j)
    BY DEF Readers
  <2>7. Cardinality(Readers(k) \cup {r}) = Cardinality(Readers(k)) + 1
    BY <2>6, ReadersAreFinite, FS_AddElement
  <2>8. LeasesAreCounted'
    <3>1. \A o \in Request : requests'[o].pc = "lookup" => requests'[o].key \in Cached'
      BY <1>1, <2>2, <2>4, <2>5 DEF ServingInv, LeasesAreCounted
    <3>2. \A j \in Cached' : views'[j].leases = Cardinality(Readers(j)')
      BY <2>3, <2>4, <2>5, <2>6, <2>7 DEF ServingInv, LeasesAreCounted
    <3> QED
      BY <3>1, <3>2 DEF LeasesAreCounted
  <2>9. ViewsMatchTheirKey'
    BY <1>1, <2>4 DEF ServingInv, ViewsMatchTheirKey
  <2>10. ShapeInv'
    BY <2>1, <2>4, <2>5 DEF ServingInv, ShapeInv, IsLoader, IsView
  <2>11. HandsInv' /\ ColdInv' /\ ViewsAreBounded'
    BY <2>1, <2>4 DEF ServingInv, HandsInv, ColdInv, ViewsAreBounded, Loading
  <2> QED
    BY <2>8, <2>9, <2>10, <2>11 DEF ServingInv
<1>2. CASE k \notin Cached
  <2>1. requests' = [requests EXCEPT ![r] = Free] /\ views' = views
    BY <1>2 DEF Lease
  <2>2. /\ DOMAIN requests' = Request /\ requests'[r].pc = "idle"
        /\ \A o \in Request \ {r} : requests'[o] = requests[o]
        /\ \A j : Readers(j)' = Readers(j)
    <3>1. Free.pc = "idle"
      BY DEF Free
    <3>2. \A j : Readers(j) \ {r} = Readers(j)
      BY DEF Readers
    <3>3. DOMAIN requests = Request
      BY DEF ServingInv, ShapeInv
    <3>4. /\ DOMAIN requests' = Request /\ requests'[r] = Free
          /\ \A o \in Request \ {r} : requests'[o] = requests[o]
      BY <2>1, <3>3
    <3>5. \A j : Readers(j)' = Readers(j)
      <4>1. ASSUME NEW j, NEW o PROVE o \in Readers(j)' <=> o \in Readers(j)
        BY <3>1, <3>2, <3>4 DEF Readers
      <4> QED BY <4>1
    <3> QED
      BY <3>1, <3>4, <3>5, Zenon
  <2>3. Cached' = Cached
    BY <2>1 DEF Cached
  <2>4. LeasesAreCounted' /\ ViewsMatchTheirKey'
    BY <2>1, <2>2, <2>3 DEF ServingInv, LeasesAreCounted, ViewsMatchTheirKey
  <2>5. /\ DOMAIN loaders' = Loader /\ \A m \in Loader : IsLoader(loaders'[m])
        /\ HandsInv' /\ ColdInv' /\ ViewsAreBounded'
    <3>1. CASE k # None /\ due /\ MayLoad(k)
      <4>1. PICK l \in Loader :
              /\ loaders[l].pc = "idle"
              /\ loaders' = [loaders EXCEPT ![l] = [Waiting EXCEPT !.pc = "check", !.key = k]]
              /\ pending' = pending \cup {k}
        BY <1>2, <3>1 DEF Lease
      <4>2. k \notin pending
        BY <3>1 DEF MayLoad
      <4> QED
        BY <1>2, <2>1, <3>1, <4>1, <4>2, Submitted
    <3>2. CASE ~(k # None /\ due /\ MayLoad(k))
      <4>1. UNCHANGED <<loaders, pending>>
        BY <1>2, <3>2 DEF Lease
      <4> QED
        BY <2>3, <4>1 DEF ServingInv, ShapeInv, HandsInv, ColdInv, ViewsAreBounded, Loading, IsLoader
    <3> QED
      BY <3>1, <3>2
  <2>6. ShapeInv'
    BY <2>1, <2>2, <2>3, <2>5 DEF ServingInv, ShapeInv, IsLoader, IsView
  <2> QED
    BY <2>4, <2>5, <2>6 DEF ServingInv
<1> QED
  BY <1>1, <1>2

LEMMA ReleaseStep ==
    ASSUME ServingInv, NEW r \in Request, Release(r) PROVE ServingInv'
<1> DEFINE k == requests[r].key
<1>1. /\ requests[r].pc = "lookup" /\ requests' = [requests EXCEPT ![r] = Free]
      /\ views' = [views EXCEPT ![k].leases = @ - 1] /\ UNCHANGED <<loaders, pending>>
  BY DEF Release
<1>2. k \in Cached /\ IsView(views[k]) /\ views[k].leases = Cardinality(Readers(k))
  BY <1>1 DEF ServingInv, ShapeInv, LeasesAreCounted
<1>3. /\ DOMAIN requests' = Request /\ requests'[r].pc = "idle"
      /\ \A o \in Request \ {r} : requests'[o] = requests[o]
      /\ \A j : Readers(j)' = Readers(j) \ {r}
  <2>1. Free.pc = "idle"
    BY DEF Free
  <2> QED
    BY <1>1, <2>1, ReadersMoved DEF ServingInv, ShapeInv
<1>4. r \in Readers(k) /\ \A j : j # k => r \notin Readers(j)
  BY <1>1 DEF Readers
<1> HIDE DEF k
<1>5. /\ Cardinality(Readers(k) \ {r}) = Cardinality(Readers(k)) - 1
      /\ Cardinality(Readers(k) \ {r}) \in Nat
  BY <1>4, ReadersAreFinite, FS_RemoveElement, FS_CardinalityType
<1>6. /\ Cached' = Cached
      /\ views'[k] = [opened |-> views[k].opened, leases |-> views[k].leases - 1,
                      place |-> views[k].place]
      /\ \A j \in Cached \ {k} : views'[j] = views[j]
  BY <1>1, <1>2 DEF Cached, IsView
<1>7. IsView(views'[k]) /\ views'[k].opened = views[k].opened
      /\ views'[k].leases = Cardinality(Readers(k) \ {r})
  BY <1>2, <1>5, <1>6 DEF IsView
<1>8. LeasesAreCounted'
  <2>1. \A o \in Request : requests'[o].pc = "lookup" => requests'[o].key \in Cached'
    BY <1>3, <1>6 DEF ServingInv, LeasesAreCounted
  <2>2. ASSUME NEW j \in Cached' PROVE views'[j].leases = Cardinality(Readers(j)')
    <3>1. CASE j = k
      BY <1>3, <1>7, <3>1
    <3>2. CASE j # k
      <4>1. Readers(j)' = Readers(j)
        BY <1>3, <1>4, <3>2
      <4> QED
        BY <1>6, <3>2, <4>1 DEF ServingInv, LeasesAreCounted
    <3> QED
      BY <3>1, <3>2
  <2> QED
    BY <2>1, <2>2 DEF LeasesAreCounted
<1>9. ViewsMatchTheirKey'
  BY <1>2, <1>6, <1>7 DEF ServingInv, ViewsMatchTheirKey
<1>10. ShapeInv'
  <2>1. \A j \in Cached' : IsView(views'[j])
    BY <1>6, <1>7 DEF ServingInv, ShapeInv
  <2> QED
    BY <1>1, <1>3, <1>6, <2>1 DEF ServingInv, ShapeInv, IsLoader, IsView
<1>11. HandsInv' /\ ColdInv' /\ ViewsAreBounded'
  BY <1>1, <1>6 DEF ServingInv, HandsInv, ColdInv, ViewsAreBounded, Loading
<1> QED
  BY <1>8, <1>9, <1>10, <1>11 DEF ServingInv

-----------------------------------------------------------------------------
(* Threads.                                                                 *)

\* A thread goes on, and nothing else happens.
LEMMA ThreadStep ==
    ASSUME ServingInv, NEW l \in Loader, NEW pc, NEW opened, Loading(loaders[l]),
           /\ DOMAIN loaders' = Loader
           /\ loaders'[l] = [pc |-> pc, key |-> loaders[l].key, opened |-> opened]
           /\ \A m \in Loader \ {l} : loaders'[m] = loaders[m],
           pc \in {"check", "prepare", "full", "again", "insert", "finally"},
           pc = "insert" => opened = loaders[l].key,
           UNCHANGED <<requests, views, pending>>
    PROVE  ServingInv'
<1>1. loaders[l].pc # "idle"
  BY DEF Loading
<1>2. /\ \A m \in Loader : IsLoader(loaders'[m]) /\ loaders'[m].key = loaders[m].key
      /\ HandsInv'
      /\ pending' = {loaders'[m].key : m \in Loader} \ {None}
  BY <1>1, ThreadMoved
<1>3. Cached' = Cached /\ \A k : Readers(k)' = Readers(k)
  BY DEF Cached, Readers
<1>4. ColdInv'
  <2> SUFFICES ASSUME NEW m \in Loader, Loading(loaders'[m]) PROVE loaders'[m].key \notin Cached
    BY <1>3 DEF ColdInv, Loading
  <2>1. Loading(loaders[m])
    BY DEF Loading
  <2> QED
    BY <1>2, <2>1 DEF ServingInv, ColdInv
<1>5. ShapeInv'
  BY <1>2, <1>3 DEF ServingInv, ShapeInv, IsLoader, IsView
<1>6. LeasesAreCounted' /\ ViewsMatchTheirKey' /\ ViewsAreBounded'
  BY <1>2, <1>3 DEF ServingInv, LeasesAreCounted, ViewsMatchTheirKey, ViewsAreBounded
<1> QED
  BY <1>2, <1>4, <1>5, <1>6 DEF ServingInv

LEMMA CheckStep ==
    ASSUME ServingInv, NEW l \in Loader, Check(l) PROVE ServingInv'
<1>1. PICK pc \in {"prepare", "finally"} : Step(l, pc, None)
  BY DEF Check
<1>2. Loading(loaders[l]) /\ UNCHANGED <<requests, views, pending>>
  BY DEF Check, Loading, cacheVars
<1>3. /\ DOMAIN loaders' = Loader
      /\ loaders'[l] = [pc |-> pc, key |-> loaders[l].key, opened |-> None]
      /\ \A m \in Loader \ {l} : loaders'[m] = loaders[m]
  BY <1>1, Stepped DEF ServingInv
<1> QED
  BY <1>2, <1>3, ThreadStep

LEMMA PrepareStep ==
    ASSUME ServingInv, NEW l \in Loader, Prepare(l) PROVE ServingInv'
<1> DEFINE k == loaders[l].key
<1>1. PICK pc \in {"full", "insert", "finally"}, opened \in {None, Manifest(k)} :
          Step(l, pc, opened) /\ (pc = "insert" => opened = Manifest(k) /\ opened # None)
  BY Zenon DEF Prepare
<1>2. Loading(loaders[l]) /\ UNCHANGED <<requests, views, pending>>
  BY DEF Prepare, Loading, cacheVars
<1>3. /\ DOMAIN loaders' = Loader
      /\ loaders'[l] = [pc |-> pc, key |-> loaders[l].key, opened |-> opened]
      /\ \A m \in Loader \ {l} : loaders'[m] = loaders[m]
  BY <1>1, Stepped DEF ServingInv
<1>4. pc = "insert" => opened = k
  BY <1>1 DEF Manifest
<1> QED
  BY <1>2, <1>3, <1>4, ThreadStep

LEMMA StorageFailureStep ==
    ASSUME ServingInv, NEW l \in Loader, StorageFailure(l) PROVE ServingInv'
<1>1. Step(l, "finally", None)
  BY DEF StorageFailure
<1>2. Loading(loaders[l]) /\ UNCHANGED <<requests, views, pending>>
  BY DEF StorageFailure, Loading, cacheVars
<1>3. /\ DOMAIN loaders' = Loader
      /\ loaders'[l] = [pc |-> "finally", key |-> loaders[l].key, opened |-> None]
      /\ \A m \in Loader \ {l} : loaders'[m] = loaders[m]
  BY <1>1, Stepped DEF ServingInv
<1> QED
  BY <1>2, <1>3, ThreadStep

LEMMA FinallyStep ==
    ASSUME ServingInv, NEW l \in Loader, Finally(l) PROVE ServingInv'
<1> DEFINE k == loaders[l].key
<1>1. /\ loaders[l].pc = "finally" /\ pending' = pending \ {k}
      /\ loaders' = [loaders EXCEPT ![l] = Waiting] /\ UNCHANGED <<requests, views>>
  BY DEF Finally, StillPending
<1>2. /\ DOMAIN loaders' = Loader
      /\ loaders'[l] = [pc |-> "idle", key |-> None, opened |-> None]
      /\ \A m \in Loader \ {l} : loaders'[m] = loaders[m]
  BY <1>1 DEF ServingInv, ShapeInv, Waiting
<1>3. loaders'[l].pc = "idle" /\ loaders'[l].key = None /\ IsLoader(loaders'[l])
  BY <1>2 DEF IsLoader
<1>4. Cached' = Cached /\ \A j : Readers(j)' = Readers(j)
  BY <1>1 DEF Cached, Readers
<1>5. HandsInv'
  <2>1. ASSUME NEW m \in Loader
        PROVE  /\ loaders'[m].pc = "idle" <=> loaders'[m].key = None
               /\ loaders'[m].pc = "idle" \/ loaders'[m].pc = "finally" \/ Loading(loaders'[m])
               /\ loaders'[m].pc = "insert" => loaders'[m].opened = loaders'[m].key
    BY <1>2, <1>3 DEF ServingInv, HandsInv
  <2>2. ASSUME NEW m \in Loader, NEW o \in Loader,
               loaders'[m].key = loaders'[o].key, loaders'[m].key # None
        PROVE  m = o
    BY <1>2, <1>3, <2>2 DEF ServingInv, HandsInv
  <2> QED
    BY <2>1, <2>2 DEF HandsInv, Loading
<1>6. ColdInv'
  BY <1>2, <1>3, <1>4 DEF ServingInv, ColdInv, Loading
<1>7. ViewsAreBounded'
  <2>1. k # None
    BY <1>1 DEF ServingInv, HandsInv
  <2>2. {loaders'[m].key : m \in Loader} \ {None} = pending \ {k}
    <3>1. pending = {loaders[m].key : m \in Loader} \ {None}
      BY DEF ServingInv, ViewsAreBounded
    <3>2. \A m \in Loader \ {l} : loaders[m].key = k => FALSE
      BY <2>1 DEF ServingInv, HandsInv
    <3> QED
      BY <1>2, <1>3, <3>1, <3>2
  <2> QED
    BY <1>1, <1>4, <2>2 DEF ServingInv, ViewsAreBounded
<1>8. ShapeInv'
  <2>1. \A m \in Loader : IsLoader(loaders'[m])
    BY <1>2, <1>3 DEF ServingInv, ShapeInv
  <2> QED
    BY <1>1, <1>2, <1>4, <2>1 DEF ServingInv, ShapeInv, IsView, IsLoader
<1>9. LeasesAreCounted' /\ ViewsMatchTheirKey'
  BY <1>1, <1>4 DEF ServingInv, LeasesAreCounted, ViewsMatchTheirKey
<1> QED
  BY <1>5, <1>6, <1>7, <1>8, <1>9 DEF ServingInv

LEMMA CloseIdleStep ==
    ASSUME ServingInv, NEW l \in Loader, CloseIdle(l) PROVE ServingInv'
<1>1. /\ loaders[l].pc = "full" /\ views' = Kept(InUse) /\ Step(l, "again", None)
      /\ UNCHANGED <<requests, pending>>
  BY DEF CloseIdle
<1>2. InUse \subseteq Cached
  BY DEF InUse
<1>3. /\ Cached' = InUse
      /\ \A k \in InUse : /\ IsView(views'[k])
                          /\ views'[k].opened = views[k].opened /\ views'[k].leases = views[k].leases
  <2>1. Cached' = DOMAIN views'
    BY DEF Cached
  <2> QED
    BY <1>1, <1>2, <2>1, KeptViews DEF ServingInv
<1>4. \A k : Readers(k)' = Readers(k)
  BY <1>1 DEF Readers
<1>5. loaders[l].pc # "idle" /\ Loading(loaders[l])
  BY <1>1 DEF Loading
<1>6. /\ DOMAIN loaders' = Loader
      /\ loaders'[l] = [pc |-> "again", key |-> loaders[l].key, opened |-> None]
      /\ \A m \in Loader \ {l} : loaders'[m] = loaders[m]
  BY <1>1, Stepped DEF ServingInv
<1>7. /\ \A m \in Loader : IsLoader(loaders'[m]) /\ loaders'[m].key = loaders[m].key
      /\ HandsInv'
      /\ pending' = {loaders'[m].key : m \in Loader} \ {None}
  BY <1>1, <1>5, <1>6, ThreadMoved
<1>8. ColdInv'
  <2> SUFFICES ASSUME NEW m \in Loader, Loading(loaders'[m]) PROVE loaders'[m].key \notin Cached'
    BY DEF ColdInv, Loading
  <2>1. Loading(loaders[m])
    BY <1>5, <1>6
  <2> QED
    BY <1>2, <1>3, <1>7, <2>1 DEF ServingInv, ColdInv
<1>9. IsFiniteSet(InUse) /\ Cardinality(InUse) <= MaxViews
  <2>1. IsFiniteSet(Cached) /\ Cardinality(Cached) <= MaxViews
    BY DEF ServingInv, ShapeInv, ViewsAreBounded
  <2>2. /\ IsFiniteSet(InUse) /\ Cardinality(InUse) <= Cardinality(Cached)
        /\ Cardinality(InUse) \in Nat /\ Cardinality(Cached) \in Nat
    BY <1>2, <2>1, FS_Subset, FS_CardinalityType
  <2> QED
    BY <2>1, <2>2, ServingAssumption
<1>10. ViewsAreBounded'
  BY <1>3, <1>7, <1>9 DEF ViewsAreBounded
<1>11. LeasesAreCounted'
  <2>1. ASSUME NEW r \in Request, requests[r].pc = "lookup" PROVE requests[r].key \in InUse
    <3>1. requests[r].key \in Cached
      BY <2>1 DEF ServingInv, LeasesAreCounted
    <3>2. views[requests[r].key].leases # 0
      BY <2>1, <3>1, NoReaders DEF ServingInv
    <3>3. views[requests[r].key].leases \in Nat
      BY <3>1 DEF ServingInv, ShapeInv, IsView
    <3> QED
      BY <3>1, <3>2, <3>3 DEF InUse
  <2> QED
    BY <1>1, <1>2, <1>3, <1>4, <2>1 DEF ServingInv, LeasesAreCounted
<1>12. ViewsMatchTheirKey'
  BY <1>2, <1>3 DEF ServingInv, ViewsMatchTheirKey
<1>13. ShapeInv'
  BY <1>1, <1>3, <1>6, <1>7, <1>9 DEF ServingInv, ShapeInv, IsLoader, IsView
<1> QED
  BY <1>7, <1>8, <1>10, <1>11, <1>12, <1>13 DEF ServingInv

\* A set of views has one that was used before all others.
Below == {p \in Nat \X Nat : p[1] < p[2]}

LEMMA BelowWellFounded == IsWellFoundedOn(Below, Nat)
  BY NatLessThanWellFounded, Zenon DEF OpToRel, Below

LEMMA OldestExists ==
    ASSUME ShapeInv, NEW keys, keys \subseteq Cached, keys # {}
    PROVE  \E k \in keys : \A j \in keys : views[k].place <= views[j].place
<1> DEFINE places == {views[k].place : k \in keys}
<1>1. \A k \in keys : views[k].place \in Nat
  BY DEF ShapeInv, IsView
<1>2. places \in SUBSET Nat /\ places # {}
  BY <1>1
<1>3. PICK p \in places : \A q \in places : ~(<<q, p>> \in Below)
  <2> HIDE DEF places
  <2> QED
    BY <1>2, BelowWellFounded, WFMin, Zenon
<1>4. PICK k \in keys : p = views[k].place
  OBVIOUS
<1>5. ASSUME NEW j \in keys PROVE views[k].place <= views[j].place
  <2>1. views[j].place \in places /\ views[j].place \in Nat /\ views[k].place \in Nat
    BY <1>1
  <2>2. ~(views[j].place < views[k].place)
    BY <1>3, <1>4, <2>1 DEF Below
  <2> QED
    BY <2>1, <2>2
<1> QED
  BY <1>5

LEMMA InsertStep ==
    ASSUME ServingInv, NEW l \in Loader, Insert(l) PROVE ServingInv'
<1> DEFINE k == loaders[l].key
           oldest == CHOOSE o \in Victims : \A j \in Victims : views[o].place <= views[j].place
           left == IF Crowded THEN Cached \ {oldest} ELSE Cached
<1>1. loaders[l].pc = "insert" /\ UNCHANGED <<requests, pending>>
  BY DEF Insert
<1>2. k # None /\ loaders[l].opened = k /\ k \notin Cached /\ Loading(loaders[l])
  BY <1>1 DEF ServingInv, HandsInv, ColdInv, Loading
<1>3. CASE Crowded /\ Victims = {}
  <2>1. loaders' = [loaders EXCEPT ![l].pc = "finally"] /\ UNCHANGED views
    BY <1>3 DEF Insert
  <2>2. /\ DOMAIN loaders' = Loader
        /\ loaders'[l] = [pc |-> "finally", key |-> k, opened |-> loaders[l].opened]
        /\ \A m \in Loader \ {l} : loaders'[m] = loaders[m]
    BY <2>1 DEF ServingInv, ShapeInv, IsLoader
  <2> QED
    BY <1>1, <1>2, <2>1, <2>2, ThreadStep
<1>4. CASE ~(Crowded /\ Victims = {})
  <2>1. views' = WithLast(left, k, k, 0) /\ Step(l, "finally", None)
    BY <1>2, <1>4 DEF Insert
  <2>2. Victims \subseteq Cached /\ \A o \in Victims : views[o].leases = 0
    BY DEF Victims
  <2>3. Crowded => oldest \in Victims
    <3>1. ASSUME Crowded
          PROVE  \E o \in Victims : \A j \in Victims : views[o].place <= views[j].place
      BY <1>4, <2>2, <3>1, OldestExists DEF ServingInv
    <3> QED
      BY <3>1
  <2>4. /\ left \subseteq Cached /\ k \notin left
        /\ \A o \in Cached \ left : views[o].leases = 0
    BY <1>2, <2>2, <2>3
  <2>5. IsFiniteSet(left) /\ Cardinality(left \cup {k}) <= MaxViews /\ IsFiniteSet(left \cup {k})
    <3>1. IsFiniteSet(Cached) /\ Cardinality(Cached) \in Nat /\ Cardinality(Cached) <= MaxViews
      BY FS_CardinalityType DEF ServingInv, ShapeInv, ViewsAreBounded
    <3>2. IsFiniteSet(left) /\ Cardinality(left) \in Nat
      BY <2>4, <3>1, FS_Subset, FS_CardinalityType
    <3>3. Cardinality(left) < MaxViews
      <4>1. CASE Crowded
        <5>1. oldest \in Cached
          BY <2>2, <2>3, <4>1
        <5>2. Cardinality(Cached \ {oldest}) = Cardinality(Cached) - 1
          BY <3>1, <5>1, FS_RemoveElement
        <5> QED
          BY <3>1, <4>1, <5>2, ServingAssumption
      <4>2. CASE ~Crowded
        BY <3>1, <4>2, ServingAssumption DEF Crowded
      <4> QED
        BY <4>1, <4>2
    <3>4. Cardinality(left \cup {k}) = Cardinality(left) + 1 /\ IsFiniteSet(left \cup {k})
      BY <2>4, <3>2, FS_AddElement
    <3> QED
      BY <3>2, <3>3, <3>4, ServingAssumption
  <2> HIDE DEF left
  <2>6. IsWithLast(views', left, k, k, 0)
    <3>1. 0 \in Nat /\ ShapeInv
      BY DEF ServingInv
    <3> QED
      BY <2>1, <2>4, <3>1, WithLastViews, Zenon
  <2>7. /\ Cached' = left \cup {k}
        /\ IsView(views'[k]) /\ views'[k].opened = k /\ views'[k].leases = 0
        /\ \A j \in left : /\ IsView(views'[j])
                           /\ views'[j].opened = views[j].opened /\ views'[j].leases = views[j].leases
    BY <2>4, <2>6 DEF IsWithLast, Cached
  <2>8. /\ DOMAIN loaders' = Loader
        /\ loaders'[l] = [pc |-> "finally", key |-> k, opened |-> None]
        /\ \A m \in Loader \ {l} : loaders'[m] = loaders[m]
    BY <2>1, Stepped DEF ServingInv
  <2>9. /\ \A m \in Loader : IsLoader(loaders'[m]) /\ loaders'[m].key = loaders[m].key
        /\ HandsInv'
        /\ pending' = {loaders'[m].key : m \in Loader} \ {None}
    BY <1>1, <2>8, ThreadMoved
  <2>10. \A j : Readers(j)' = Readers(j)
    BY <1>1 DEF Readers
  <2>11. \A r \in Request : requests[r].pc = "lookup" => requests[r].key \in left
    BY <2>4, NoReaders DEF ServingInv, LeasesAreCounted
  <2>12. Readers(k) = {}
    BY <1>2 DEF ServingInv, LeasesAreCounted, Readers
  <2>13. LeasesAreCounted'
    <3>1. \A r \in Request : requests'[r].pc = "lookup" => requests'[r].key \in Cached'
      BY <1>1, <2>7, <2>11
    <3>2. Cardinality(Readers(k)) = 0
      BY <2>12, FS_EmptySet
    <3>3. views'[k].leases = Cardinality(Readers(k))
      BY <2>7, <3>2
    <3>4. \A j \in left : views'[j].leases = Cardinality(Readers(j))
      BY <2>4, <2>7 DEF ServingInv, LeasesAreCounted
    <3>5. \A j \in Cached' : views'[j].leases = Cardinality(Readers(j))
      BY <2>7, <3>3, <3>4
    <3>6. \A j \in Cached' : views'[j].leases = Cardinality(Readers(j)')
      BY <2>10, <3>5
    <3> QED
      BY <3>1, <3>6 DEF LeasesAreCounted
  <2>14. ViewsMatchTheirKey'
    BY <2>4, <2>7 DEF ServingInv, ViewsMatchTheirKey
  <2>15. ColdInv'
    <3> SUFFICES ASSUME NEW m \in Loader, Loading(loaders'[m]) PROVE loaders'[m].key \notin Cached'
      BY DEF ColdInv, Loading
    <3>1. m # l
      BY <2>8 DEF Loading
    <3>2. Loading(loaders[m]) /\ loaders'[m].key = loaders[m].key /\ loaders[m].key # k
      BY <1>2, <2>8, <3>1 DEF ServingInv, HandsInv
    <3> QED
      BY <2>4, <2>7, <3>2 DEF ServingInv, ColdInv
  <2>16. ViewsAreBounded'
    BY <2>5, <2>7, <2>9 DEF ViewsAreBounded
  <2>17. ShapeInv'
    <3>1. \A j \in Cached' : IsView(views'[j])
      BY <2>7
    <3> QED
      BY <1>1, <2>5, <2>7, <2>8, <2>9, <3>1 DEF ServingInv, ShapeInv, IsLoader, IsView
  <2> QED
    BY <2>9, <2>13, <2>14, <2>15, <2>16, <2>17 DEF ServingInv
<1> QED
  BY <1>3, <1>4

-----------------------------------------------------------------------------

\* The invariant holds in every reachable state.
THEOREM ServingInvariant == Spec => []ServingInv
<1>1. Init => ServingInv
  <2> SUFFICES ASSUME Init PROVE ServingInv
    OBVIOUS
  <2>1. /\ requests = [r \in Request |-> Free] /\ loaders = [l \in Loader |-> Waiting]
        /\ Cached = {} /\ pending = {}
    BY DEF Init, Cached
  <2>2. /\ \A r \in Request : requests[r].pc = "idle"
        /\ \A l \in Loader : loaders[l] = Waiting
    BY <2>1 DEF Free
  <2>3. Waiting.pc = "idle" /\ Waiting.key = None /\ IsLoader(Waiting)
    BY DEF Waiting, IsLoader
  <2>4. ShapeInv
    BY <2>1, <2>2, <2>3, FS_EmptySet DEF ShapeInv
  <2>5. HandsInv /\ ColdInv
    BY <2>1, <2>2, <2>3 DEF HandsInv, ColdInv, Loading
  <2>6. LeasesAreCounted /\ ViewsMatchTheirKey
    BY <2>1, <2>2 DEF LeasesAreCounted, ViewsMatchTheirKey
  <2>7. ViewsAreBounded
    <3>1. {loaders[l].key : l \in Loader} \ {None} = {}
      BY <2>2, <2>3
    <3>2. Cardinality(Cached) = 0 /\ 0 <= MaxViews
      BY <2>1, FS_EmptySet, ServingAssumption
    <3> QED
      BY <2>1, <3>1, <3>2 DEF ViewsAreBounded
  <2> QED
    BY <2>4, <2>5, <2>6, <2>7 DEF ServingInv
<1>2. ServingInv /\ [Next]_vars => ServingInv'
  <2> SUFFICES ASSUME ServingInv, [Next]_vars PROVE ServingInv'
    OBVIOUS
  <2>1. CASE \/ \E d \in Digest : Modify(d)
             \/ \E v \in Version, d \in Digest : Rebuild(v, d)
             \/ \E v \in Version : DeleteVersion(v)
             \/ SetLabel
    <3>1. UNCHANGED <<requests, views, pending, loaders>>
      BY <2>1 DEF Modify, Rebuild, DeleteVersion, SetLabel, Changed, cacheVars
    <3> QED
      BY <3>1, FrameStep
  <2>2. ASSUME NEW r \in Request, NEW d \in demand, Query(r, d) PROVE ServingInv'
    BY <2>2, QueryStep
  <2>3. ASSUME NEW r \in Request, NEW d \in demand, NEW due \in BOOLEAN, Hit(r, d, due)
        PROVE  ServingInv'
    <3>1. requests[r].pc # "lookup" /\ Lease(r, descriptors[d], due)
      BY <2>3 DEF Hit
    <3> QED
      BY <3>1, LeaseStep
  <2>4. ASSUME NEW r \in Request, Release(r) PROVE ServingInv'
    BY <2>4, ReleaseStep
  <2>5. ASSUME NEW r \in Request, NEW due \in BOOLEAN, Store(r, due) PROVE ServingInv'
    <3>1. requests[r].pc # "lookup" /\ Lease(r, requests[r].key, due)
      BY <2>5 DEF Store
    <3> QED
      BY <3>1, LeaseStep
  <2>6. ASSUME NEW l \in Loader, LoaderStep(l) \/ StorageFailure(l) PROVE ServingInv'
    BY <2>6, CheckStep, PrepareStep, CloseIdleStep, InsertStep, FinallyStep, StorageFailureStep
       DEF LoaderStep
  <2>7. CASE UNCHANGED vars
    BY <2>7, FrameStep DEF vars, cacheVars
  <2> QED
    BY <2>1, <2>2, <2>3, <2>4, <2>5, <2>6, <2>7 DEF Next
<1> QED
  BY <1>1, <1>2, PTL DEF Spec

\* cache.py: "Leases prevent eviction during lookup", for any number of requests,
\* threads and views.
THEOREM LeasesAreAlwaysCounted == Spec => []LeasesAreCounted
<1>1. ServingInv => LeasesAreCounted
  BY DEF ServingInv
<1> QED
  BY <1>1, ServingInvariant, PTL

\* A view was opened from the manifest that its key names, whatever happened to the
\* version between the request and the load.
THEOREM ViewsAlwaysMatch == Spec => []ViewsMatchTheirKey
<1>1. ServingInv => ViewsMatchTheirKey
  BY DEF ServingInv
<1> QED
  BY <1>1, ServingInvariant, PTL

\* There are never more views than the setting allows, and a pending key is in the
\* hands of a thread.
THEOREM ViewsAreAlwaysBounded == Spec => []ViewsAreBounded
<1>1. ServingInv => ViewsAreBounded
  BY DEF ServingInv
<1> QED
  BY <1>1, ServingInvariant, PTL

=============================================================================
