------------------------- MODULE GeminiClientPool_proofs -------------------------
(***************************************************************************)
(* Proofs about GeminiClientPool, for any threads, keys and cache size.    *)
(***************************************************************************)
EXTENDS GeminiClientPool, FiniteSetTheorems, TLAPS

Holders(e) == {t \in Threads : lease[t] = e}

(* The counter of an entry is the number of threads that lease it. *)
LeasesExact == \A e \in Clients : leases[e] = Cardinality(Holders(e))

(* What a thread holds at each point of its call. *)
ThreadLife ==
  \A t \in Threads :
    /\ pc[t] \in {"idle", "building", "built"} => lease[t] = None /\ doomed[t] = {}
    /\ pc[t] = "using" => lease[t] # None /\ doomed[t] = {}
    /\ pc[t] \in {"building", "built"} => key[t] \in Keys
    /\ pc[t] = "built" <=> built[t] # None

(* Every open client is in exactly one hand: cached or retired and leased, *)
(* just built, or about to be closed by one thread.                        *)
OneHand ==
  /\ \A j, k \in Cached : cache[j] = cache[k] => j = k
  /\ \A k \in Cached : cache[k] \in made \ (closed \union retired)
  /\ retired \subseteq made /\ closed \subseteq made
  /\ \A t \in Threads : lease[t] # None =>
       /\ lease[t] \in made \ closed
       /\ lease[t] \in CachedClients \union retired
  /\ \A t \in Threads : built[t] # None =>
       /\ built[t] \in made \ (closed \union retired \union CachedClients)
       /\ \A u \in Threads : built[t] # lease[u] /\ (u # t => built[t] # built[u])
  /\ \A t, u \in Threads :
       /\ doomed[t] \subseteq made \ (closed \union CachedClients)
       /\ lease[u] \notin doomed[t] /\ built[u] \notin doomed[t]
       /\ t # u => doomed[t] \intersect doomed[u] = {}

IInv == TypeOK /\ LeasesExact /\ ThreadLife /\ OneHand /\ NoClientLeaks

-----------------------------------------------------------------------------
(* The counter tells whether an entry is leased, and by more than one. *)
LEMMA CountTells ==
  ASSUME TypeOK, LeasesExact, NEW e \in Clients
  PROVE  /\ leases[e] = 0 <=> \A t \in Threads : lease[t] # e
         /\ \A t \in Threads : lease[t] = e =>
              (leases[e] = 1 <=> \A u \in Threads : lease[u] = e => u = t)
<1>1. IsFiniteSet(Holders(e)) /\ Cardinality(Holders(e)) \in Nat /\ leases[e] = Cardinality(Holders(e))
  BY FiniteSets, FS_Subset, FS_CardinalityType DEF Holders, LeasesExact
<1>2. leases[e] = 0 <=> Holders(e) = {}
  BY <1>1, FS_EmptySet
<1>3. ASSUME NEW t \in Threads, lease[t] = e
      PROVE  leases[e] = 1 <=> \A u \in Threads : lease[u] = e => u = t
  <2>1. t \in Holders(e)
    BY <1>3 DEF Holders
  <2>2. /\ IsFiniteSet(Holders(e) \ {t})
        /\ Cardinality(Holders(e) \ {t}) = Cardinality(Holders(e)) - 1
    BY <1>1, <2>1, FS_RemoveElement
  <2>3. Cardinality(Holders(e) \ {t}) = 0 <=> Holders(e) \ {t} = {}
    BY <2>2, FS_EmptySet
  <2>4. Holders(e) \ {t} = {} <=> \A u \in Threads : lease[u] = e => u = t
    BY DEF Holders
  <2>5. QED  BY <1>1, <2>2, <2>3, <2>4
<1>4. QED  BY <1>2, <1>3 DEF Holders

(* t, which leases nothing, leases e. *)
LEMMA Gain ==
  ASSUME TypeOK, LeasesExact, NEW t \in Threads, NEW e \in Clients, lease[t] = None,
         lease' = [lease EXCEPT ![t] = e], leases' = [leases EXCEPT ![e] = @ + 1]
  PROVE  LeasesExact' /\ leases' \in [Clients -> Nat]
<1>1. ASSUME NEW x \in Clients
      PROVE  leases'[x] = Cardinality(Holders(x)')
  <2>1. IsFiniteSet(Holders(x)) /\ Cardinality(Holders(x)) \in Nat /\ leases[x] = Cardinality(Holders(x))
    BY FiniteSets, FS_Subset, FS_CardinalityType DEF Holders, LeasesExact
  <2>2. CASE x = e
    <3>1. Holders(x)' = Holders(x) \union {t} /\ t \notin Holders(x)
      BY <2>2, NoneIsNothing DEF Holders, TypeOK
    <3>2. Cardinality(Holders(x) \union {t}) = Cardinality(Holders(x)) + 1
      BY <2>1, <3>1, FS_AddElement
    <3>3. QED  BY <2>1, <2>2, <3>1, <3>2 DEF TypeOK
  <2>3. CASE x # e
    <3>1. Holders(x)' = Holders(x)
      BY <2>3, NoneIsNothing DEF Holders, TypeOK
    <3>2. QED  BY <2>1, <2>3, <3>1 DEF TypeOK
  <2>4. QED  BY <2>2, <2>3
<1>2. QED  BY <1>1 DEF LeasesExact, TypeOK

(* t gives its lease of e back. *)
LEMMA Loss ==
  ASSUME TypeOK, LeasesExact, NEW t \in Threads, NEW e \in Clients, lease[t] = e,
         lease' = [lease EXCEPT ![t] = None], leases' = [leases EXCEPT ![e] = @ - 1]
  PROVE  LeasesExact' /\ leases' \in [Clients -> Nat]
<1>1. ASSUME NEW x \in Clients
      PROVE  leases'[x] = Cardinality(Holders(x)') /\ leases'[x] \in Nat
  <2>1. IsFiniteSet(Holders(x)) /\ Cardinality(Holders(x)) \in Nat /\ leases[x] = Cardinality(Holders(x))
    BY FiniteSets, FS_Subset, FS_CardinalityType DEF Holders, LeasesExact
  <2>2. CASE x = e
    <3>1. Holders(x)' = Holders(x) \ {t} /\ t \in Holders(x)
      BY <2>2, NoneIsNothing DEF Holders, TypeOK
    <3>2. /\ Cardinality(Holders(x) \ {t}) = Cardinality(Holders(x)) - 1
          /\ IsFiniteSet(Holders(x) \ {t})
      BY <2>1, <3>1, FS_RemoveElement
    <3>3. Cardinality(Holders(x) \ {t}) \in Nat
      BY <3>2, FS_CardinalityType
    <3>4. QED  BY <2>1, <2>2, <3>1, <3>2, <3>3 DEF TypeOK
  <2>3. CASE x # e
    <3>1. Holders(x)' = Holders(x)
      BY <2>3, NoneIsNothing DEF Holders, TypeOK
    <3>2. QED  BY <2>1, <2>3, <3>1 DEF TypeOK
  <2>4. QED  BY <2>2, <2>3
<1>2. QED  BY <1>1 DEF LeasesExact, TypeOK

LEMMA Initially == Init => IInv
<1> SUFFICES ASSUME Init PROVE IInv
  OBVIOUS
<1>1. ASSUME NEW e \in Clients
      PROVE  leases[e] = Cardinality(Holders(e))
  <2>1. Holders(e) = {} /\ leases[e] = 0
    BY NoneIsNothing DEF Init, Holders
  <2>2. QED  BY <2>1, FS_EmptySet
<1>2. TypeOK /\ ThreadLife /\ OneHand /\ NoClientLeaks
  BY NoneIsNothing DEF Init, TypeOK, ThreadLife, OneHand, NoClientLeaks, Cached, CachedClients
<1>3. QED  BY <1>1, <1>2 DEF IInv, LeasesExact
-----------------------------------------------------------------------------
(* Every step keeps the invariant. *)

LEMMA LookupStep ==
  ASSUME IInv, NEW t \in Threads, NEW k \in Keys, Lookup(t, k)
  PROVE  IInv'
<1> USE NoneIsNothing
<1>0. TypeOK /\ LeasesExact /\ ThreadLife /\ OneHand /\ NoClientLeaks
  BY DEF IInv
<1>1. CASE k \in Cached
  <2>1. /\ pc[t] = "idle" /\ pc' = [pc EXCEPT ![t] = "using"]
        /\ lease' = [lease EXCEPT ![t] = cache[k]]
        /\ leases' = [leases EXCEPT ![cache[k]] = @ + 1]
        /\ older' = [j \in Keys |-> IF j = k THEN Cached \ {k} ELSE older[j] \ {k}]
        /\ UNCHANGED <<cache, key, retired, built, doomed, made, closed>>
    BY <1>1 DEF Lookup, MostRecent
  <2>2. cache[k] \in Clients /\ k \in Keys /\ cache[k] # None
    BY <1>0, <1>1 DEF TypeOK, Cached
  <2>3. lease[t] = None /\ doomed[t] = {} /\ built[t] = None
    BY <1>0, <2>1 DEF ThreadLife
  <2>4. LeasesExact' /\ leases' \in [Clients -> Nat]
    BY <1>0, <2>1, <2>2, <2>3, Gain
  <2>5. TypeOK'
    <3>1. older' \in [Keys -> SUBSET Keys]
      BY <1>0, <2>1 DEF TypeOK, Cached
    <3>2. QED  BY <1>0, <2>1, <2>2, <2>4, <3>1 DEF TypeOK
  <2>6. ThreadLife'
    BY <1>0, <2>1, <2>2, <2>3 DEF TypeOK, ThreadLife
  <2>7. OneHand'
    BY <1>0, <1>1, <2>1, <2>2, <2>3 DEF TypeOK, OneHand, Cached, CachedClients
  <2>8. NoClientLeaks'
    BY <1>0, <2>1, <2>2, <2>3 DEF TypeOK, NoClientLeaks, Cached, CachedClients
  <2>9. QED  BY <2>4, <2>5, <2>6, <2>7, <2>8 DEF IInv
<1>2. CASE k \notin Cached
  <2>1. /\ pc[t] = "idle" /\ pc' = [pc EXCEPT ![t] = "building"]
        /\ key' = [key EXCEPT ![t] = k]
        /\ UNCHANGED <<cache, older, leases, retired, built, lease, doomed, made, closed>>
    BY <1>2 DEF Lookup
  <2>2. LeasesExact'
    BY <1>0, <2>1 DEF LeasesExact, Holders
  <2>3. TypeOK'
    BY <1>0, <2>1 DEF TypeOK
  <2>4. ThreadLife'
    BY <1>0, <2>1 DEF TypeOK, ThreadLife
  <2>5. OneHand'
    BY <1>0, <2>1 DEF OneHand, Cached, CachedClients
  <2>6. NoClientLeaks'
    BY <1>0, <2>1 DEF NoClientLeaks, Cached, CachedClients
  <2>7. QED  BY <2>2, <2>3, <2>4, <2>5, <2>6 DEF IInv
<1>3. QED  BY <1>1, <1>2

LEMMA BuildStep ==
  ASSUME IInv, NEW t \in Threads, Build(t)
  PROVE  IInv'
<1> USE NoneIsNothing DEF TypeOK, ThreadLife, OneHand, NoClientLeaks, Cached, CachedClients, Goto, Then, MostRecent, FoundOther, Build
<1>0. TypeOK /\ LeasesExact /\ ThreadLife /\ OneHand /\ NoClientLeaks
  BY DEF IInv
<1>1. LeasesExact' /\ leases' \in [Clients -> Nat]
  BY <1>0 DEF LeasesExact, Holders
<1>2. TypeOK'
  BY <1>0, <1>1
<1>3. ThreadLife'
  BY <1>0
<1>4. OneHand'
  BY <1>0
<1>5. NoClientLeaks'
  BY <1>0
<1>6. QED  BY <1>1, <1>2, <1>3, <1>4, <1>5 DEF IInv

LEMMA BuildFailsStep ==
  ASSUME IInv, NEW t \in Threads, BuildFails(t)
  PROVE  IInv'
<1> USE NoneIsNothing DEF TypeOK, ThreadLife, OneHand, NoClientLeaks, Cached, CachedClients, Goto, Then, MostRecent, FoundOther, BuildFails
<1>0. TypeOK /\ LeasesExact /\ ThreadLife /\ OneHand /\ NoClientLeaks
  BY DEF IInv
<1>1. LeasesExact' /\ leases' \in [Clients -> Nat]
  BY <1>0 DEF LeasesExact, Holders
<1>2. TypeOK'
  BY <1>0, <1>1
<1>3. ThreadLife'
  BY <1>0
<1>4. OneHand'
  BY <1>0
<1>5. NoClientLeaks'
  BY <1>0
<1>6. QED  BY <1>1, <1>2, <1>3, <1>4, <1>5 DEF IInv

LEMMA CloseOneStep ==
  ASSUME IInv, NEW t \in Threads, CloseOne(t)
  PROVE  IInv'
<1> USE NoneIsNothing DEF TypeOK, ThreadLife, OneHand, NoClientLeaks, Cached, CachedClients, Goto, Then, MostRecent, FoundOther, CloseOne
<1>0. TypeOK /\ LeasesExact /\ ThreadLife /\ OneHand /\ NoClientLeaks
  BY DEF IInv
<1>1. LeasesExact' /\ leases' \in [Clients -> Nat]
  BY <1>0 DEF LeasesExact, Holders
<1>2. TypeOK'
  BY <1>0, <1>1
<1>3. ThreadLife'
  BY <1>0
<1>4. OneHand'
  BY <1>0
<1>5. NoClientLeaks'
  BY <1>0
<1>6. QED  BY <1>1, <1>2, <1>3, <1>4, <1>5 DEF IInv

LEMMA AllClosedStep ==
  ASSUME IInv, NEW t \in Threads, AllClosed(t)
  PROVE  IInv'
<1> USE NoneIsNothing DEF TypeOK, ThreadLife, OneHand, NoClientLeaks, Cached, CachedClients, Goto, Then, MostRecent, FoundOther, AllClosed
<1>0. TypeOK /\ LeasesExact /\ ThreadLife /\ OneHand /\ NoClientLeaks
  BY DEF IInv
<1>1. LeasesExact' /\ leases' \in [Clients -> Nat]
  BY <1>0 DEF LeasesExact, Holders
<1>2. TypeOK'
  BY <1>0, <1>1
<1>3. ThreadLife'
  BY <1>0
<1>4. OneHand'
  BY <1>0
<1>5. NoClientLeaks'
  BY <1>0
<1>6. QED  BY <1>1, <1>2, <1>3, <1>4, <1>5 DEF IInv

LEMMA UseOtherStep ==
  ASSUME IInv, NEW t \in Threads, UseOther(t)
  PROVE  IInv'
<1> USE NoneIsNothing DEF TypeOK, ThreadLife, OneHand, NoClientLeaks, Cached, CachedClients, Goto, Then, MostRecent, FoundOther, UseOther
<1>0. TypeOK /\ LeasesExact /\ ThreadLife /\ OneHand /\ NoClientLeaks
  BY DEF IInv
<1>1. LeasesExact' /\ leases' \in [Clients -> Nat]
  <2>1. lease[t] = None /\ cache[key[t]] \in Clients
    BY <1>0
  <2>2. QED  BY <1>0, <2>1, Gain
<1>2. TypeOK'
  BY <1>0, <1>1
<1>3. ThreadLife'
  BY <1>0
<1>4. OneHand'
  BY <1>0
<1>5. NoClientLeaks'
  BY <1>0
<1>6. QED  BY <1>1, <1>2, <1>3, <1>4, <1>5 DEF IInv

LEMMA InsertStep ==
  ASSUME IInv, NEW t \in Threads, Insert(t)
  PROVE  IInv'
<1> USE NoneIsNothing
<1> DEFINE e == built[t]
           out == {cache[k] : k \in Evicted(t)}
<1>0. TypeOK /\ LeasesExact /\ ThreadLife /\ OneHand /\ NoClientLeaks
  BY DEF IInv
<1>1. /\ pc[t] = "built" /\ pc' = [pc EXCEPT ![t] = "closing"]
      /\ cache' = [k \in Keys |-> IF k = key[t] THEN e ELSE IF k \in Evicted(t) THEN None ELSE cache[k]]
      /\ older' = [j \in Keys |-> IF j = key[t] THEN Cached \ {key[t]} ELSE older[j] \ {key[t]}]
      /\ retired' = retired \union out
      /\ doomed' = [doomed EXCEPT ![t] = {x \in out : leases[x] = 0}]
      /\ built' = [built EXCEPT ![t] = None]
      /\ lease' = [lease EXCEPT ![t] = e] /\ leases' = [leases EXCEPT ![e] = @ + 1]
      /\ key' = [key EXCEPT ![t] = None] /\ made' = made /\ closed' = closed
  BY DEF Insert, Goto, MostRecent
<1>2. key[t] \in Keys \ Cached /\ lease[t] = None /\ doomed[t] = {} /\ e \in Clients
  BY <1>0, <1>1 DEF TypeOK, ThreadLife, Insert, FoundOther
<1>3. LeasesExact' /\ leases' \in [Clients -> Nat]
  BY <1>0, <1>1, <1>2, Gain
<1>4. Evicted(t) \subseteq Cached /\ out \subseteq CachedClients /\ out \subseteq Clients
  <2>1. Evicted(t) \subseteq Cached
    BY DEF Evicted
  <2>2. \A k \in Cached : cache[k] \in Clients
    BY <1>0 DEF Cached, TypeOK
  <2>3. QED  BY <2>1, <2>2 DEF CachedClients
<1>5. \A x \in Clients : leases[x] = 0 <=> \A u \in Threads : lease[u] # x
  BY <1>0, CountTells
<1>6. /\ \A k \in Keys : cache'[k] = IF k = key[t] THEN e ELSE IF k \in Evicted(t) THEN None ELSE cache[k]
      /\ Cached' = (Cached \ Evicted(t)) \union {key[t]}
      /\ CachedClients' = (CachedClients \ out) \union {e}
  <2>1. \A k \in Keys : cache'[k] = IF k = key[t] THEN e ELSE IF k \in Evicted(t) THEN None ELSE cache[k]
    BY <1>1
  <2>2. Cached' = (Cached \ Evicted(t)) \union {key[t]}
    BY <1>2, <2>1 DEF Cached
  <2>3. \A k \in Cached \ Evicted(t) : cache'[k] = cache[k]
    BY <1>2, <2>1 DEF Cached
  <2>4. cache'[key[t]] = e
    BY <1>2, <2>1
  <2>5. CachedClients' = {cache[k] : k \in Cached \ Evicted(t)} \union {e}
    BY <2>2, <2>3, <2>4 DEF CachedClients
  <2>6. {cache[k] : k \in Cached \ Evicted(t)} = CachedClients \ out
    BY <1>0, <1>4 DEF OneHand, CachedClients
  <2>7. QED  BY <2>1, <2>2, <2>5, <2>6
<1> HIDE DEF e, out
<1>7. TypeOK'
  <2>1. cache' \in [Keys -> Clients \union {None}] /\ older' \in [Keys -> SUBSET Keys]
    BY <1>0, <1>1, <1>2 DEF TypeOK, Cached
  <2>2. QED  BY <1>0, <1>1, <1>2, <1>3, <1>4, <2>1 DEF TypeOK
<1>8. ThreadLife'
  BY <1>0, <1>1, <1>2 DEF ThreadLife, TypeOK
<1>9. /\ e = built[t] /\ e \in made \ (closed \union retired \union CachedClients)
      /\ \A u \in Threads : e # lease[u] /\ (u # t => e # built[u]) /\ e \notin doomed[u]
      /\ out \subseteq made \ closed /\ out \subseteq CachedClients
      /\ e \notin out
  BY <1>0, <1>2, <1>4 DEF OneHand, CachedClients, e
<1>10. OneHand'
  <2>1. /\ \A j, k \in Cached' : cache'[j] = cache'[k] => j = k
        /\ \A k \in Cached' : cache'[k] \in made' \ (closed' \union retired')
    <3>1. \A k \in Cached' : (k = key[t] /\ cache'[k] = e)
                              \/ (k # key[t] /\ k \in Cached \ Evicted(t) /\ cache'[k] = cache[k])
      BY <1>2, <1>6 DEF Cached
    <3>2. \A k \in Cached \ Evicted(t) : cache[k] # e /\ cache[k] \notin out
      BY <1>0, <1>4, <1>9 DEF OneHand, CachedClients, out
    <3>3. \A j, k \in Cached' : cache'[j] = cache'[k] => j = k
      BY <1>0, <3>1, <3>2 DEF OneHand
    <3>4. \A k \in Cached \ Evicted(t) : cache[k] \in made \ (closed \union retired')
      BY <1>0, <1>1, <3>2 DEF OneHand
    <3>5. e \in made \ (closed \union retired')
      BY <1>1, <1>9
    <3>6. QED  BY <1>1, <3>1, <3>3, <3>4, <3>5
  <2>2. retired' \subseteq made' /\ closed' \subseteq made'
    BY <1>0, <1>1, <1>9 DEF OneHand
  <2>3. \A u \in Threads : lease'[u] # None =>
          lease'[u] \in made' \ closed' /\ lease'[u] \in CachedClients' \union retired'
    BY <1>0, <1>1, <1>2, <1>6, <1>9 DEF OneHand, TypeOK
  <2>4. \A u \in Threads : built'[u] # None =>
          /\ built'[u] \in made' \ (closed' \union retired' \union CachedClients')
          /\ \A v \in Threads : built'[u] # lease'[v] /\ (v # u => built'[u] # built'[v])
    BY <1>0, <1>1, <1>2, <1>6, <1>9 DEF OneHand, TypeOK
  <2>5. \A u, v \in Threads :
          /\ doomed'[u] \subseteq made' \ (closed' \union CachedClients')
          /\ lease'[v] \notin doomed'[u] /\ built'[v] \notin doomed'[u]
          /\ u # v => doomed'[u] \intersect doomed'[v] = {}
    <3>1. \A u \in Threads : doomed'[u] = IF u = t THEN {x \in out : leases[x] = 0} ELSE doomed[u]
      BY <1>0, <1>1 DEF TypeOK
    <3>2. \A u \in Threads : /\ lease'[u] = (IF u = t THEN e ELSE lease[u])
                              /\ built'[u] = (IF u = t THEN None ELSE built[u])
      BY <1>0, <1>1 DEF TypeOK
    <3>3. \A u \in Threads : doomed[u] \intersect out = {} /\ built[u] \notin out
      BY <1>0, <1>4, <1>9 DEF OneHand, TypeOK
    <3>4. None \notin out /\ \A u \in Threads : None \notin doomed[u]
      BY <1>0, <1>4 DEF TypeOK
    <3>5. QED  BY <1>0, <1>1, <1>4, <1>5, <1>6, <1>9, <3>1, <3>2, <3>3, <3>4 DEF OneHand
  <2>6. QED  BY <2>1, <2>2, <2>3, <2>4, <2>5 DEF OneHand
<1>11. NoClientLeaks'
  <2> SUFFICES ASSUME NEW x \in made \ closed
               PROVE  \/ x \in CachedClients'
                      \/ \E u \in Threads : x \in {lease'[u], built'[u]} \union doomed'[u]
    BY <1>1 DEF NoClientLeaks
  <2>1. CASE x \in out
    <3>1. CASE leases[x] = 0
      BY <1>0, <1>1, <2>1, <3>1 DEF TypeOK
    <3>2. CASE leases[x] # 0
      BY <1>0, <1>1, <1>2, <1>4, <1>5, <2>1, <3>2 DEF TypeOK
    <3>3. QED  BY <3>1, <3>2
  <2>2. CASE x \notin out
    BY <1>0, <1>1, <1>2, <1>6, <1>9, <2>2 DEF NoClientLeaks, TypeOK
  <2>3. QED  BY <2>1, <2>2
<1>12. QED  BY <1>3, <1>7, <1>8, <1>10, <1>11 DEF IInv

LEMMA ReleaseStep ==
  ASSUME IInv, NEW t \in Threads, Release(t)
  PROVE  IInv'
<1> USE NoneIsNothing DEF TypeOK, ThreadLife, OneHand, NoClientLeaks, Cached, CachedClients, Goto, Then, MostRecent, FoundOther, Release
<1>0. TypeOK /\ LeasesExact /\ ThreadLife /\ OneHand /\ NoClientLeaks
  BY DEF IInv
<1>1. LeasesExact' /\ leases' \in [Clients -> Nat]
  <2>1. lease[t] \in Clients
    BY <1>0
  <2>2. QED  BY <1>0, <2>1, Loss
<1>7. leases[lease[t]] = 1 <=> \A u \in Threads : lease[u] = lease[t] => u = t
  BY <1>0, CountTells
<1>2. TypeOK'
  BY <1>0, <1>1
<1>3. ThreadLife'
  BY <1>0, <1>7
<1>4. OneHand'
  BY <1>0, <1>7
<1>5. NoClientLeaks'
  BY <1>0, <1>7
<1>6. QED  BY <1>1, <1>2, <1>3, <1>4, <1>5 DEF IInv

LEMMA ClearStep ==
  ASSUME IInv, NEW t \in Threads, Clear(t)
  PROVE  IInv'
<1> USE NoneIsNothing DEF TypeOK, ThreadLife, OneHand, NoClientLeaks, Cached, CachedClients, Goto, Then, MostRecent, FoundOther, Clear
<1>0. TypeOK /\ LeasesExact /\ ThreadLife /\ OneHand /\ NoClientLeaks
  BY DEF IInv
<1>1. LeasesExact' /\ leases' \in [Clients -> Nat]
  BY <1>0 DEF LeasesExact, Holders
<1>8. \A e \in Clients : leases[e] = 0 <=> \A u \in Threads : lease[u] # e
  BY <1>0, CountTells
<1>2. TypeOK'
  BY <1>0, <1>1
<1>3. ThreadLife'
  BY <1>0, <1>8
<1>4. OneHand'
  BY <1>0, <1>8
<1>5. NoClientLeaks'
  BY <1>0, <1>8
<1>6. QED  BY <1>1, <1>2, <1>3, <1>4, <1>5 DEF IInv

LEMMA Inductive == IInv /\ [Next]_vars => IInv'
<1> SUFFICES ASSUME IInv, [Next]_vars PROVE IInv'
  OBVIOUS
<1>1. CASE UNCHANGED vars
  BY <1>1 DEF vars, IInv, TypeOK, LeasesExact, Holders, ThreadLife, OneHand, NoClientLeaks,
              Cached, CachedClients
<1>2. CASE Next
  BY <1>2, LookupStep, BuildStep, BuildFailsStep, UseOtherStep, InsertStep, CloseOneStep,
     AllClosedStep, ReleaseStep, ClearStep DEF Next, Acquire
<1>3. QED  BY <1>1, <1>2

LEMMA Invariance == Spec => []IInv
<1>1. QED  BY Initially, Inductive, PTL DEF Spec

-----------------------------------------------------------------------------
(* Every variable keeps its type; in particular no entry's lease counter   *)
(* goes below zero.                                                        *)
THEOREM TypeCorrect == Spec => []TypeOK
<1>1. IInv => TypeOK
  BY DEF IInv
<1>2. QED  BY <1>1, Invariance, PTL

(* A leased client is never closed. *)
THEOREM LeasedStaysOpen == Spec => []NeverClosedInUse
<1>1. IInv => NeverClosedInUse
  BY DEF IInv, OneHand, NeverClosedInUse
<1>2. QED  BY <1>1, Invariance, PTL

(* No client is closed twice. *)
THEOREM NoDoubleClose == Spec => []ClosedOnce
<1>1. IInv => ClosedOnce
  BY DEF IInv, OneHand, ClosedOnce
<1>2. QED  BY <1>1, Invariance, PTL

(* Every open client is in somebody's hand. *)
THEOREM NothingLeaks == Spec => []NoClientLeaks
<1>1. IInv => NoClientLeaks
  BY DEF IInv
<1>2. QED  BY <1>1, Invariance, PTL
=============================================================================
