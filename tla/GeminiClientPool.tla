---------------------------- MODULE GeminiClientPool ----------------------------
(***************************************************************************)
(* The reusable Gemini SDK clients (app/infra/gemini/pool.py): one cached  *)
(* client per API key, leased by the provider threads for one SDK call     *)
(* each, evicted in least-recently-used order and closed once nobody uses  *)
(* them.  A step is what a thread does under the pool's lock, or one call  *)
(* to the SDK outside it (the constructor, close).                         *)
(***************************************************************************)
EXTENDS Naturals, FiniteSets

CONSTANTS
  Threads,    \* provider threads, and the thread that clears the pool
  Keys,       \* cache keys: API key digest and client factory
  Clients,    \* the clients the SDK can construct (bounds the run)
  MaxClients, \* max_clients
  None

(* GeminiClientPool.__init__ raises ValueError otherwise. *)
ASSUME RoomForOne == MaxClients \in Nat \ {0}
ASSUME FiniteSets == IsFiniteSet(Threads) /\ IsFiniteSet(Keys)
ASSUME NoneIsNothing == None \notin Keys /\ None \notin Clients

VARIABLES
  cache,   \* the cached client of each key, or None
  older,   \* the keys used less recently than each cached key
  leases,  \* _PooledClient.leases
  retired, \* the clients that left the cache while cached (_PooledClient.retired)
  pc,      \* where each thread is
  key,     \* the key it asked for
  built,   \* the client it has constructed and not yet cached
  lease,   \* the entry it has leased
  doomed,  \* the clients it is about to close
  made,    \* history: the clients that were constructed
  closed   \* history: the clients whose close() was called

vars == <<cache, older, leases, retired, pc, key, built, lease, doomed, made, closed>>

TypeOK ==
  /\ cache \in [Keys -> Clients \union {None}]
  /\ older \in [Keys -> SUBSET Keys]
  /\ leases \in [Clients -> Nat]
  /\ retired \subseteq Clients
  /\ pc \in [Threads -> {"idle", "building", "built", "closing", "using"}]
  /\ key \in [Threads -> Keys \union {None}]
  /\ built \in [Threads -> Clients \union {None}]
  /\ lease \in [Threads -> Clients \union {None}]
  /\ doomed \in [Threads -> SUBSET Clients]
  /\ made \subseteq Clients
  /\ closed \subseteq Clients

Init ==
  /\ cache = [k \in Keys |-> None]
  /\ older = [k \in Keys |-> {}]
  /\ leases = [e \in Clients |-> 0]
  /\ retired = {}
  /\ pc = [t \in Threads |-> "idle"]
  /\ key = [t \in Threads |-> None]
  /\ built = [t \in Threads |-> None]
  /\ lease = [t \in Threads |-> None]
  /\ doomed = [t \in Threads |-> {}]
  /\ made = {}
  /\ closed = {}

-----------------------------------------------------------------------------
Cached == {k \in Keys : cache[k] # None}
CachedClients == {cache[k] : k \in Cached}

(* move_to_end, also of a key that is new to the cache *)
MostRecent(k, C) == [j \in Keys |-> IF j = k THEN C \ {k} ELSE older[j] \ {k}]

Goto(t, from, to) == pc[t] = from /\ pc' = [pc EXCEPT ![t] = to]

(* Once the clients t has to close are closed: its call, or nothing left. *)
Then(t) == IF lease[t] = None THEN "idle" ELSE "using"

-----------------------------------------------------------------------------
(* Faulty variants of the actions below; no specification uses them. *)

(* A retired client is never closed by its last user. *)
ReleaseForgets(t) ==
  /\ Goto(t, "using", "closing")
  /\ leases' = [leases EXCEPT ![lease[t]] = @ - 1]
  /\ lease' = [lease EXCEPT ![t] = None]
  /\ UNCHANGED <<cache, older, retired, key, built, doomed, made, closed>>

(* clear() closes the leased clients too. *)
ClearAtOnce(t) ==
  /\ Goto(t, "idle", "closing")
  /\ cache' = [k \in Keys |-> None]
  /\ older' = [k \in Keys |-> {}]
  /\ retired' = retired \union CachedClients
  /\ doomed' = [doomed EXCEPT ![t] = CachedClients]
  /\ UNCHANGED <<leases, key, built, lease, made, closed>>

-----------------------------------------------------------------------------
(* _acquire, first lock: a cached client is leased at once. *)
Lookup(t, k) ==
  /\ pc[t] = "idle"
  /\ IF k \in Cached
       THEN /\ pc' = [pc EXCEPT ![t] = "using"]
            /\ lease' = [lease EXCEPT ![t] = cache[k]]
            /\ leases' = [leases EXCEPT ![cache[k]] = @ + 1]
            /\ older' = MostRecent(k, Cached)
            /\ UNCHANGED key
       ELSE /\ pc' = [pc EXCEPT ![t] = "building"]
            /\ key' = [key EXCEPT ![t] = k]
            /\ UNCHANGED <<lease, leases, older>>
  /\ UNCHANGED <<cache, retired, built, doomed, made, closed>>

(* genai.Client(api_key=...), outside the lock *)
Build(t) ==
  /\ Goto(t, "building", "built")
  /\ \E e \in Clients \ made :
       /\ built' = [built EXCEPT ![t] = e]
       /\ made' = made \union {e}
  /\ UNCHANGED <<cache, older, leases, retired, key, lease, doomed, closed>>

(* ... which may raise. *)
BuildFails(t) ==
  /\ Goto(t, "building", "idle")
  /\ key' = [key EXCEPT ![t] = None]
  /\ UNCHANGED <<cache, older, leases, retired, built, lease, doomed, made, closed>>

(* _acquire, second lock: another thread may have cached a client for the  *)
(* key meanwhile ...                                                       *)
FoundOther(t) == key[t] \in Cached

(* Faulty variant: the client built in vain is dropped, not closed. *)
UseOtherOnly(t) ==
  LET e == cache[key[t]]
  IN  /\ Goto(t, "built", "closing")
      /\ FoundOther(t)
      /\ key' = [key EXCEPT ![t] = None]
      /\ built' = [built EXCEPT ![t] = None]
      /\ lease' = [lease EXCEPT ![t] = e]
      /\ leases' = [leases EXCEPT ![e] = @ + 1]
      /\ older' = MostRecent(key[t], Cached)
      /\ UNCHANGED <<cache, retired, doomed, made, closed>>

UseOther(t) ==
  LET e == cache[key[t]]
  IN  /\ Goto(t, "built", "closing")
      /\ FoundOther(t)
      /\ doomed' = [doomed EXCEPT ![t] = {built[t]}]
      /\ key' = [key EXCEPT ![t] = None]
      /\ built' = [built EXCEPT ![t] = None]
      /\ lease' = [lease EXCEPT ![t] = e]
      /\ leases' = [leases EXCEPT ![e] = @ + 1]
      /\ older' = MostRecent(key[t], Cached)
      /\ UNCHANGED <<cache, retired, made, closed>>

(* ... and if not, the new client is cached; the cache was within its      *)
(* bound before, so at most the least recently used client is evicted.     *)
Evicted(t) ==
  IF Cardinality(Cached) < MaxClients
    THEN {}
    ELSE {k \in Cached : older[k] \intersect Cached = {}}

Insert(t) ==
  LET e == built[t]
      out == {cache[k] : k \in Evicted(t)}
  IN  /\ Goto(t, "built", "closing")
      /\ ~FoundOther(t)
      /\ cache' = [k \in Keys |-> IF k = key[t] THEN e ELSE IF k \in Evicted(t) THEN None ELSE cache[k]]
      /\ older' = MostRecent(key[t], Cached)
      /\ retired' = retired \union out
      /\ doomed' = [doomed EXCEPT ![t] = {x \in out : leases[x] = 0}]
      /\ key' = [key EXCEPT ![t] = None]
      /\ built' = [built EXCEPT ![t] = None]
      /\ lease' = [lease EXCEPT ![t] = e]
      /\ leases' = [leases EXCEPT ![e] = @ + 1]
      /\ UNCHANGED <<made, closed>>

(* _close_quietly of one client, outside the lock; an error is swallowed. *)
CloseOne(t) ==
  /\ pc[t] = "closing"
  /\ \E e \in doomed[t] :
       /\ doomed' = [doomed EXCEPT ![t] = @ \ {e}]
       /\ closed' = closed \union {e}
  /\ UNCHANGED <<cache, older, leases, retired, pc, key, built, lease, made>>

AllClosed(t) ==
  /\ doomed[t] = {}
  /\ Goto(t, "closing", Then(t))
  /\ UNCHANGED <<cache, older, leases, retired, key, built, lease, doomed, made, closed>>

(* _release, when the SDK call has returned or raised *)
Release(t) ==
  LET e == lease[t]
  IN  /\ Goto(t, "using", "closing")
      /\ leases' = [leases EXCEPT ![e] = @ - 1]
      /\ doomed' = [doomed EXCEPT ![t] = IF e \in retired /\ leases[e] = 1 THEN {e} ELSE {}]
      /\ lease' = [lease EXCEPT ![t] = None]
      /\ UNCHANGED <<cache, older, retired, key, built, made, closed>>

(* clear(), when the service stops and while calls are still running *)
Clear(t) ==
  /\ Goto(t, "idle", "closing")
  /\ cache' = [k \in Keys |-> None]
  /\ older' = [k \in Keys |-> {}]
  /\ retired' = retired \union CachedClients
  /\ doomed' = [doomed EXCEPT ![t] = {e \in CachedClients : leases[e] = 0}]
  /\ UNCHANGED <<leases, key, built, lease, made, closed>>

Acquire(t) ==
  \/ Build(t) \/ BuildFails(t) \/ UseOther(t) \/ Insert(t) \/ CloseOne(t) \/ AllClosed(t)

Next ==
  \E t \in Threads :
    (\E k \in Keys : Lookup(t, k)) \/ Acquire(t) \/ Release(t) \/ Clear(t)

Spec == Init /\ [][Next]_vars

(* Threads run, and every SDK call ends: the request carries its deadline. *)
Fairness == \A t \in Threads : WF_vars(Acquire(t)) /\ WF_vars(Release(t))

FairSpec == Spec /\ Fairness

-----------------------------------------------------------------------------
(* A client that is leased is open, and nobody is about to close it ("never*)
(* closed while held", lease()).                                           *)
NeverClosedInUse ==
  \A t \in Threads : lease[t] # None =>
    /\ lease[t] \notin closed
    /\ \A u \in Threads : lease[t] \notin doomed[u]

(* No client is closed twice, whoever of the evicting, clearing, losing    *)
(* and last releasing threads comes first.                                 *)
ClosedOnce ==
  \A t, u \in Threads :
    /\ doomed[t] \intersect closed = {}
    /\ t # u => doomed[t] \intersect doomed[u] = {}

(* No client is forgotten: one that was constructed and is still open is   *)
(* cached, leased, just built or about to be closed.                       *)
NoClientLeaks ==
  \A e \in made \ closed :
    \/ e \in CachedClients
    \/ \E t \in Threads : e \in {lease[t], built[t]} \union doomed[t]

(* A client that left the cache is closed in the end, once its last call   *)
(* has returned.                                                           *)
RetiredIsClosed == \A e \in Clients : e \in retired ~> e \in closed
=============================================================================
