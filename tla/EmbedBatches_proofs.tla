--------------------------- MODULE EmbedBatches_proofs ---------------------------
(***************************************************************************)
(* Theorems about EmbedBatches, and with it about ProviderCalls, for any   *)
(* number of callers, workers, batches, slots and threads and any waits.   *)
(***************************************************************************)
EXTENDS EmbedBatches, FiniteSetTheorems, TLAPS

(* The threads the present executor has given away. *)
OwnThreads == InPhase("running") \ old

(* A limiter's promise, an executor's, and what the loop of attempts keeps *)
(* in mind between two rounds.                                             *)
SlotsAreBounded == Cardinality(Holders) <= Limit
ThreadsAreBounded == Cardinality(OwnThreads) + zombies <= Threads
RoundsAreBounded ==
  \A c \in Callers :
    /\ backoff[c] => phase[c] = "sleeping"
    /\ phase[c] = "sleeping" /\ ~backoff[c] => attempt[c] < MaxAttempts

CallsInv == PTypeOK /\ SlotsAreBounded /\ ThreadsAreBounded /\ RoundsAreBounded

(* The inductive invariant of a request: where the call of a worker is,    *)
(* what a batch that was taken became, and why the request stops.          *)
WorkersCall ==
  \A w \in Workers :
    /\ Sending(w) <=> batch[w] # NoBatch
    /\ Sending(w) => phase[w] # "idle"
    /\ ~Sending(w) => phase[w] \in {"idle", "cancelled"}
    /\ Sending(w) /\ phase[w] = "cancelled" => stopped

BatchesAreAccounted ==
  call = "running" /\ ~stopped =>
    \A b \in Batches : b < next => \/ b \in results \cup failures
                                   \/ \E w \in Workers : batch[w] = b

WorkersEnd ==
  /\ \A w \in Workers : /\ worker[w] = "ended" => next = Count + 1
                        /\ worker[w] = "failed" => failures # {}
                        /\ worker[w] = "cancelled" /\ call = "running" => stopped
  /\ call \in {"returned", "indexed", "raised", "cancelled"} => \A w \in Workers : ~Live(w)

ResultsAreComplete ==
  /\ call = "stopping" /\ ~stopped /\ failures = {} => results = Batches
  /\ call = "returned" /\ ~stopped => results = Batches
  /\ call = "indexed" => results = Batches

IInv == TypeOK /\ CallsInv /\ WorkersCall /\ BatchesAreAccounted /\ WorkersEnd /\ ResultsAreComplete

-----------------------------------------------------------------------------
(* Counting callers: a set of them never counts more than one it is part   *)
(* of, one caller more counts at most one more, one less exactly one less. *)
LEMMA CallersCount ==
  ASSUME NEW S, S \subseteq Callers
  PROVE  /\ IsFiniteSet(S) /\ Cardinality(S) \in Nat
         /\ \A R : R \subseteq S => Cardinality(R) <= Cardinality(S)
         /\ \A c \in Callers : Cardinality(S \cup {c}) <= Cardinality(S) + 1
         /\ \A c \in S : Cardinality(S \ {c}) = Cardinality(S) - 1
<1>1. IsFiniteSet(S) /\ Cardinality(S) \in Nat
  BY CallersAssumption, FS_Subset, FS_CardinalityType
<1>2. ASSUME NEW R, R \subseteq S PROVE Cardinality(R) <= Cardinality(S)
  BY <1>1, <1>2, FS_Subset
<1>3. ASSUME NEW c \in Callers PROVE Cardinality(S \cup {c}) <= Cardinality(S) + 1
  <2>1. CASE c \in S
    <3>1. S \cup {c} = S
      BY <2>1
    <3>2. Cardinality(S \cup {c}) = Cardinality(S)
      BY <3>1, Zenon
    <3>3. QED BY <3>2, <1>1
  <2>2. CASE c \notin S
    <3>1. Cardinality(S \cup {c}) = Cardinality(S) + 1
      BY <1>1, <2>2, FS_AddElement, Zenon
    <3>2. QED BY <3>1, <1>1
  <2>3. QED BY <2>1, <2>2
<1>4. ASSUME NEW c \in S PROVE Cardinality(S \ {c}) = Cardinality(S) - 1
  BY <1>1, FS_RemoveElement, Zenon
<1>5. QED BY <1>1, <1>2, <1>3, <1>4

LEMMA ThreadsAreNatural == Threads \in Nat
  BY LimitsAssumption DEF Threads

(* A step takes one slot, for a call that had none and while one is free, *)
(* or none; several calls may give theirs back at once.                   *)
LEMMA HoldersChange ==
  ASSUME PTypeOK, [PNext]_pvars
  PROVE  \/ Holders' \subseteq Holders
         \/ \E c \in Callers \ Holders : Holders' = Holders \cup {c} /\ Cardinality(Holders) < Limit
<1> USE DEF PTypeOK, Holders, InPhase, Phases, Enter
<1>1. CASE \E c \in Callers : GetSlot(c)
  <2>1. PICK c \in Callers : GetSlot(c)
    BY <1>1
  <2>2. c \notin Holders /\ Holders' = Holders \cup {c} /\ Cardinality(Holders) < Limit
    BY <2>1 DEF GetSlot
  <2>3. QED BY <2>2
<1>2. CASE ~\E c \in Callers : GetSlot(c)
  <2>1. ASSUME NEW c \in Callers, Begin(c) \/ Attempt(c) \/ CancelCall(c) \/ Collect(c)
        PROVE  Holders' \subseteq Holders
    <3>1. CASE \E p \in Phases \ {"queued", "running"} : Enter(c, p)
      BY <3>1
    <3>2. CASE StartThread(c)
      BY <3>2 DEF StartThread
    <3>3. QED BY <1>2, <2>1, <3>1, <3>2
              DEF Attempt, Begin, Busy, Succeed, TimeOut, Refused, RateLimited, RateLimitedLegacy,
                  Transient, Wake, CancelCall, Collect, Leave, Retry
  <2>2. CASE ZombieEnds
    BY <2>2 DEF ZombieEnds
  <2>3. CASE Shutdown
    BY <2>3 DEF Shutdown
  <2>4. CASE UNCHANGED pvars
    BY <2>4 DEF pvars
  <2>5. QED BY <2>1, <2>2, <2>3, <2>4 DEF PNext
<1>3. QED BY <1>1, <1>2

(* Neither the slots nor the threads are ever more than there are: a step *)
(* takes one of either only under a guard on their number.                *)
LEMMA SlotStep ==
  ASSUME CallsInv, [PNext]_pvars
  PROVE  SlotsAreBounded'
<1>1. Holders \subseteq Callers /\ Holders' \subseteq Callers
  BY DEF Holders, InPhase
<1>2. ASSUME NEW c \in Callers \ Holders, Holders' = Holders \cup {c}, Cardinality(Holders) < Limit
      PROVE  SlotsAreBounded'
  <2>1. Cardinality(Holders') <= Cardinality(Holders) + 1
    BY <1>1, <1>2, CallersCount, Zenon
  <2>2. Cardinality(Holders') \in Nat /\ Cardinality(Holders) \in Nat
    BY <1>1, CallersCount, Zenon
  <2>3. Cardinality(Holders') <= Limit
    <3> HIDE DEF Holders
    <3> QED BY <1>2, <2>1, <2>2, LimitsAssumption
  <2>4. QED BY <2>3 DEF SlotsAreBounded
<1>3. CASE Holders' \subseteq Holders
  <2>1. Cardinality(Holders') <= Cardinality(Holders)
    BY <1>1, <1>3, CallersCount, Zenon
  <2>2. Cardinality(Holders') \in Nat /\ Cardinality(Holders) \in Nat
    BY <1>1, CallersCount, Zenon
  <2>3. QED
    <3> HIDE DEF Holders
    <3> QED BY <2>1, <2>2, LimitsAssumption DEF CallsInv, SlotsAreBounded
<1>4. QED BY <1>2, <1>3, HoldersChange DEF CallsInv

LEMMA ThreadStep ==
  ASSUME CallsInv, [PNext]_pvars
  PROVE  ThreadsAreBounded' /\ zombies' \in 0 .. Threads
<1> USE DEF CallsInv, PTypeOK, OwnThreads, InPhase, Phases, Enter
<1>0. /\ OwnThreads \subseteq Callers /\ OwnThreads' \subseteq Callers
      /\ zombies \in Nat /\ Threads \in Nat
  BY ThreadsAreNatural
<1>1. /\ Cardinality(OwnThreads') \in Nat /\ Cardinality(OwnThreads) \in Nat
      /\ OwnThreads' \subseteq OwnThreads => Cardinality(OwnThreads') <= Cardinality(OwnThreads)
  BY <1>0, CallersCount, Zenon
<1>2. SUFFICES /\ zombies' \in Nat
               /\ Cardinality(OwnThreads') + zombies' <= Threads
  <2> HIDE DEF OwnThreads
  <2> QED BY <1>0, <1>1 DEF ThreadsAreBounded
<1> DEFINE Fewer == OwnThreads' \subseteq OwnThreads /\ zombies' \in Nat /\ zombies' <= zombies
<1>3. ASSUME Fewer PROVE zombies' \in Nat /\ Cardinality(OwnThreads') + zombies' <= Threads
  <2>1. zombies' \in Nat /\ zombies' <= zombies /\ Cardinality(OwnThreads') <= Cardinality(OwnThreads)
    BY <1>3, <1>1
  <2> HIDE DEF OwnThreads
  <2>2. QED BY <2>1, <1>0, <1>1 DEF ThreadsAreBounded
<1>4. ASSUME NEW c \in Callers, StartThread(c)
      PROVE  zombies' \in Nat /\ Cardinality(OwnThreads') + zombies' <= Threads
  <2>1. /\ OwnThreads' = OwnThreads \cup {c} /\ zombies' = zombies
        /\ Cardinality(OwnThreads) + zombies < Threads
    BY <1>4 DEF StartThread, FreeThread
  <2>2. Cardinality(OwnThreads') <= Cardinality(OwnThreads) + 1
    BY <1>0, <2>1, CallersCount, Zenon
  <2> HIDE DEF OwnThreads
  <2>3. QED BY <2>1, <2>2, <1>0, <1>1
<1>5. ASSUME NEW c \in Callers, NEW p \in Phases \ {"running"}, Enter(c, p), LeaveThread(c)
      PROVE  zombies' \in Nat /\ Cardinality(OwnThreads') + zombies' <= Threads
  <2>1. CASE c \in OwnThreads
    <3>1. OwnThreads' = OwnThreads \ {c} /\ zombies' = zombies + 1
      BY <1>5, <2>1 DEF LeaveThread
    <3>2. Cardinality(OwnThreads') = Cardinality(OwnThreads) - 1
      BY <1>0, <2>1, <3>1, CallersCount, Zenon
    <3> HIDE DEF OwnThreads
    <3>3. QED BY <3>1, <3>2, <1>0, <1>1 DEF ThreadsAreBounded
  <2>2. CASE c \notin OwnThreads
    <3>1. Fewer
      BY <1>0, <1>5, <2>2 DEF LeaveThread
    <3>2. QED BY <3>1, <1>3
  <2>3. QED BY <2>1, <2>2
<1>6. ASSUME NEW c \in Callers, Begin(c) \/ Attempt(c) \/ CancelCall(c) \/ Collect(c)
      PROVE  zombies' \in Nat /\ Cardinality(OwnThreads') + zombies' <= Threads
  <2>1. CASE StartThread(c)
    BY <2>1, <1>4
  <2>2. CASE TimeOut(c) \/ CancelCall(c)
    <3>1. \E p \in Phases \ {"running"} : Enter(c, p) /\ LeaveThread(c)
      BY <2>2 DEF TimeOut, CancelCall, Leave
    <3>2. QED BY <3>1, <1>5
  <2>3. CASE \E p \in Phases \ {"running"} : Enter(c, p) /\ (FreeOwnThread(c) \/ UNCHANGED <<zombies, old>>)
    <3>1. Fewer
      BY <1>0, <2>3 DEF FreeOwnThread
    <3>2. QED BY <3>1, <1>3
  <2>4. QED BY <1>6, <2>1, <2>2, <2>3
            DEF Attempt, Begin, GetSlot, Busy, Succeed, Refused, RateLimited, RateLimitedLegacy,
                Transient, Wake, Collect, Leave, Retry
<1>7. CASE ZombieEnds
  <2>1. Fewer
    BY <1>0, <1>7 DEF ZombieEnds
  <2>2. QED BY <2>1, <1>3
<1>8. CASE Shutdown
  <2>1. Fewer
    BY <1>0, <1>8 DEF Shutdown
  <2>2. QED BY <2>1, <1>3
<1>9. CASE UNCHANGED pvars
  <2>1. Fewer
    BY <1>0, <1>9 DEF pvars
  <2>2. QED BY <2>1, <1>3
<1>10. QED BY <1>6, <1>7, <1>8, <1>9 DEF PNext

(* The rest of the types, and the attempts of a loop.  A rate limit gives  *)
(* its attempt back, every other sleep is entered with one left.           *)
LEMMA RoundStep ==
  ASSUME CallsInv, [PNext]_pvars
  PROVE  PTypeOK' /\ RoundsAreBounded'
<1> USE DEF CallsInv, PTypeOK, RoundsAreBounded, InPhase, Phases, Enter, Counters, Forget, Leave,
            Retry, LeaveThread, FreeOwnThread, MinWait
<1> USE LimitsAssumption, WaitsAssumption, CallersAssumption
<1>0. zombies' \in 0 .. Threads
  BY ThreadStep
<1>1. ASSUME NEW c \in Callers, Begin(c) PROVE PTypeOK' /\ RoundsAreBounded'
  BY <1>0, <1>1 DEF Begin
<1>2. ASSUME NEW c \in Callers, GetSlot(c) \/ StartThread(c) \/ Collect(c)
      PROVE  PTypeOK' /\ RoundsAreBounded'
  BY <1>0, <1>2 DEF GetSlot, StartThread, Collect
<1>2a. ASSUME NEW c \in Callers, NEW p \in {"answered", "failed", "cancelled"}, Leave(c, p), old' = old \ {c}
      PROVE  PTypeOK' /\ RoundsAreBounded'
  <2>1. /\ phase' \in [Callers -> Phases] /\ old' \subseteq InPhase("running")'
        /\ attempt' \in [Callers -> 0 .. MaxAttempts]
        /\ retries' \in [Callers -> Nat] /\ waited' \in [Callers -> 0 .. MaxWait]
    BY <1>2a
  <2>2. backoff' \in [Callers -> BOOLEAN]
    BY <1>2a
  <2>3. RoundsAreBounded'
    <3>1. \A k \in Callers : /\ k # c => phase'[k] = phase[k] /\ attempt'[k] = attempt[k]
                             /\ phase'[c] # "sleeping"
      BY <1>2a
    <3>2. \A k \in Callers : (backoff'[k] <=> backoff[k] /\ k # c)
      BY <1>2a, Zenon
    <3>3. QED BY <3>1, <3>2
  <2>4. QED BY <1>0, <2>1, <2>2, <2>3
<1>3. ASSUME NEW c \in Callers, Busy(c) \/ CancelCall(c) \/ Succeed(c) \/ TimeOut(c) \/ Refused(c)
      PROVE  PTypeOK' /\ RoundsAreBounded'
  <2>1. \E p \in {"answered", "failed", "cancelled"} : Leave(c, p) /\ old' = old \ {c}
    BY <1>3 DEF Busy, CancelCall, Succeed, TimeOut, Refused
  <2>2. QED BY <2>1, <1>2a
<1>4. ASSUME NEW c \in Callers, RateLimited(c) PROVE PTypeOK' /\ RoundsAreBounded'
  <2>1. CASE Leave(c, "failed")
    BY <1>4, <2>1, <1>2a DEF RateLimited
  <2>2. CASE ~Leave(c, "failed")
    <3>1. PICK d \in Delays :
            LET candidate == IF d < MinWait THEN MinWait ELSE d
            IN  /\ waited[c] + candidate <= MaxWait /\ Enter(c, "sleeping")
                /\ waited' = [waited EXCEPT ![c] = @ + candidate]
                /\ retries' = [retries EXCEPT ![c] = @ + 1]
                /\ backoff' = [backoff EXCEPT ![c] = TRUE]
                /\ UNCHANGED attempt
      BY <1>4, <2>2 DEF RateLimited
    <3>2. d \in Nat /\ waited[c] \in Nat
      OBVIOUS
    <3>3. waited' \in [Callers -> 0 .. MaxWait]
      BY <3>1, <3>2
    <3>4. QED BY <1>0, <1>4, <3>1, <3>3 DEF RateLimited
  <2>3. QED BY <2>1, <2>2
<1>5. ASSUME NEW c \in Callers, RateLimitedLegacy(c) \/ Transient(c)
      PROVE  PTypeOK' /\ RoundsAreBounded'
  BY <1>0, <1>5 DEF RateLimitedLegacy, Transient
<1>6. ASSUME NEW c \in Callers, Wake(c) PROVE PTypeOK' /\ RoundsAreBounded'
  BY <1>0, <1>6 DEF Wake
<1>7. CASE ZombieEnds
  BY <1>0, <1>7 DEF ZombieEnds
<1>8. CASE Shutdown
  BY <1>0, <1>8 DEF Shutdown
<1>9. CASE UNCHANGED pvars
  BY <1>0, <1>9 DEF pvars
<1>10. QED
  BY <1>1, <1>2, <1>3, <1>4, <1>5, <1>6, <1>7, <1>8, <1>9 DEF PNext, Attempt

LEMMA CallsInitially == PInit => CallsInv
<1> SUFFICES ASSUME PInit PROVE CallsInv
  OBVIOUS
<1>1. Holders = {} /\ OwnThreads = {} /\ zombies = 0
  BY DEF PInit, Holders, OwnThreads, InPhase
<1>2. Cardinality(Holders) = 0 /\ Cardinality(OwnThreads) = 0
  BY <1>1, FS_EmptySet, Zenon
<1>3. PTypeOK /\ RoundsAreBounded
  BY LimitsAssumption, WaitsAssumption, ThreadsAreNatural DEF PInit, PTypeOK, RoundsAreBounded, InPhase, Phases
<1>4. SlotsAreBounded /\ ThreadsAreBounded
  BY <1>1, <1>2, LimitsAssumption, ThreadsAreNatural DEF SlotsAreBounded, ThreadsAreBounded
<1>5. QED BY <1>3, <1>4 DEF CallsInv

LEMMA CallsStep == CallsInv /\ [PNext]_pvars => CallsInv'
  BY SlotStep, ThreadStep, RoundStep DEF CallsInv

(* The slots of the queued calls and of the running ones add up to Limit at *)
(* most: a queued call leaves one of them without a running call, so that   *)
(* threads are short only when more than the spare ones were abandoned.     *)
LEMMA SpareThreads == CallsInv => SpareThreadsServe
<1> SUFFICES ASSUME CallsInv, InPhase("queued") # {}, ~FreeThread
             PROVE  zombies > (ThreadsPerSlot - 1) * Limit
  BY DEF SpareThreadsServe
<1>1. PICK c \in InPhase("queued") : TRUE
  OBVIOUS
<1>2. /\ Holders \subseteq Callers /\ c \in Holders
      /\ OwnThreads \subseteq Holders \ {c} /\ Holders \ {c} \subseteq Callers
  BY <1>1 DEF InPhase, Holders, OwnThreads
<1>3. /\ Cardinality(Holders \ {c}) = Cardinality(Holders) - 1
      /\ Cardinality(OwnThreads) <= Cardinality(Holders \ {c})
  BY <1>2, CallersCount, Zenon
<1>4. /\ Cardinality(Holders) \in Nat /\ Cardinality(Holders \ {c}) \in Nat
      /\ Cardinality(OwnThreads) \in Nat
  BY <1>2, CallersCount, Zenon
<1>5. Cardinality(Holders) <= Limit /\ ~(Cardinality(OwnThreads) + zombies < Threads) /\ zombies \in Nat
  BY ThreadsAreNatural DEF CallsInv, SlotsAreBounded, FreeThread, OwnThreads, PTypeOK
<1>6. zombies > Threads - Limit
  <2> HIDE DEF Holders, OwnThreads
  <2> QED BY <1>3, <1>4, <1>5, ThreadsAreNatural, LimitsAssumption
<1>7. Threads - Limit = (ThreadsPerSlot - 1) * Limit
  BY LimitsAssumption DEF Threads
<1>8. QED BY <1>6, <1>7

LEMMA CallsInvariant == PSpec => []CallsInv
  BY CallsInitially, CallsStep, PTL DEF PSpec

-----------------------------------------------------------------------------
(* A request moves its calls as ProviderCalls does, whatever else it does. *)
LEMMA RequestCalls == [Next]_vars => [PNext]_pvars
<1> SUFFICES ASSUME [Next]_vars PROVE [PNext]_pvars
  OBVIOUS
<1> USE WorkersAssumption DEF PNext, pvars
<1>1. ASSUME NEW w \in Workers, WorkerStep(w) PROVE [PNext]_pvars
  BY <1>1 DEF WorkerStep, Take, Exhausted, Embedded, Fails, Dropped, Unwind
<1>2. ASSUME NEW c \in Callers, Serve(c) PROVE [PNext]_pvars
  BY <1>2 DEF Serve
<1>3. ASSUME NEW c \in Others, OtherCalls(c) PROVE [PNext]_pvars
  BY <1>3 DEF OtherCalls, Others
<1>4. CASE Wakes \/ CancelCaller \/ Finish \/ Store
  BY <1>4 DEF Wakes, CancelCaller, Finish, Store
<1>5. CASE ThreadEnds \/ StopService
  BY <1>5 DEF ThreadEnds, StopService
<1>6. CASE UNCHANGED vars
  BY <1>6 DEF vars
<1>7. QED BY <1>1, <1>2, <1>3, <1>4, <1>5, <1>6 DEF Next

(* A step of the calls that is none of a request: its workers' calls go on, *)
(* none returns to its worker, and only a stopping service cancels one.     *)
CallsGoOn ==
  /\ UNCHANGED <<next, worker, batch, results, failures, call>>
  /\ stopped => stopped'
  /\ \A w \in Workers : /\ phase'[w] = "idle" <=> phase[w] = "idle"
                        /\ phase[w] = "cancelled" => phase'[w] = "cancelled"
                        /\ phase'[w] = "cancelled" => phase[w] = "cancelled" \/ stopped'

LEMMA GoingOn ==
  ASSUME TypeOK, CallsInv
  PROVE  /\ \A c \in Callers : Serve(c) => CallsGoOn
         /\ \A c \in Others : OtherCalls(c) => CallsGoOn
         /\ ThreadEnds \/ StopService \/ UNCHANGED vars => CallsGoOn
<1> USE WorkersAssumption DEF CallsGoOn, TypeOK, PTypeOK, evars, Enter, InPhase
<1>1. ASSUME NEW c \in Callers, Serve(c) PROVE CallsGoOn
  <2>1. \E p \in Phases \ {"idle", "cancelled"} : Enter(c, p) /\ phase[c] \notin {"idle", "cancelled"}
    BY <1>1 DEF Serve, Attempt, GetSlot, Busy, StartThread, Succeed, TimeOut, Refused, RateLimited,
                RateLimitedLegacy, Transient, Wake, Leave, Retry, Holders, Phases
  <2>2. QED BY <1>1, <2>1 DEF Serve
<1>2. ASSUME NEW c \in Others, OtherCalls(c) PROVE CallsGoOn
  <2>1. c \notin Workers /\ \E p \in Phases : Enter(c, p)
    BY <1>2 DEF OtherCalls, Others, Begin, CancelCall, Collect, Leave, Phases
  <2>2. QED BY <1>2, <2>1 DEF OtherCalls
<1>3. CASE ThreadEnds
  BY <1>3 DEF ThreadEnds, ZombieEnds
<1>4. CASE StopService
  BY <1>4 DEF StopService, Shutdown
<1>5. CASE UNCHANGED vars
  BY <1>5 DEF vars, pvars
<1>6. QED BY <1>1, <1>2, <1>3, <1>4, <1>5

LEMMA RequestInitially == Init => IInv
<1> SUFFICES ASSUME Init PROVE IInv
  OBVIOUS
<1>1. CallsInv
  BY CallsInitially DEF Init
<1>2. TypeOK
  <2>1. PTypeOK /\ 1 \in 1 .. Count + 1
    BY <1>1, CountAssumption DEF CallsInv
  <2>2. QED BY <2>1 DEF Init, TypeOK
<1>3. WorkersCall
  BY WorkersAssumption DEF Init, PInit, WorkersCall, Sending, NoBatch
<1>4. BatchesAreAccounted /\ WorkersEnd /\ ResultsAreComplete
  BY CountAssumption DEF Init, BatchesAreAccounted, WorkersEnd, ResultsAreComplete, Batches
<1>5. QED BY <1>1, <1>2, <1>3, <1>4 DEF IInv

(* The types of a request. *)
LEMMA RequestTypes ==
  ASSUME IInv, [Next]_vars
  PROVE  TypeOK' /\ CallsInv'
<1>1. CallsInv' /\ PTypeOK'
  BY RequestCalls, CallsStep DEF IInv, CallsInv
<1> USE CountAssumption DEF IInv, TypeOK, Batches, Become, PutDown
<1>2. ASSUME NEW w \in Workers, WorkerStep(w) PROVE TypeOK'
  <2>0. CASE Take(w)
    <3>1. next \in Batches /\ next + 1 \in 1 .. Count + 1
      BY <2>0 DEF Take
    <3>2. QED BY <1>1, <2>0, <3>1 DEF Take
  <2>1. CASE Exhausted(w)
    BY <1>1, <2>1 DEF Exhausted
  <2>2. CASE Embedded(w)
    <3>1. batch[w] \in Batches
      BY <2>2 DEF Embedded, WorkersCall
    <3>2. QED BY <1>1, <2>2, <3>1 DEF Embedded
  <2>3. CASE Fails(w)
    <3>1. batch[w] \in Batches
      BY <2>3 DEF Fails, WorkersCall
    <3>2. QED BY <1>1, <2>3, <3>1 DEF Fails
  <2>4. CASE Dropped(w) \/ Unwind(w)
    BY <1>1, <2>4 DEF Dropped, Unwind
  <2>5. QED BY <1>2, <2>0, <2>1, <2>2, <2>3, <2>4 DEF WorkerStep
<1>3. ASSUME CallsGoOn, stopped' \in BOOLEAN PROVE TypeOK'
  BY <1>1, <1>3 DEF CallsGoOn
<1>4. CASE Wakes \/ CancelCaller \/ Finish \/ Store
  BY <1>1, <1>4 DEF Wakes, CancelCaller, Finish, Store
<1>5. ASSUME NEW c \in Callers, Serve(c) PROVE stopped' \in BOOLEAN
  BY <1>5 DEF Serve, evars
<1>6. ASSUME NEW c \in Others, OtherCalls(c) PROVE stopped' \in BOOLEAN
  BY <1>6 DEF OtherCalls, evars
<1>7. CASE ThreadEnds \/ StopService \/ UNCHANGED vars
  <2>1. stopped' \in BOOLEAN
    BY <1>7 DEF ThreadEnds, StopService, vars, evars
  <2>2. CallsGoOn
    BY <1>7, GoingOn
  <2>3. QED BY <1>1, <1>3, <2>1, <2>2
<1>8. QED BY <1>1, <1>2, <1>3, <1>4, <1>5, <1>6, <1>7, GoingOn DEF Next

(* The calls of the workers go on in between without touching the rest. *)
LEMMA GoingOnKeeps ==
  ASSUME IInv, CallsGoOn, TypeOK'
  PROVE  WorkersCall' /\ BatchesAreAccounted' /\ WorkersEnd' /\ ResultsAreComplete'
<1> USE DEF IInv, TypeOK, CallsGoOn, Sending, Live
<1>1. WorkersCall'
  BY DEF WorkersCall
<1>2. BatchesAreAccounted'
  BY DEF BatchesAreAccounted
<1>3. WorkersEnd' /\ ResultsAreComplete'
  BY DEF WorkersEnd, ResultsAreComplete
<1>4. QED BY <1>1, <1>2, <1>3

(* A step of one worker.  The batch it puts down has its vectors or a noted *)
(* failure, or the request is stopping, or the service is.                  *)
LEMMA WorkerKeeps ==
  ASSUME IInv, NEW w \in Workers, WorkerStep(w), TypeOK'
  PROVE  WorkersCall' /\ BatchesAreAccounted' /\ WorkersEnd' /\ ResultsAreComplete'
<1> USE CountAssumption, WorkersAssumption
    DEF IInv, TypeOK, PTypeOK, Batches, NoBatch, Become, PutDown, Sending, Live, Begin, Collect, Enter
<1>1. CASE Take(w)
  <2>1. WorkersCall' /\ WorkersEnd' /\ ResultsAreComplete'
    BY <1>1 DEF Take, WorkersCall, WorkersEnd, ResultsAreComplete
  <2>2. BatchesAreAccounted'
    <3>1. SUFFICES ASSUME ~stopped, NEW b \in Batches, b < next + 1
                   PROVE  b \in results \cup failures \/ \E v \in Workers : batch'[v] = b
      BY <1>1 DEF Take, BatchesAreAccounted
    <3>2. batch'[w] = next /\ \A v \in Workers : v # w => batch'[v] = batch[v]
      BY <1>1 DEF Take
    <3>3. CASE b = next
      BY <3>2, <3>3
    <3>4. CASE b < next
      BY <1>1, <3>1, <3>2, <3>4 DEF Take, WorkersCall, BatchesAreAccounted
    <3>5. QED BY <3>1, <3>3, <3>4
  <2>3. QED BY <2>1, <2>2
<1>2. CASE Exhausted(w)
  BY <1>2 DEF Exhausted, pvars, WorkersCall, WorkersEnd, ResultsAreComplete, BatchesAreAccounted
<1>3. CASE Embedded(w)
  <2>1. WorkersCall' /\ WorkersEnd' /\ ResultsAreComplete'
    BY <1>3 DEF Embedded, WorkersCall, WorkersEnd, ResultsAreComplete
  <2>2. BatchesAreAccounted'
    BY <1>3 DEF Embedded, WorkersCall, BatchesAreAccounted
  <2>3. QED BY <2>1, <2>2
<1>4. CASE Fails(w)
  <2>1. WorkersCall' /\ WorkersEnd' /\ ResultsAreComplete'
    BY <1>4 DEF Fails, WorkersCall, WorkersEnd, ResultsAreComplete
  <2>2. BatchesAreAccounted'
    BY <1>4 DEF Fails, WorkersCall, BatchesAreAccounted
  <2>3. QED BY <2>1, <2>2
<1>5. CASE Dropped(w)
  <2>1. stopped /\ stopped'
    BY <1>5 DEF Dropped, WorkersCall
  <2>2. QED BY <1>5, <2>1 DEF Dropped, WorkersCall, WorkersEnd, ResultsAreComplete, BatchesAreAccounted
<1>6. CASE Unwind(w)
  <2>1. call \in {"stopping", "abandoning"} /\ call' = call
    BY <1>6 DEF Unwind, Stopping
  <2>2. \/ UNCHANGED phase /\ ~Sending(w)
        \/ \E p \in {"idle", "cancelled"} : phase' = [phase EXCEPT ![w] = p]
    BY <1>6 DEF Unwind, CancelCall, Leave, pvars
  <2>3. /\ worker' = [worker EXCEPT ![w] = "cancelled"] /\ batch' = [batch EXCEPT ![w] = NoBatch]
        /\ UNCHANGED <<next, results, failures, call, stopped>>
    BY <1>6 DEF Unwind
  <2>4. WorkersCall'
    <3>1. phase'[w] \in {"idle", "cancelled"} /\ \A v \in Workers : v # w => phase'[v] = phase[v]
      BY <2>2 DEF WorkersCall
    <3>2. QED BY <2>3, <3>1 DEF WorkersCall
  <2>5. WorkersEnd' /\ ResultsAreComplete' /\ BatchesAreAccounted'
    BY <2>1, <2>3 DEF WorkersEnd, ResultsAreComplete, BatchesAreAccounted
  <2>6. QED BY <2>4, <2>5
<1>7. QED BY <1>1, <1>2, <1>3, <1>4, <1>5, <1>6 DEF WorkerStep

(* The vectors are as many as the chunks only when there is one for each. *)
LEMMA AllVectors ==
  ASSUME results \subseteq Batches, Cardinality(results) = Count
  PROVE  results = Batches
<1>1. IsFiniteSet(Batches) /\ Cardinality(Batches) = Count
  BY CountAssumption, FS_Interval DEF Batches
<1>2. Cardinality(results) = Cardinality(Batches) => results = Batches
  BY <1>1, FS_Subset
<1>3. QED BY <1>1, <1>2

(* The request itself: it stops because a worker failed, because every      *)
(* batch is done, or because the service dropped the calls; it ends when    *)
(* no worker is left.                                                       *)
LEMMA RequestKeeps ==
  ASSUME IInv, Wakes \/ CancelCaller \/ Finish \/ Store
  PROVE  WorkersCall' /\ BatchesAreAccounted' /\ WorkersEnd' /\ ResultsAreComplete'
<1> USE CountAssumption, WorkersAssumption DEF IInv, TypeOK, Batches, NoBatch, Sending, Live, pvars, Stopping
<1>1. CASE Wakes
  <2>1. WorkersCall' /\ BatchesAreAccounted' /\ WorkersEnd'
    BY <1>1 DEF Wakes, WorkersCall, BatchesAreAccounted, WorkersEnd
  <2>2. ASSUME ~stopped, failures = {} PROVE results = Batches
    <3>1. PICK w \in Workers : TRUE
      OBVIOUS
    <3>2. \A v \in Workers : worker[v] = "ended"
      BY <1>1, <2>2 DEF Wakes, WorkersEnd
    <3>3. next = Count + 1 /\ \A v \in Workers : batch[v] = NoBatch
      BY <3>1, <3>2 DEF WorkersEnd, WorkersCall
    <3>4. ASSUME NEW b \in Batches PROVE b \in results
      <4>1. b < next /\ \A v \in Workers : batch[v] # b
        BY <3>3
      <4>2. QED BY <1>1, <2>2, <4>1 DEF Wakes, BatchesAreAccounted
    <3>5. QED BY <3>4
  <2>3. ResultsAreComplete'
    BY <1>1, <2>2 DEF Wakes, ResultsAreComplete
  <2>4. QED BY <2>1, <2>3
<1>2. CASE CancelCaller
  BY <1>2 DEF CancelCaller, WorkersCall, BatchesAreAccounted, WorkersEnd, ResultsAreComplete
<1>3. CASE Finish
  BY <1>3 DEF Finish, WorkersCall, BatchesAreAccounted, WorkersEnd, ResultsAreComplete
<1>4. CASE Store
  BY <1>4, AllVectors DEF Store, WorkersCall, BatchesAreAccounted, WorkersEnd, ResultsAreComplete
<1>5. QED BY <1>1, <1>2, <1>3, <1>4

LEMMA RequestStep == IInv /\ [Next]_vars => IInv'
<1> SUFFICES ASSUME IInv, [Next]_vars PROVE IInv'
  OBVIOUS
<1>1. TypeOK' /\ CallsInv'
  BY RequestTypes
<1>2. TypeOK /\ CallsInv
  BY DEF IInv
<1>3. WorkersCall' /\ BatchesAreAccounted' /\ WorkersEnd' /\ ResultsAreComplete'
  BY <1>1, <1>2, GoingOn, GoingOnKeeps, WorkerKeeps, RequestKeeps DEF Next
<1>4. QED BY <1>1, <1>3 DEF IInv

LEMMA RequestInvariant == Spec => []IInv
  BY RequestInitially, RequestStep, PTL DEF Spec
-----------------------------------------------------------------------------
(* Every variable of an embedding request and of the calls keeps its type. *)
THEOREM TypeCorrect == Spec => []TypeOK
<1>1. IInv => TypeOK
  BY DEF IInv
<1>2. QED BY <1>1, RequestInvariant, PTL

(* A request does nothing with the transport that ProviderCalls does not. *)
THEOREM UsesTheTransport == Spec => PSpec
<1>1. Init => PInit
  BY DEF Init
<1>2. QED BY <1>1, RequestCalls, PTL DEF Spec, PSpec

(* The calls take and give back provider slots as the limiter promises them. *)
THEOREM CallsUseTheirSlots == PSpec => PUsesItsSlots
<1>1. PInit => Holders = {}
  BY DEF PInit, Holders, InPhase
<1>2. PTypeOK /\ [PNext]_pvars => [ProviderSlots!Next]_Holders
  <2> SUFFICES ASSUME PTypeOK, [PNext]_pvars PROVE [ProviderSlots!Next]_Holders
    OBVIOUS
  <2>1. ProviderSlots!Cardinality(Holders) = Cardinality(Holders)
    BY Zenon DEF ProviderSlots!Cardinality, Cardinality
  <2>2. CASE Holders' \subseteq Holders
    BY <2>2 DEF ProviderSlots!Next, ProviderSlots!GoOut
  <2>3. CASE \E c \in Callers \ Holders : Holders' = Holders \cup {c} /\ Cardinality(Holders) < Limit
    BY <2>1, <2>3 DEF ProviderSlots!Next, ProviderSlots!ComeIn
  <2>4. QED BY <2>2, <2>3, HoldersChange
<1>3. CallsInv => PTypeOK
  BY DEF CallsInv
<1>4. QED BY <1>1, <1>2, <1>3, CallsInvariant, PTL
             DEF PSpec, PUsesItsSlots, ProviderSlots!Spec, ProviderSlots!Init

(* Whoever calls and whatever is abandoned: a call with a slot finds a      *)
(* thread unless more calls were abandoned than there are spare threads.    *)
THEOREM SpareThreadsSuffice == PSpec => []SpareThreadsServe
  BY CallsInvariant, SpareThreads, PTL

(* No chunk is indexed without its vector, and embed_texts returns fewer    *)
(* vectors than contents only when the service stops.                       *)
THEOREM VectorsAreComplete == Spec => []OnlyCompleteVectorsAreIndexed
<1>1. IInv => OnlyCompleteVectorsAreIndexed
  BY DEF IInv, ResultsAreComplete, OnlyCompleteVectorsAreIndexed
<1>2. QED BY <1>1, RequestInvariant, PTL

(* When an index request is answered none of its provider calls goes on. *)
THEOREM CallsEndFirst == Spec => []NoCallOutlivesTheRequest
<1>1. IInv => NoCallOutlivesTheRequest
  BY DEF IInv, WorkersEnd, WorkersCall, NoCallOutlivesTheRequest, Live, Sending
<1>2. QED BY <1>1, RequestInvariant, PTL
=============================================================================
