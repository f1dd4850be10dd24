---------------------------- MODULE ProviderCalls ----------------------------
(***************************************************************************)
(* call_provider_with_timeout (app/infra/gemini/transport.py) and the      *)
(* provider threads it runs on (app/core/concurrency.py).  One call is a   *)
(* loop of attempts; an attempt takes a provider slot, then a thread, and  *)
(* ends by an answer, an error or its deadline.  A deadline or a           *)
(* cancellation ends the await only: the thread stays with the SDK until   *)
(* the SDK's own timeout.  The slots are WorkloadLimiter's promise: at     *)
(* most Limit callers hold one, and every wait for one ends.               *)
(* Time is counted in units of PROVIDER_RATE_LIMIT_MIN_WAIT_SECONDS.       *)
(***************************************************************************)
EXTENDS Integers, FiniteSets

CONSTANTS Callers,        \* the coroutines that make provider calls
          Patient,        \* those that pass rate_limit_max_wait_ms (AI ID)
          Limit,          \* provider slots
          ThreadsPerSlot, \* PROVIDER_THREADS_PER_SLOT
          MaxAttempts,    \* PROVIDER_TRANSIENT_MAX_ATTEMPTS
          MaxWait,        \* rate_limit_max_wait_ms
          ShortWait,      \* provider_retry_max_ms
          Delays          \* waits the server hints at, or the backoff computes

ASSUME CallersAssumption == IsFiniteSet(Callers) /\ Patient \subseteq Callers
ASSUME LimitsAssumption == /\ Limit \in Nat \ {0} /\ ThreadsPerSlot \in Nat \ {0}
                           /\ MaxAttempts \in Nat \ {0}
ASSUME WaitsAssumption == MaxWait \in Nat /\ ShortWait \in Nat /\ Delays \subseteq Nat

MinWait == 1
Threads == ThreadsPerSlot * Limit

VARIABLES phase,    \* where the call of a caller is; "idle" between calls
          attempt,  \* transient attempts used, the current one included
          retries,  \* rate_limit_retries
          waited,   \* rate_limit_waited_seconds
          backoff,  \* is the caller asleep after a rate limit, which gives the attempt back?
          zombies,  \* threads whose await ended before the SDK call
          old       \* callers served by threads of an executor that was shut down

pvars == <<phase, attempt, retries, waited, backoff, zombies, old>>

\* "slot": waits for a provider slot; "queued", "running": holds one, its SDK call waits
\* for a thread or has one; "sleeping": between two attempts.
Phases == {"idle", "slot", "queued", "running", "sleeping", "answered", "failed", "cancelled"}

PInit == /\ phase = [c \in Callers |-> "idle"]
         /\ attempt = [c \in Callers |-> 0]
         /\ retries = [c \in Callers |-> 0]
         /\ waited = [c \in Callers |-> 0]
         /\ backoff = [c \in Callers |-> FALSE]
         /\ zombies = 0
         /\ old = {}

InPhase(p) == {c \in Callers : phase[c] = p}
Holders == InPhase("queued") \cup InPhase("running")
FreeThread == Cardinality(InPhase("running") \ old) + zombies < Threads

Enter(c, p) == phase' = [phase EXCEPT ![c] = p]
Counters == <<attempt, retries, waited, backoff>>

\* The call of every caller in C returns or raises: its local variables are gone.
Forget(C) ==
  /\ attempt' = [c \in Callers |-> IF c \in C THEN 0 ELSE attempt[c]]
  /\ retries' = [c \in Callers |-> IF c \in C THEN 0 ELSE retries[c]]
  /\ waited' = [c \in Callers |-> IF c \in C THEN 0 ELSE waited[c]]
  /\ backoff' = [c \in Callers |-> backoff[c] /\ c \notin C]
Leave(c, outcome) == Enter(c, outcome) /\ Forget({c})
Retry(c) == Enter(c, "sleeping") /\ UNCHANGED Counters

\* The await of an attempt is over; a running SDK call keeps its thread, of which the
\* present executor knows only if it is its own.
LeaveThread(c) ==
  /\ zombies' = IF phase[c] = "running" /\ c \notin old THEN zombies + 1 ELSE zombies
  /\ old' = old \ {c}
\* The SDK call itself is over: its thread is free.
FreeOwnThread(c) == old' = old \ {c} /\ UNCHANGED zombies

Begin(c) ==
  /\ phase[c] = "idle" /\ Enter(c, "slot")
  /\ attempt' = [attempt EXCEPT ![c] = 1]
  /\ UNCHANGED <<retries, waited, backoff, zombies, old>>

\* Mutant of GetSlot: the limiter admits one caller too many.
GetSlotTooMany(c) ==
  /\ phase[c] = "slot" /\ Cardinality(Holders) <= Limit
  /\ Enter(c, "queued") /\ UNCHANGED <<Counters, zombies, old>>

GetSlot(c) ==
  /\ phase[c] = "slot" /\ Cardinality(Holders) < Limit
  /\ Enter(c, "queued") /\ UNCHANGED <<Counters, zombies, old>>

\* The wait for a slot is over its bound: SERVICE_BUSY, not retried.
Busy(c) == phase[c] = "slot" /\ Leave(c, "failed") /\ UNCHANGED <<zombies, old>>

\* A thread of the executor takes a queued call.
StartThread(c) ==
  /\ phase[c] = "queued" /\ FreeThread
  /\ Enter(c, "running") /\ UNCHANGED <<Counters, zombies, old>>

Succeed(c) == phase[c] = "running" /\ Leave(c, "answered") /\ FreeOwnThread(c)

\* asyncio.wait_for expires, in a thread or still in the executor's queue: AI_PROVIDER_TIMEOUT.
TimeOut(c) == c \in Holders /\ Leave(c, "failed") /\ LeaveThread(c)

\* An exhausted key, or an error that is neither a limit nor transient.
Refused(c) == phase[c] = "running" /\ Leave(c, "failed") /\ FreeOwnThread(c)

\* A 429 that is a rate limit, for a caller that set a bound on its waits.  The floor
\* keeps a hint of no time at all from looping.
RateLimited(c) ==
  /\ phase[c] = "running" /\ c \in Patient /\ FreeOwnThread(c)
  /\ \E d \in Delays :
       LET candidate == IF d < MinWait THEN MinWait ELSE d IN
       \/ /\ waited[c] + candidate <= MaxWait /\ Enter(c, "sleeping")
          /\ waited' = [waited EXCEPT ![c] = @ + candidate]
          /\ retries' = [retries EXCEPT ![c] = @ + 1]
          /\ backoff' = [backoff EXCEPT ![c] = TRUE]
          /\ UNCHANGED attempt
       \/ waited[c] + candidate > MaxWait /\ Leave(c, "failed")

\* The same for everybody else: one more attempt when the hint is short and one is left.
RateLimitedLegacy(c) ==
  /\ phase[c] = "running" /\ c \notin Patient /\ FreeOwnThread(c)
  /\ \E d \in Delays :
       LET retried == d <= ShortWait /\ attempt[c] < MaxAttempts IN
       IF retried THEN Retry(c) ELSE Leave(c, "failed")

\* A 5xx or UNAVAILABLE: another attempt while one is left, AI_PROVIDER_UNAVAILABLE after.
Transient(c) ==
  /\ phase[c] = "running" /\ FreeOwnThread(c)
  /\ IF attempt[c] < MaxAttempts THEN Retry(c) ELSE Leave(c, "failed")

\* The next round of the loop; a rate-limit wait gave its attempt back.
Wake(c) ==
  /\ phase[c] = "sleeping" /\ Enter(c, "slot")
  /\ attempt' = [attempt EXCEPT ![c] = IF backoff[c] THEN @ ELSE @ + 1]
  /\ backoff' = [backoff EXCEPT ![c] = FALSE]
  /\ UNCHANGED <<retries, waited, zombies, old>>

\* The caller is cancelled while it waits; a queued SDK call is taken out of the queue.
CancelCall(c) ==
  /\ phase[c] \in {"slot", "queued", "running", "sleeping"}
  /\ Leave(c, "cancelled") /\ LeaveThread(c)

\* The caller takes the result.
Collect(c) ==
  /\ phase[c] \in {"answered", "failed", "cancelled"}
  /\ Enter(c, "idle") /\ UNCHANGED <<Counters, zombies, old>>

\* The SDK's own deadline ends an abandoned call.
ZombieEnds ==
  /\ zombies > 0 /\ zombies' = zombies - 1
  /\ UNCHANGED <<phase, Counters, old>>

\* ConcurrencyRuntime.shutdown: the executor is dropped, its queued calls are cancelled;
\* the next call makes a new executor.
Shutdown ==
  /\ phase' = [c \in Callers |-> IF phase[c] = "queued" THEN "cancelled" ELSE phase[c]]
  /\ Forget(InPhase("queued"))
  /\ old' = InPhase("running")
  /\ zombies' = 0

Attempt(c) == \/ GetSlot(c) \/ Busy(c) \/ StartThread(c) \/ Succeed(c) \/ TimeOut(c) \/ Refused(c)
              \/ RateLimited(c) \/ RateLimitedLegacy(c) \/ Transient(c) \/ Wake(c)
PNext == \/ \E c \in Callers : Begin(c) \/ Attempt(c) \/ CancelCall(c) \/ Collect(c)
         \/ ZombieEnds \/ Shutdown

PSpec == PInit /\ [][PNext]_pvars
-----------------------------------------------------------------------------
PTypeOK ==
  /\ phase \in [Callers -> Phases]
  /\ attempt \in [Callers -> 0 .. MaxAttempts]
  /\ retries \in [Callers -> Nat] /\ waited \in [Callers -> 0 .. MaxWait]
  /\ backoff \in [Callers -> BOOLEAN]
  /\ zombies \in 0 .. Threads
  /\ old \subseteq InPhase("running")

\* "every slot's call can time out and be replaced while the timed-out threads finish"
\* (PROVIDER_THREADS_PER_SLOT): an admitted call finds no thread only when more calls were
\* abandoned than the spare threads stand for.
SpareThreadsServe ==
  InPhase("queued") # {} /\ ~FreeThread => zombies > (ThreadsPerSlot - 1) * Limit

ProviderSlots == INSTANCE Slots WITH inside <- Holders

\* The calls presume no more of the provider slots than the limiter promises: they take one
\* at a time, and a shutdown of the executors may free several at once.
PUsesItsSlots == ProviderSlots!Spec
=============================================================================
