------------------------------ MODULE ChildRuns ------------------------------
(***************************************************************************)
(* ConcurrencyRuntime.run_in_child and shutdown (app/core/concurrency.py)  *)
(* with ChildProcess (app/core/child_process.py, Linux): the event loop    *)
(* waits, a worker thread starts the child, talks to it and reaps it, and  *)
(* the loop kills it when the caller is cancelled or the service stops.    *)
(* Steps of the loop that belong to one synchronous stretch of code are    *)
(* not interleaved with other steps of the loop, but with the threads.     *)
(***************************************************************************)
EXTENDS Integers, FiniteSets

CONSTANTS Runs,     \* calls of run_in_child
          Workers,  \* cpu_workers: slots of the CPU limiter, threads of an executor
          NoRun

ASSUME RunsAssumption == IsFiniteSet(Runs) /\ NoRun \notin Runs
ASSUME WorkersAssumption == Workers \in Nat \ {0}

VARIABLES await,     \* the coroutine; "awaiting" and "killing" hold a CPU slot
          thread,    \* where the worker thread of a run is
          child,     \* the child process
          reply,     \* what it wrote to its stdout: "none", "part" or "whole"
          flag,      \* _ChildRun._cancelled
          known,     \* is _ChildRun._child set?
          killed,    \* ChildProcess._killed
          outcome,   \* what the caller is told: "none", "sections" or "error"
          runs,      \* ConcurrencyRuntime._child_runs
          todo, aim, \* the loop: runs still to cancel; the one whose returncode it just read
          service,   \* "up", "stopping" (shutdown() has its set of runs) or "down"
          old,       \* runs served by threads of the executor that was shut down
          stray      \* was a process group signalled after its child was reaped?

cvars == <<await, thread, child, reply, flag, known, killed, outcome, runs, todo, aim,
          service, old, stray>>
threadSide == <<thread, child, reply, known, outcome, old>>

CInit == /\ await = [r \in Runs |-> "new"]
         /\ thread = [r \in Runs |-> "none"]
         /\ child = [r \in Runs |-> "none"]
         /\ reply = [r \in Runs |-> "none"]
         /\ flag = [r \in Runs |-> FALSE]
         /\ known = [r \in Runs |-> FALSE]
         /\ killed = [r \in Runs |-> FALSE]
         /\ outcome = [r \in Runs |-> "none"]
         /\ runs = {} /\ todo = {} /\ aim = NoRun
         /\ service = "up" /\ old = {} /\ stray = FALSE

LoopFree == todo = {} /\ aim = NoRun
LoopIdle == LoopFree /\ service # "stopping"
HoldsSlot(r) == await[r] \in {"awaiting", "killing"}
Holders == {r \in Runs : HoldsSlot(r)}
BusyThreads == {r \in Runs \ old : thread[r] \notin {"none", "queued", "dropped", "done"}}
Alive(r) == child[r] \in {"idle", "parsing"}
ThreadOver(r) == thread[r] \in {"dropped", "done"}
To(r, t) == thread' = [thread EXCEPT ![r] = t]
Child(r, s) == child' = [child EXCEPT ![r] = s]
-----------------------------------------------------------------------------
\* The event loop.  A slot, an entry in _child_runs and a job for the executor.
Begin(r) ==
  /\ LoopIdle /\ await[r] = "new" /\ Cardinality(Holders) < Workers
  /\ await' = [await EXCEPT ![r] = "awaiting"]
  /\ runs' = runs \cup {r}
  /\ To(r, "queued")
  /\ UNCHANGED <<child, reply, flag, known, killed, outcome, todo, aim, service, old, stray>>

Return(r) ==
  /\ LoopIdle /\ await[r] = "awaiting" /\ thread[r] = "done"
  /\ await' = [await EXCEPT ![r] = "returned"]
  /\ runs' = runs \ {r}
  /\ UNCHANGED <<threadSide, flag, killed, todo, aim, service, stray>>

\* Mutant of CancelRun: the await ends and nobody tells the child.
CancelAwaitOnly(r) ==
  /\ LoopIdle /\ await[r] = "awaiting"
  /\ await' = [await EXCEPT ![r] = "killing"]
  /\ To(r, IF thread[r] = "queued" THEN "dropped" ELSE thread[r])
  /\ UNCHANGED <<child, reply, flag, known, killed, outcome, runs, todo, aim, service, old, stray>>

\* The await raises CancelledError: its caller was cancelled (a queued job is then taken
\* out of the queue), or the executor dropped the job.
CancelRun(r) ==
  /\ LoopIdle /\ await[r] = "awaiting"
  /\ await' = [await EXCEPT ![r] = "killing"]
  /\ todo' = {r}
  /\ To(r, IF thread[r] = "queued" THEN "dropped" ELSE thread[r])
  /\ UNCHANGED <<child, reply, flag, known, killed, outcome, runs, aim, service, old, stray>>
Dropped(r) == thread[r] = "dropped" /\ CancelRun(r)

\* _ChildRun.cancel and the first half of ChildProcess.kill, up to the look at returncode.
CancelChild(r) ==
  /\ r \in todo /\ aim = NoRun /\ todo' = todo \ {r}
  /\ flag' = [flag EXCEPT ![r] = TRUE]
  /\ killed' = [killed EXCEPT ![r] = @ \/ known[r]]
  /\ aim' = IF known[r] /\ child[r] # "reaped" THEN r ELSE NoRun
  /\ UNCHANGED <<threadSide, await, runs, service, stray>>

\* os.killpg: the group of a reaped child may by now belong to another process.
Signal(r) ==
  /\ aim = r /\ aim' = NoRun
  /\ Child(r, IF Alive(r) THEN "dying" ELSE child[r])
  /\ stray' = (stray \/ child[r] = "reaped")
  /\ UNCHANGED <<await, thread, reply, flag, known, killed, outcome, runs, todo, service, old>>

\* The thread is over, CHILD_KILL_WAIT_SECONDS are over, or the caller is cancelled again:
\* the wait ends and the slot is given back.
Forsake(r) ==
  /\ LoopIdle /\ await[r] = "killing"
  /\ await' = [await EXCEPT ![r] = "cancelled"]
  /\ runs' = runs \ {r}
  /\ UNCHANGED <<threadSide, flag, killed, todo, aim, service, stray>>

\* shutdown() takes the set of runs and cancels them.
Stop ==
  /\ LoopIdle /\ service = "up" /\ service' = "stopping"
  /\ todo' = runs /\ runs' = {}
  /\ UNCHANGED <<threadSide, await, flag, killed, aim, stray>>

\* ... then it drops the executor and the jobs still queued; the next job gets a new one.
DropExecutor ==
  /\ LoopFree /\ service = "stopping" /\ service' = "down"
  /\ thread' = [r \in Runs |-> IF thread[r] = "queued" THEN "dropped" ELSE thread[r]]
  /\ old' = BusyThreads
  /\ UNCHANGED <<await, child, reply, flag, known, killed, outcome, runs, todo, aim, stray>>
-----------------------------------------------------------------------------
\* The worker thread: _ChildRun.run.
Start(r) ==
  /\ thread[r] = "queued" /\ Cardinality(BusyThreads) < Workers
  /\ To(r, "starting")
  /\ UNCHANGED <<await, child, reply, flag, known, killed, outcome, runs, todo, aim, service, old, stray>>

Spawn(r) ==
  /\ thread[r] = "starting"
  /\ To(r, "spawned") /\ Child(r, "idle")
  /\ UNCHANGED <<await, reply, flag, known, killed, outcome, runs, todo, aim, service, old, stray>>

SpawnFails(r) ==
  /\ thread[r] = "starting"
  /\ To(r, "done") /\ outcome' = [outcome EXCEPT ![r] = "error"]
  /\ UNCHANGED <<await, child, reply, flag, known, killed, runs, todo, aim, service, old, stray>>

\* Mutant of Register: the flag is not looked at again.
RegisterBlindly(r) ==
  /\ thread[r] = "spawned"
  /\ known' = [known EXCEPT ![r] = TRUE]
  /\ To(r, "sending")
  /\ UNCHANGED <<await, child, reply, flag, killed, outcome, runs, todo, aim, service, old, stray>>

\* Under the lock of the run: either this step sees the flag, or cancel() sees the child.
Register(r) ==
  /\ thread[r] = "spawned"
  /\ known' = [known EXCEPT ![r] = TRUE]
  /\ To(r, IF flag[r] THEN "dooming" ELSE "sending")
  /\ UNCHANGED <<await, child, reply, flag, killed, outcome, runs, todo, aim, service, old, stray>>

\* The thread's own kill: of a child cancelled while it started, or of an oversized reply.
\* Nobody else reaps, so the child cannot go between the look at returncode and the signal.
KillOwn(r, next) ==
  /\ killed' = [killed EXCEPT ![r] = TRUE]
  /\ Child(r, IF Alive(r) THEN "dying" ELSE child[r])
  /\ To(r, next)
  /\ UNCHANGED <<await, reply, flag, known, outcome, runs, todo, aim, service, old, stray>>

Doom(r) == thread[r] = "dooming" /\ KillOwn(r, "sending")

\* exchange: the request reaches a child that still lives.
Send(r) ==
  /\ thread[r] = "sending" /\ To(r, "reading")
  /\ Child(r, IF child[r] = "idle" THEN "parsing" ELSE child[r])
  /\ UNCHANGED <<await, reply, flag, known, killed, outcome, runs, todo, aim, service, old, stray>>

TooLarge(r) == thread[r] = "reading" /\ child[r] = "parsing" /\ reply[r] = "part" /\ KillOwn(r, "reading")

\* The reply ended with the child: wait() reaps it.
Reap(r) ==
  /\ thread[r] = "reading" /\ child[r] \in {"exited", "crashed"}
  /\ To(r, IF child[r] = "exited" THEN "served" ELSE "crashed") /\ Child(r, "reaped")
  /\ UNCHANGED <<await, reply, flag, known, killed, outcome, runs, todo, aim, service, old, stray>>

\* The outcome, and what sections_from_outcome makes of it; close() finds nothing to kill.
Close(r) ==
  /\ thread[r] \in {"served", "crashed"} /\ To(r, "done")
  /\ outcome' = [outcome EXCEPT ![r] = IF thread[r] = "served" /\ ~killed[r] THEN "sections" ELSE "error"]
  /\ UNCHANGED <<await, child, reply, flag, known, killed, runs, todo, aim, service, old, stray>>

ThreadStep(r) == \/ Start(r) \/ Spawn(r) \/ SpawnFails(r) \/ Register(r) \/ Doom(r) \/ Send(r)
                 \/ TooLarge(r) \/ Reap(r) \/ Close(r)
-----------------------------------------------------------------------------
\* The child (extract_worker): it answers, crashes with part of a reply, or never returns.
\* It writes its reply while it parses nothing more, and exits 0 after the last byte.
childOnly == <<await, thread, flag, known, killed, outcome, runs, todo, aim, service, old, stray>>
Write(r) ==
  /\ child[r] = "parsing" /\ reply[r] = "none"
  /\ reply' = [reply EXCEPT ![r] = "part"] /\ UNCHANGED <<childOnly, child>>
ExitChild(r) ==
  /\ child[r] = "parsing" /\ reply[r] = "part"
  /\ reply' = [reply EXCEPT ![r] = "whole"] /\ Child(r, "exited") /\ UNCHANGED childOnly
Crash(r) == Alive(r) /\ Child(r, "crashed") /\ UNCHANGED <<childOnly, reply>>
Die(r) == child[r] = "dying" /\ Child(r, "crashed") /\ UNCHANGED <<childOnly, reply>>

CNext == \/ \E r \in Runs : \/ Begin(r) \/ Return(r) \/ CancelRun(r) \/ CancelChild(r) \/ Signal(r)
                            \/ Forsake(r) \/ ThreadStep(r) \/ Write(r) \/ ExitChild(r) \/ Crash(r) \/ Die(r)
         \/ Stop \/ DropExecutor

CSpec == CInit /\ [][CNext]_cvars

\* The loop and the threads run, a killed process ends; a child need never answer.
CFairness == /\ \A r \in Runs : /\ WF_cvars(CancelChild(r)) /\ WF_cvars(Signal(r))
                                /\ WF_cvars(ThreadStep(r)) /\ WF_cvars(Die(r))
                                /\ WF_cvars(Return(r)) /\ WF_cvars(Forsake(r)) /\ WF_cvars(Dropped(r))
             /\ WF_cvars(DropExecutor)
CFairSpec == CSpec /\ CFairness
-----------------------------------------------------------------------------
\* Every variable keeps its type.
CTypeOK ==
  /\ await \in [Runs -> {"new", "awaiting", "killing", "returned", "cancelled"}]
  /\ thread \in [Runs -> {"none", "queued", "starting", "spawned", "dooming", "sending", "reading",
                          "served", "crashed", "dropped", "done"}]
  /\ child \in [Runs -> {"none", "idle", "parsing", "exited", "crashed", "dying", "reaped"}]
  /\ reply \in [Runs -> {"none", "part", "whole"}]
  /\ flag \in [Runs -> BOOLEAN] /\ known \in [Runs -> BOOLEAN] /\ killed \in [Runs -> BOOLEAN]
  /\ outcome \in [Runs -> {"none", "sections", "error"}]
  /\ runs \subseteq Runs /\ todo \subseteq Runs /\ aim \in Runs \cup {NoRun}
  /\ service \in {"up", "stopping", "down"} /\ old \subseteq Runs /\ stray \in BOOLEAN

\* "the CPU slot is given back once the child is gone" (run_in_child), as far as it holds:
\* a child that was not killed works under a slot; when the slot went first, the child was
\* killed or, cancelled while it was starting, will be before it gets its request.
UnkilledChildHoldsASlot ==
  \A r \in Runs : Alive(r) /\ ~HoldsSlot(r) =>
    flag[r] /\ child[r] = "idle" /\ thread[r] \in {"spawned", "dooming"}

\* A run that was cancelled, or dropped with its executor, ends for its caller and leaves
\* no child and no thread behind, even when the parser never returns.
CancelledRunEnds ==
  \A r \in Runs : await[r] = "killing" \/ thread[r] = "dropped" ~>
    await[r] = "cancelled" /\ ThreadOver(r) /\ child[r] \in {"none", "reaped"}

\* "not reaped yet: its process group id is still its own" (_kill_tree).
SignalsItsOwnGroup == ~stray

CpuSlots == INSTANCE Slots WITH Callers <- Runs, Limit <- Workers, inside <- Holders

\* The runs presume no more of the CPU slots than the limiter promises, whatever the service
\* that stops does with their executor.
UsesItsSlots == CpuSlots!Spec
=============================================================================
