---------------------------- MODULE EmbedBatches ----------------------------
(***************************************************************************)
(* embed_texts (app/infra/gemini/calls.py) for one index request: the      *)
(* batches are sent by several workers that share one iterator, each batch *)
(* is a call of ProviderCalls.  The first failure or a cancelled caller    *)
(* cancels the workers and waits for them.  Other callers of the service   *)
(* use the same slots and threads, and the service may stop meanwhile.     *)
(***************************************************************************)
EXTENDS ProviderCalls

CONSTANTS Workers,   \* min(embedding_concurrency, number of batches)
          Count      \* number of batches

Batches == 1 .. Count
NoBatch == 0
Others == Callers \ Workers

ASSUME CountAssumption == Count \in Nat \ {0}
ASSUME WorkersAssumption == Workers # {} /\ Workers \subseteq Callers

VARIABLES next,      \* the batch the shared iterator gives next
          worker,    \* "ready", "sending", "ended", "failed" or "cancelled"
          batch,     \* the batch a worker sends
          results,   \* batches with their vectors in place
          failures,  \* batches whose error was noted
          call,      \* how far the request is; "abandoning": stopping for a cancelled caller
          stopped    \* did the service shut its executors down?

evars == <<next, worker, batch, results, failures, call, stopped>>
vars == <<pvars, evars>>

Init == /\ PInit
        /\ next = 1
        /\ worker = [w \in Workers |-> "ready"]
        /\ batch = [w \in Workers |-> NoBatch]
        /\ results = {} /\ failures = {}
        /\ call = "running" /\ stopped = FALSE

Live(w) == worker[w] \in {"ready", "sending"}
Sending(w) == worker[w] = "sending"
Become(w, s) == worker' = [worker EXCEPT ![w] = s]
PutDown(w) == batch' = [batch EXCEPT ![w] = NoBatch]

\* for index in next_batches: the workers share the iterator.
Take(w) ==
  /\ call = "running" /\ worker[w] = "ready" /\ next <= Count
  /\ Begin(w)
  /\ batch' = [batch EXCEPT ![w] = next]
  /\ next' = next + 1
  /\ Become(w, "sending")
  /\ UNCHANGED <<results, failures, call, stopped>>

Exhausted(w) ==
  /\ call = "running" /\ worker[w] = "ready" /\ next > Count
  /\ Become(w, "ended")
  /\ UNCHANGED <<pvars, next, batch, results, failures, call, stopped>>

Embedded(w) ==
  /\ call = "running" /\ Sending(w) /\ phase[w] = "answered" /\ Collect(w)
  /\ results' = results \cup {batch[w]}
  /\ PutDown(w) /\ Become(w, "ready")
  /\ UNCHANGED <<next, failures, call, stopped>>

\* Mutant of Fails: the worker swallows the error and goes on.
FailsOn(w) ==
  /\ call = "running" /\ Sending(w) /\ phase[w] = "failed" /\ Collect(w)
  /\ PutDown(w) /\ Become(w, "ready")
  /\ UNCHANGED <<next, results, failures, call, stopped>>

\* The transport gave up: the error is noted and raised.
Fails(w) ==
  /\ call = "running" /\ Sending(w) /\ phase[w] = "failed" /\ Collect(w)
  /\ failures' = failures \cup {batch[w]}
  /\ PutDown(w) /\ Become(w, "failed")
  /\ UNCHANGED <<next, results, call, stopped>>

\* The executor cancelled the queued SDK call: a CancelledError is no Exception, so the
\* worker ends without a noted failure, and asyncio.wait does not take it for one.
Dropped(w) ==
  /\ call = "running" /\ Sending(w) /\ phase[w] = "cancelled" /\ Collect(w)
  /\ PutDown(w) /\ Become(w, "cancelled")
  /\ UNCHANGED <<next, results, failures, call, stopped>>

\* _until_first_failure wakes up: every worker ended or one failed.  Workers may take
\* steps between the failure and this one.
Wakes ==
  /\ call = "running"
  /\ (\E w \in Workers : worker[w] = "failed") \/ (\A w \in Workers : ~Live(w))
  /\ call' = "stopping"
  /\ UNCHANGED <<pvars, next, worker, batch, results, failures, stopped>>

\* A cancelled caller stops the workers too; one that already waits for them goes on
\* waiting (gather ends after its parts).
CancelCaller ==
  /\ call \in {"running", "stopping"}
  /\ call' = "abandoning"
  /\ UNCHANGED <<pvars, next, worker, batch, results, failures, stopped>>

Stopping == call \in {"stopping", "abandoning"}

\* Mutant of Unwind: the worker takes its cancellation for an error of the batch.
UnwindSwallowed(w) ==
  /\ Stopping /\ Live(w)
  /\ IF Sending(w) THEN CancelCall(w) \/ Collect(w) ELSE UNCHANGED pvars
  /\ PutDown(w) /\ Become(w, "ready")
  /\ UNCHANGED <<next, results, failures, call, stopped>>

\* A cancelled worker: its call is cancelled at its await, or its result is dropped.
Unwind(w) ==
  /\ Stopping /\ Live(w)
  /\ IF Sending(w) THEN CancelCall(w) \/ Collect(w) ELSE UNCHANGED pvars
  /\ PutDown(w) /\ Become(w, "cancelled")
  /\ UNCHANGED <<next, results, failures, call, stopped>>

\* Mutant of Finish: the cancelled workers are not awaited.
FinishAtOnce ==
  /\ Stopping
  /\ call' = IF call = "abandoning" THEN "cancelled" ELSE IF failures # {} THEN "raised" ELSE "returned"
  /\ UNCHANGED <<pvars, next, worker, batch, results, failures, stopped>>

\* Every worker is over: the caller raises, or returns what vectors there are.
Finish ==
  /\ Stopping /\ \A w \in Workers : ~Live(w)
  /\ call' = IF call = "abandoning" THEN "cancelled" ELSE IF failures # {} THEN "raised" ELSE "returned"
  /\ UNCHANGED <<pvars, next, worker, batch, results, failures, stopped>>

\* Mutant of Store: the number of vectors is not compared with the number of chunks.
StoreUnchecked ==
  /\ call = "returned"
  /\ call' = "indexed"
  /\ UNCHANGED <<pvars, next, worker, batch, results, failures, stopped>>

\* _index_document compares the number of vectors with the number of chunks.
Store ==
  /\ call = "returned"
  /\ call' = IF Cardinality(results) = Count THEN "indexed" ELSE "raised"
  /\ UNCHANGED <<pvars, next, worker, batch, results, failures, stopped>>

\* Every other caller of the service.
OtherCalls(c) == (Begin(c) \/ CancelCall(c) \/ Collect(c)) /\ UNCHANGED evars
Serve(c) == Attempt(c) /\ UNCHANGED evars
ThreadEnds == ZombieEnds /\ UNCHANGED evars
StopService == /\ ~stopped /\ stopped' = TRUE /\ Shutdown
               /\ UNCHANGED <<next, worker, batch, results, failures, call>>

WorkerStep(w) == Take(w) \/ Exhausted(w) \/ Embedded(w) \/ Fails(w) \/ Dropped(w) \/ Unwind(w)
Next == \/ \E w \in Workers : WorkerStep(w)
        \/ \E c \in Callers : Serve(c)
        \/ \E c \in Others : OtherCalls(c)
        \/ Wakes \/ CancelCaller \/ Finish \/ Store \/ ThreadEnds \/ StopService

Spec == Init /\ [][Next]_vars

\* Every await of the transport has a deadline and every sleep ends, so each call of a
\* worker goes on (a running call at the latest by its deadline); the event loop serves
\* every task.  Nothing is assumed of the other callers.
Fairness == /\ \A w \in Workers : WF_vars(WorkerStep(w)) /\ WF_vars(Serve(w))
            /\ WF_vars(Wakes) /\ WF_vars(Finish) /\ WF_vars(Store)
FairSpec == Spec /\ Fairness
-----------------------------------------------------------------------------
\* Every variable keeps its type.
TypeOK ==
  /\ PTypeOK
  /\ next \in 1 .. Count + 1
  /\ worker \in [Workers -> {"ready", "sending", "ended", "failed", "cancelled"}]
  /\ batch \in [Workers -> Batches \cup {NoBatch}]
  /\ results \subseteq Batches /\ failures \subseteq Batches
  /\ call \in {"running", "stopping", "abandoning", "returned", "indexed", "raised", "cancelled"}
  /\ stopped \in BOOLEAN

\* No chunk is indexed without its vector: embed_texts may return fewer vectors than
\* contents (it raises only noted failures), but only when the service stops, and the index
\* request then compares the lengths.
OnlyCompleteVectorsAreIndexed ==
  /\ call = "indexed" => results = Batches
  /\ call = "returned" /\ ~stopped => results = Batches

\* "No provider call outlives its request" (_until_first_failure): when the request is
\* answered no worker waits in the transport, holds a slot or sleeps before a retry.
NoCallOutlivesTheRequest ==
  call \in {"returned", "indexed", "raised", "cancelled"} =>
    \A w \in Workers : ~Sending(w) /\ phase[w] \notin {"slot", "queued", "running", "sleeping"}

\* The request ends, whatever the provider answers and the other callers do.
EmbeddingEnds == <>(call \in {"indexed", "raised", "cancelled"})
=============================================================================
