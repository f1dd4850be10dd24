--------------------------- MODULE ServiceLifetime ---------------------------
(***************************************************************************)
(* The service from its start to its exit, and the index requests it       *)
(* serves meanwhile: the two middlewares of app/core/request_context.py,   *)
(* the drain of core/lifespan.py, the database pool of infra/db.py and     *)
(* services/runtime.py, around the except clauses of                       *)
(* services/ingestion/index.py.  A request is two tasks, the one uvicorn   *)
(* runs (outer) and the one DisconnectCancellationMiddleware starts (app); *)
(* closing the row of a cancelled request is a third, shielded one.        *)
(***************************************************************************)
EXTENDS Naturals, FiniteSets

CONSTANT Requests

ASSUME RequestsAssumption == IsFiniteSet(Requests)

VARIABLES
  server,      \* uvicorn and the lifespan
  expired,     \* history: uvicorn's graceful shutdown timed out
  inFlight,    \* RuntimeState.in_flight
  idle,        \* RuntimeState._idle: "none", "clear" or "set"
  drained,     \* what drain() returned: "unknown", "yes" or "no"
  database,    \* DatabaseRuntime and its asyncpg pool
  outer,       \* uvicorn's task of each request
  cancelled,   \* uvicorn has cancelled it, which it does not know yet
  gone,        \* the caller has disconnected
  app,         \* the task that runs the route
  interrupted, \* it has been cancelled, which it does not know yet
  row,         \* the index row of the request
  write,       \* the write that closes the row
  shielded     \* the write survives its request

process == <<server, expired, drained>>
counter == <<inFlight, idle>>
outside == <<outer, cancelled, gone>>
inside == <<app, interrupted, row, write, shielded>>
vars == <<process, counter, database, outside, inside>>

TypeOK ==
  /\ server \in {"starting", "serving", "waiting", "leaving", "draining", "closing", "stopped"}
  /\ expired \in BOOLEAN
  /\ inFlight \in Nat
  /\ idle \in {"none", "clear", "set"}
  /\ drained \in {"unknown", "yes", "no"}
  /\ database \in {"connecting", "retrying", "open", "closing", "closed"}
  /\ outer \in [Requests -> {"none", "buffering", "running", "finishing", "ended"}]
  /\ cancelled \in [Requests -> BOOLEAN]
  /\ gone \in [Requests -> BOOLEAN]
  /\ app \in [Requests -> {"none", "working", "holding", "recording", "done"}]
  /\ interrupted \in [Requests -> BOOLEAN]
  /\ row \in [Requests -> {"none", "running", "learned", "closed"}]
  /\ write \in [Requests -> {"none", "pending", "held", "written", "failed"}]
  /\ shielded \in [Requests -> BOOLEAN]

Live(r) == outer[r] \in {"buffering", "running", "finishing"}
Working(r) == app[r] \in {"working", "holding", "recording"}
Writing(r) == write[r] \in {"pending", "held"}
Holding(r) == app[r] = "holding" \/ write[r] = "held"

Init ==
  /\ server = "starting" /\ expired = FALSE /\ drained = "unknown"
  /\ inFlight = 0 /\ idle = "none"
  /\ database = "connecting"
  /\ outer = [r \in Requests |-> "none"]
  /\ cancelled = [r \in Requests |-> FALSE]
  /\ gone = [r \in Requests |-> FALSE]
  /\ app = [r \in Requests |-> "none"]
  /\ interrupted = [r \in Requests |-> FALSE]
  /\ row = [r \in Requests |-> "none"]
  /\ write = [r \in Requests |-> "none"]
  /\ shielded = [r \in Requests |-> FALSE]

-----------------------------------------------------------------------------
(* RuntimeState *)

BeginRequest ==
  /\ inFlight' = inFlight + 1
  /\ idle' = IF idle = "none" THEN "none" ELSE "clear"

(* Faulty variant: the event is not set for the last request.              *)
EndRequestQuietly == inFlight' = inFlight - 1 /\ UNCHANGED idle

EndRequest ==
  /\ inFlight' = IF inFlight > 0 THEN inFlight - 1 ELSE 0
  /\ idle' = IF inFlight <= 1 /\ idle # "none" THEN "set" ELSE idle

-----------------------------------------------------------------------------
(* The outer task: RequestContextMiddleware counts it,                     *)
(* DisconnectCancellationMiddleware buffers the body and starts the app.   *)

Arrive(r) ==
  /\ server = "serving" /\ outer[r] = "none"
  /\ outer' = [outer EXCEPT ![r] = "buffering"]
  /\ BeginRequest
  /\ UNCHANGED <<process, database, cancelled, gone, inside>>

HangUp(r) ==
  /\ Live(r) /\ ~gone[r]
  /\ gone' = [gone EXCEPT ![r] = TRUE]
  /\ UNCHANGED <<process, counter, database, outer, cancelled, inside>>

(* The body is complete; without a database the route answers 503. *)
Buffered(r) ==
  /\ outer[r] = "buffering" /\ ~cancelled[r]
  /\ outer' = [outer EXCEPT ![r] = "running"]
  /\ app' = [app EXCEPT ![r] = IF database = "open" THEN "working" ELSE "done"]
  /\ UNCHANGED <<process, counter, database, cancelled, gone, interrupted, row, write, shielded>>

(* http.disconnect before the body is complete. *)
LeaveEarly(r) ==
  /\ outer[r] = "buffering" /\ gone[r] /\ ~cancelled[r]
  /\ outer' = [outer EXCEPT ![r] = "ended"]
  /\ EndRequest
  /\ UNCHANGED <<process, database, cancelled, gone, inside>>

(* asyncio.wait returns and the app is done, whether or not the caller left. *)
Return(r) ==
  /\ outer[r] = "running" /\ ~cancelled[r] /\ app[r] = "done"
  /\ outer' = [outer EXCEPT ![r] = "ended"]
  /\ EndRequest
  /\ UNCHANGED <<process, database, cancelled, gone, inside>>

(* Faulty variant: the disconnected request does not wait for its app. *)
AbandonAtOnce(r) ==
  /\ outer[r] = "running" /\ ~cancelled[r] /\ gone[r] /\ Working(r)
  /\ outer' = [outer EXCEPT ![r] = "ended"]
  /\ interrupted' = [interrupted EXCEPT ![r] = TRUE]
  /\ EndRequest
  /\ UNCHANGED <<process, database, cancelled, gone, app, row, write, shielded>>

(* ... and the caller left first: the app is cancelled and awaited. *)
Abandon(r) ==
  /\ outer[r] = "running" /\ ~cancelled[r] /\ gone[r] /\ Working(r)
  /\ outer' = [outer EXCEPT ![r] = "finishing"]
  /\ interrupted' = [interrupted EXCEPT ![r] = TRUE]
  /\ UNCHANGED <<process, counter, database, cancelled, gone, app, row, write, shielded>>

(* A cancellation that arrives while the app is awaited is swallowed with  *)
(* the app's own.                                                          *)
Reap(r) ==
  /\ outer[r] = "finishing" /\ app[r] = "done"
  /\ outer' = [outer EXCEPT ![r] = "ended"]
  /\ EndRequest
  /\ UNCHANGED <<process, database, cancelled, gone, inside>>

(* uvicorn's cancellation reaches the request: the app is cancelled too,   *)
(* and awaited only if it already was.                                     *)
Cancelled(r) ==
  /\ cancelled[r] /\ Live(r)
  /\ cancelled' = [cancelled EXCEPT ![r] = FALSE]
  /\ interrupted' = [interrupted EXCEPT ![r] = Working(r)]
  /\ IF outer[r] = "finishing"
       THEN UNCHANGED <<outer, counter>>
       ELSE outer' = [outer EXCEPT ![r] = "ended"] /\ EndRequest
  /\ UNCHANGED <<process, database, gone, app, row, write, shielded>>

-----------------------------------------------------------------------------
(* The app: an index request, between its two transactions.                *)

(* A connection of the pool, for start_index_row or the final transaction; *)
(* a pool that closes gives none.                                          *)
Acquire(r) ==
  /\ app[r] = "working" /\ ~interrupted[r] /\ database = "open"
  /\ row[r] \in {"none", "running"}
  /\ app' = [app EXCEPT ![r] = "holding"]
  /\ UNCHANGED <<process, counter, database, outside, interrupted, row, write, shielded>>

(* start_index_row, or the final transaction.  A cancellation between the  *)
(* commit and its caller is left to IndexLifecycle.                        *)
Commit(r) ==
  /\ app[r] = "holding" /\ ~interrupted[r]
  /\ app' = [app EXCEPT ![r] = "working"]
  /\ row' = [row EXCEPT ![r] = IF @ = "none" THEN "running" ELSE "learned"]
  /\ UNCHANGED <<process, counter, database, outside, interrupted, write, shielded>>

(* Rejected, skipped or learned. *)
Finish(r) ==
  /\ app[r] = "working" /\ ~interrupted[r] /\ row[r] # "running"
  /\ app' = [app EXCEPT ![r] = "done"]
  /\ UNCHANGED <<process, counter, database, outside, interrupted, row, write, shielded>>

(* What an except clause does with the row. *)
CloseRow(r, shield) ==
  IF row[r] = "running"
    THEN /\ app' = [app EXCEPT ![r] = "recording"]
         /\ write' = [write EXCEPT ![r] = "pending"]
         /\ shielded' = [shielded EXCEPT ![r] = shield]
    ELSE /\ app' = [app EXCEPT ![r] = "done"]
         /\ UNCHANGED <<write, shielded>>

(* except Exception: an error, a pool that closes, the deadline. *)
Fail(r) ==
  /\ app[r] \in {"working", "holding"} /\ ~interrupted[r]
  /\ CloseRow(r, FALSE)
  /\ UNCHANGED <<process, counter, database, outside, interrupted, row>>

(* except asyncio.CancelledError: _mark_cancelled_index. *)
Interrupt(r) ==
  /\ app[r] \in {"working", "holding"} /\ interrupted[r]
  /\ interrupted' = [interrupted EXCEPT ![r] = FALSE]
  /\ CloseRow(r, TRUE)
  /\ UNCHANGED <<process, counter, database, outside, row>>

(* A cancellation while the row is being closed ends the app; only a       *)
(* shielded write goes on.                                                 *)
InterruptAgain(r) ==
  /\ app[r] = "recording" /\ interrupted[r]
  /\ interrupted' = [interrupted EXCEPT ![r] = FALSE]
  /\ app' = [app EXCEPT ![r] = "done"]
  /\ write' = [write EXCEPT ![r] = IF shielded[r] \/ ~Writing(r) THEN @ ELSE "failed"]
  /\ UNCHANGED <<process, counter, database, outside, row, shielded>>

WriteStarts(r) ==
  /\ write[r] = "pending"
  /\ write' = [write EXCEPT ![r] = IF database = "open" THEN "held" ELSE "failed"]
  /\ UNCHANGED <<process, counter, database, outside, app, interrupted, row, shielded>>

(* mark_index_error; the database may also fail it or time out. *)
WriteEnds(r) ==
  /\ write[r] = "held"
  /\ \/ /\ write' = [write EXCEPT ![r] = "written"]
        /\ row' = [row EXCEPT ![r] = "closed"]
     \/ /\ write' = [write EXCEPT ![r] = "failed"]
        /\ UNCHANGED row
  /\ UNCHANGED <<process, counter, database, outside, app, interrupted, shielded>>

Recorded(r) ==
  /\ app[r] = "recording" /\ ~Writing(r) /\ ~interrupted[r]
  /\ app' = [app EXCEPT ![r] = "done"]
  /\ UNCHANGED <<process, counter, database, outside, interrupted, row, write, shielded>>

-----------------------------------------------------------------------------
(* DatabaseRuntime: one attempt inline, then a loop in the background. *)

Connect ==
  /\ database = "connecting"
  /\ database' \in {"open", "retrying"}
  /\ UNCHANGED <<process, counter, outside, inside>>

Retry ==
  /\ database = "retrying" /\ server # "starting"
  /\ database' = "connecting"
  /\ UNCHANGED <<process, counter, outside, inside>>

(* asyncpg: a pool that closes waits for the connections in use. *)
PoolCloses ==
  /\ database = "closing" /\ \A r \in Requests : ~Holding(r)
  /\ database' = "closed"
  /\ UNCHANGED <<process, counter, outside, inside>>

-----------------------------------------------------------------------------
(* uvicorn and the lifespan *)

Started ==
  /\ server = "starting" /\ database # "connecting"
  /\ server' = "serving"
  /\ UNCHANGED <<expired, drained, counter, database, outside, inside>>

(* SIGTERM: no connection is accepted any more. *)
Terminate ==
  /\ server = "serving"
  /\ server' = "waiting"
  /\ UNCHANGED <<expired, drained, counter, database, outside, inside>>

AllServed ==
  /\ server = "waiting" /\ \A r \in Requests : ~Live(r)
  /\ server' = "leaving"
  /\ UNCHANGED <<expired, drained, counter, database, outside, inside>>

(* Faulty variant: no timeout_graceful_shutdown. *)
GraceExpiresNever == FALSE

(* timeout_graceful_shutdown: the tasks left are cancelled, not awaited. *)
GraceExpires ==
  /\ server = "waiting" /\ \E r \in Requests : Live(r)
  /\ server' = "leaving" /\ expired' = TRUE
  /\ cancelled' = [r \in Requests |-> Live(r)]
  /\ UNCHANGED <<drained, counter, database, outer, gone, inside>>

(* shutdown(): the connect loop is cancelled, or the pool begins to close. *)
(* Nothing is awaited between the end of drain() and this, unless the pool *)
(* came late and the loop is still in its schema check: CloseLate.         *)
Close(verdict) ==
  /\ server' = "closing" /\ drained' = verdict
  /\ database' \in IF database = "open" THEN {"open", "closing"} ELSE {"closed"}
  /\ UNCHANGED <<expired, outside, inside>>

CloseLate ==
  /\ server = "closing" /\ database = "open"
  /\ database' = "closing"
  /\ UNCHANGED <<process, counter, outside, inside>>

(* drain() *)
DrainIdle ==
  /\ server = "leaving" /\ inFlight = 0
  /\ Close("yes")
  /\ UNCHANGED counter

Drain ==
  /\ server = "leaving" /\ inFlight > 0
  /\ server' = "draining" /\ idle' = "clear"
  /\ UNCHANGED <<expired, drained, inFlight, database, outside, inside>>

Drained ==
  /\ server = "draining" /\ idle = "set"
  /\ Close("yes")
  /\ UNCHANGED counter

DrainExpires ==
  /\ server = "draining" /\ idle = "clear"
  /\ Close("no")
  /\ UNCHANGED counter

Stop ==
  /\ server = "closing" /\ database = "closed"
  /\ server' = "stopped"
  /\ UNCHANGED <<expired, drained, counter, database, outside, inside>>

-----------------------------------------------------------------------------
OuterStep(r) == Buffered(r) \/ LeaveEarly(r) \/ Return(r) \/ Abandon(r) \/ Reap(r) \/ Cancelled(r)
WorkStep(r) == \/ Acquire(r) \/ Commit(r) \/ Finish(r) \/ Fail(r)
               \/ Interrupt(r) \/ InterruptAgain(r) \/ Recorded(r)
WriteStep(r) == WriteStarts(r) \/ WriteEnds(r)
ServerStep == \/ AllServed \/ GraceExpires \/ DrainIdle \/ Drain \/ Drained \/ DrainExpires
              \/ CloseLate \/ PoolCloses \/ Stop

Next ==
  \/ \E r \in Requests : Arrive(r) \/ HangUp(r) \/ OuterStep(r) \/ WorkStep(r) \/ WriteStep(r)
  \/ Connect \/ Retry \/ Started \/ Terminate \/ ServerStep

Spec == Init /\ [][Next]_vars

(* The event loop runs every task that can run, timeouts end the writes    *)
(* and the waits of the server.  Work that nobody cancels may take for     *)
(* ever.                                                                   *)
Fairness ==
  /\ \A r \in Requests :
       /\ WF_vars(OuterStep(r)) /\ WF_vars(WriteStep(r))
       /\ WF_vars(Interrupt(r) \/ InterruptAgain(r) \/ Recorded(r))
  /\ WF_vars(ServerStep)

FairSpec == Spec /\ Fairness

-----------------------------------------------------------------------------
(* drain() never sleeps over an idle service: while it waits, the event is *)
(* set exactly when the last counted request has ended.                    *)
DrainIsNotMissed ==
  /\ inFlight = Cardinality({r \in Requests : Live(r)})
  /\ server = "draining" => (idle = "set" <=> inFlight = 0)

(* A request that ended leaves nothing running, whoever hung up and        *)
(* whatever it was doing, unless uvicorn had to cancel it                  *)
(* (DisconnectCancellationMiddleware awaits the app it cancels).           *)
NothingOutlivesItsRequest ==
  ~expired => \A r \in Requests : outer[r] = "ended" => ~Working(r) /\ ~Writing(r)

(* A stop within the grace period takes the database away from nobody.     *)
GracefulStopSparesWork ==
  ~expired /\ database \in {"closing", "closed"}
    => \A r \in Requests : ~Working(r) /\ ~Writing(r)

(* However a request ends, the row it knows of is closed or the attempt to *)
(* close it failed: no path forgets the row (audit O2).                    *)
NoRowIsForgotten ==
  \A r \in Requests :
    app[r] = "done" /\ row[r] = "running" => write[r] \in {"pending", "held", "failed"}

(* SIGTERM stops the service, whatever its requests do. *)
ServiceStops == server = "waiting" ~> server = "stopped"

(* "lets shutdown wait for in-flight work before closing the database pool *)
(* underneath it" (lifespan.py:23): when drain() reports an idle service,  *)
(* no request still works while the pool closes.                           *)
DrainedMeansIdle ==
  drained = "yes" => \A r \in Requests : ~Working(r)
=============================================================================
