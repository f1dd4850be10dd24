---------------------------- MODULE IndexLifecycle ----------------------------
(***************************************************************************)
(* The index rows of one knowledge-base document, and the index and delete *)
(* requests that change them concurrently: app/services/ingestion/index.py *)
(* over the SQL of app/repositories/indexing.py and documents.py.          *)
(*                                                                         *)
(* Every request runs on its own pooled connection at READ COMMITTED (no   *)
(* other isolation level is asked for).  An UPDATE or DELETE reads the     *)
(* rows its WHERE clause matches and then goes from one of them to the     *)
(* next: it waits until no other transaction locks the row it has reached, *)
(* keeping the locks it already has, locks that row if it still exists and *)
(* changes it if it still matches.  What an open transaction has written   *)
(* keeps its committed values for everybody else until it commits.         *)
(***************************************************************************)
EXTENDS Naturals, FiniteSets

CONSTANTS
  Requests,      \* index requests; a request names the row it inserts
  Deletes,       \* delete-document requests
  Contents,      \* index fingerprints of the document's successive contents
  EmbeddingModel,\* the embedding model each request asks for
  MaxVersion,    \* bound on the version column: one row per request
  None

ASSUME NoneIsFresh == None \notin Requests /\ None \notin Contents
ASSUME VersionBound == MaxVersion \in Nat
ASSUME RequestsAreNotDeletes == Requests \intersect Deletes = {}

VARIABLES
  status,      \* status column of each request's row; "absent": no such row
  active,      \* the rows whose is_active column is true
  fingerprint, \* content_sha256 column of each row
  version,     \* version column of each row
  nodes,       \* the rows that have stored structure nodes
  locks,       \* the rows each open transaction has locked
  pc,          \* where each index request is
  content,     \* what the request would store (fingerprint of what it loaded)
  reusable,    \* reusable_index_id
  known,       \* the request has been told its index_id
  seen,        \* rows the statement in progress matched and has not reached
  wanted,      \* the one of them it is at, waiting for its lock
  doomed,      \* rows the DELETE of a final transaction has deleted
  stale,       \* structure nodes the open transaction has deleted
  nextVersion, \* the version a request read for its new row
  dpc,         \* where each delete request is
  published    \* history: the indexes that were ever learned

rows == <<status, active, fingerprint, version, nodes>>
txns == <<locks, seen, wanted, doomed, stale, nextVersion>>
calls == <<pc, content, reusable, known>>
vars == <<rows, txns, calls, dpc, published>>

(* Each has at most one transaction open at a time. *)
Transactions == Requests \union Deletes

Versions == 1..MaxVersion

(* _index_document is in start_index_row. *)
StartPoints == {"start", "superseding", "versioned"}
(* ... and in its final transaction, its own row locked. *)
CommitPoints == {"locked", "stored", "deactivating", "purging"}
WorkPoints == {"loaded", "deferred", "building"} \union StartPoints \union CommitPoints
FinalPoints == {"rejected", "skipped", "learned", "closed", "lost"}
Points == {"idle", "closing"} \union WorkPoints \union FinalPoints

TypeOK ==
  /\ status \in [Requests -> {"absent", "running", "learned", "error"}]
  /\ active \subseteq Requests
  /\ fingerprint \in [Requests -> Contents \union {None}]
  /\ version \in [Requests -> {0} \union Versions]
  /\ nodes \subseteq Requests
  /\ locks \in [Transactions -> SUBSET Requests]
  /\ pc \in [Requests -> Points]
  /\ content \in [Requests -> Contents \union {None}]
  /\ reusable \in [Requests -> Requests \union {None}]
  /\ known \in [Requests -> BOOLEAN]
  /\ seen \in [Transactions -> SUBSET Requests]
  /\ wanted \in [Transactions -> Requests \union {None}]
  /\ doomed \in [Requests -> SUBSET Requests]
  /\ stale \in [Requests -> SUBSET Requests]
  /\ nextVersion \in [Requests -> {0} \union Versions]
  /\ dpc \in [Deletes -> {"idle", "nodes_gone", "deleting", "done", "failed"}]
  /\ published \subseteq Requests

Init ==
  /\ status = [r \in Requests |-> "absent"]
  /\ active = {}
  /\ fingerprint = [r \in Requests |-> None]
  /\ version = [r \in Requests |-> 0]
  /\ nodes = {}
  /\ locks = [t \in Transactions |-> {}]
  /\ pc = [r \in Requests |-> "idle"]
  /\ content = [r \in Requests |-> None]
  /\ reusable = [r \in Requests |-> None]
  /\ known = [r \in Requests |-> FALSE]
  /\ seen = [t \in Transactions |-> {}]
  /\ wanted = [t \in Transactions |-> None]
  /\ doomed = [r \in Requests |-> {}]
  /\ stale = [r \in Requests |-> {}]
  /\ nextVersion = [r \in Requests |-> 0]
  /\ dpc = [d \in Deletes |-> "idle"]
  /\ published = {}

-----------------------------------------------------------------------------
(* The committed rows, and the row locks. *)

Existing == {q \in Requests : status[q] # "absent"}
Running == {q \in Requests : status[q] = "running"}

LockedByOther(t, q) == \E u \in Transactions \ {t} : q \in locks[u]
Locked(q) == \E t \in Transactions : q \in locks[t]

(* A statement that matched the rows in S goes to one of them, in          *)
(* whatever order the database keeps them.                                 *)
Scan(t, S) ==
  /\ seen' = [seen EXCEPT ![t] = S]
  /\ \E q \in (IF S = {} THEN {None} ELSE S) : wanted' = [wanted EXCEPT ![t] = q]

(* It locks the row it has reached, unless that is gone, and goes on.      *)
TakeRow(t) ==
  /\ wanted[t] \in seen[t]
  /\ ~LockedByOther(t, wanted[t])
  /\ locks' = [locks EXCEPT ![t] = @ \union ({wanted[t]} \intersect Existing)]
  /\ Scan(t, seen[t] \ {wanted[t]})

(* COMMIT or ROLLBACK: the row locks and the statement's snapshot go. *)
ReleaseLocks(t) ==
  /\ locks' = [locks EXCEPT ![t] = {}]
  /\ seen' = [seen EXCEPT ![t] = {}]
  /\ wanted' = [wanted EXCEPT ![t] = None]

Goto(r, from, to) ==
  /\ pc[r] = from
  /\ pc' = [pc EXCEPT ![r] = to]

(* Faulty variant: a connection goes back to the pool with its transaction *)
(* open.                                                                   *)
LeaveTransactionOpen(r) == UNCHANGED txns

EndTransaction(r) ==
  /\ ReleaseLocks(r)
  /\ doomed' = [doomed EXCEPT ![r] = {}]
  /\ stale' = [stale EXCEPT ![r] = {}]
  /\ nextVersion' = [nextVersion EXCEPT ![r] = 0]

(* load_active_index: the newest active learned index of the request's     *)
(* embedding model; the index_running flag of the same snapshot is         *)
(* Running # {}.                                                           *)
Candidates(m) == {q \in active : status[q] = "learned" /\ EmbeddingModel[q] = m}
ActiveIndex(m) ==
  IF Candidates(m) = {}
    THEN None
    ELSE CHOOSE q \in Candidates(m) :
           \A p \in Candidates(m) : version[p] <= version[q]

(* _reusable_index_id *)
ReusableIndex(m) == IF Running # {} THEN None ELSE ActiveIndex(m)

(* COALESCE(MAX(version), 0) + 1 over the document's rows *)
IsNextVersion(v) ==
  /\ \A q \in Existing : version[q] < v
  /\ v = 1 \/ \E q \in Existing : version[q] = v - 1

-----------------------------------------------------------------------------
(* Faulty variants of the definitions that follow, each one a bug this     *)
(* code could have; no specification uses them.                            *)

(* A build gives way to any other running row of the document: two         *)
(* concurrent builds both give up.                                         *)
LockOwnRowYields(r) ==
  /\ ~LockedByOther(r, r)
  /\ IF Running = {r}
       THEN /\ Goto(r, "building", "locked")
            /\ locks' = [locks EXCEPT ![r] = {r}]
       ELSE /\ Goto(r, "building", "closing")
            /\ UNCHANGED locks
  /\ UNCHANGED <<rows, seen, wanted, doomed, stale, nextVersion,
                 content, reusable, known, dpc, published>>

(* The structure nodes are replaced outside the final transaction. *)
StoreNodesAtOnce(r) ==
  /\ Goto(r, "locked", "stored")
  /\ nodes' = {r}
  /\ UNCHANGED <<status, active, fingerprint, version, txns,
                 content, reusable, known, dpc, published>>

(* deactivate_other_indexes matches the running rows only. *)
BeginDeactivateRunning(r) ==
  /\ Goto(r, "stored", "deactivating")
  /\ Scan(r, Running \ {r})
  /\ UNCHANGED <<rows, locks, doomed, stale, nextVersion,
                 content, reusable, known, dpc, published>>

(* A cancelled request does not close its row (audit O2). *)
CloseRowForgotten(r) ==
  /\ Goto(r, "closing", "closed")
  /\ UNCHANGED <<rows, txns, content, reusable, known, dpc, published>>

(* mark_index_error without AND status = 'running'. *)
CloseRowUnguarded(r) ==
  /\ Goto(r, "closing", "closed")
  /\ known[r] => ~Locked(r)
  /\ status' = IF known[r] /\ status[r] # "absent"
                 THEN [status EXCEPT ![r] = "error"]
                 ELSE status
  /\ UNCHANGED <<active, fingerprint, version, nodes, txns,
                 content, reusable, known, dpc, published>>

-----------------------------------------------------------------------------
(* An index request up to the choice between rebuilding and deferring. *)

(* The document is read; the backend edits it at any time, so each request *)
(* may read another content.                                               *)
Load(r) ==
  /\ Goto(r, "idle", "loaded")
  /\ \E c \in Contents : content' = [content EXCEPT ![r] = c]
  /\ UNCHANGED <<rows, txns, reusable, known, dpc, published>>

(* 400 or 404: wrong vector size, unknown document, nothing to learn. *)
Reject(r) ==
  /\ Goto(r, "idle", "rejected")
  /\ UNCHANGED <<rows, txns, content, reusable, known, dpc, published>>

(* force: no reuse check, the index row is taken at once. *)
ForceRebuild(r) ==
  /\ Goto(r, "loaded", "start")
  /\ UNCHANGED <<rows, txns, content, reusable, known, dpc, published>>

(* The source is fetched and checked; then the reuse check. *)
CheckReusable(r) ==
  LET found == ReusableIndex(EmbeddingModel[r])
  IN  /\ Goto(r, "loaded", IF found = None THEN "start" ELSE "deferred")
      /\ reusable' = [reusable EXCEPT ![r] = found]
      /\ UNCHANGED <<rows, txns, content, known, dpc, published>>

(* _claim_deferred_index, the fingerprint being known. *)
ClaimTarget(r) ==
  LET current == ReusableIndex(EmbeddingModel[r])
  IN  IF current = None THEN "closing"
      ELSE IF fingerprint[current] = content[r] THEN "skipped"
      ELSE IF current = reusable[r] THEN "start"
      ELSE "closing"

ClaimDeferred(r) ==
  /\ Goto(r, "deferred", ClaimTarget(r))
  /\ UNCHANGED <<rows, txns, content, reusable, known, dpc, published>>

-----------------------------------------------------------------------------
(* start_index_row: one transaction of three statements. *)

(* UPDATE ... SET status = 'error' WHERE status = 'running' *)
BeginSupersede(r) ==
  /\ Goto(r, "start", "superseding")
  /\ Scan(r, Running)
  /\ UNCHANGED <<rows, locks, doomed, stale, nextVersion,
                 content, reusable, known, dpc, published>>

SupersedeRow(r) ==
  /\ pc[r] = "superseding"
  /\ TakeRow(r)
  /\ UNCHANGED <<rows, doomed, stale, nextVersion, calls, dpc, published>>

(* SELECT COALESCE(MAX(version), 0) + 1 *)
ReadVersion(r) ==
  /\ seen[r] = {}
  /\ Goto(r, "superseding", "versioned")
  /\ \E v \in Versions :
       /\ IsNextVersion(v)
       /\ nextVersion' = [nextVersion EXCEPT ![r] = v]
  /\ UNCHANGED <<rows, locks, seen, wanted, doomed, stale,
                 content, reusable, known, dpc, published>>

(* INSERT and COMMIT; the request is told the id of its row.  It is not    *)
(* when a cancellation or the deadline arrives once the commit is on its   *)
(* way (the COMMIT, then giving the connection back, are awaited).         *)
InsertRow(r, told) ==
  /\ Goto(r, "versioned", IF told THEN "building" ELSE "closing")
  /\ known' = [known EXCEPT ![r] = told]
  /\ status' = [q \in Requests |->
                  IF q = r THEN "running"
                  ELSE IF q \in locks[r] /\ status[q] = "running" THEN "error"
                  ELSE status[q]]
  /\ version' = [version EXCEPT ![r] = nextVersion[r]]
  /\ EndTransaction(r)
  /\ UNCHANGED <<active, fingerprint, nodes, content, reusable, dpc, published>>

-----------------------------------------------------------------------------
(* The final transaction, after extraction, chunking and embedding. *)

(* lock_index_status (SELECT ... FOR UPDATE); a row that is no longer      *)
(* running was superseded or deleted: the transaction is given up.         *)
LockOwnRow(r) ==
  /\ ~LockedByOther(r, r)
  /\ IF status[r] = "running"
       THEN /\ Goto(r, "building", "locked")
            /\ locks' = [locks EXCEPT ![r] = {r}]
       ELSE /\ Goto(r, "building", "closing")
            /\ UNCHANGED locks
  /\ UNCHANGED <<rows, seen, wanted, doomed, stale, nextVersion,
                 content, reusable, known, dpc, published>>

(* insert_chunks, persist_structure_nodes_if_available and                 *)
(* delete_previous_structure_nodes_if_available                            *)
StoreNodes(r) ==
  /\ Goto(r, "locked", "stored")
  /\ stale' = [stale EXCEPT ![r] = nodes \ {r}]
  /\ UNCHANGED <<rows, locks, seen, wanted, doomed, nextVersion,
                 content, reusable, known, dpc, published>>

(* deactivate_other_indexes *)
BeginDeactivate(r) ==
  /\ Goto(r, "stored", "deactivating")
  /\ Scan(r, Existing \ {r})
  /\ UNCHANGED <<rows, locks, doomed, stale, nextVersion,
                 content, reusable, known, dpc, published>>

DeactivateRow(r) ==
  /\ pc[r] = "deactivating"
  /\ TakeRow(r)
  /\ UNCHANGED <<rows, doomed, stale, nextVersion, calls, dpc, published>>

(* mark_index_learned, which has its row locked, and                       *)
(* delete_inactive_indexes: the other rows that are inactive, as committed *)
(* or by DeactivateRow.                                                    *)
Inactive(r, q) == q \notin active \/ q \in locks[r]

BeginPurge(r) ==
  /\ seen[r] = {}
  /\ Goto(r, "deactivating", "purging")
  /\ Scan(r, {q \in Existing \ {r} : Inactive(r, q)})
  /\ UNCHANGED <<rows, locks, doomed, stale, nextVersion,
                 content, reusable, known, dpc, published>>

PurgeRow(r) ==
  /\ pc[r] = "purging"
  /\ doomed' = [doomed EXCEPT ![r] = @ \union {q \in {wanted[r]} \intersect Existing : Inactive(r, q)}]
  /\ TakeRow(r)
  /\ UNCHANGED <<rows, stale, nextVersion, calls, dpc, published>>

(* COMMIT: everything the transaction wrote becomes visible.  (Nothing     *)
(* becomes active beside a transaction that purges, so every active row it *)
(* has locked it has deactivated.)  A cancellation that arrives once the   *)
(* commit is on its way comes after the fact: the except clause runs over  *)
(* the learned index.                                                      *)
Publish(r, told) ==
  /\ seen[r] = {}
  /\ Goto(r, "purging", IF told THEN "learned" ELSE "closing")
  /\ status' = [q \in Requests |->
                  IF q = r THEN "learned"
                  ELSE IF q \in doomed[r] THEN "absent"
                  ELSE status[q]]
  /\ active' = (active \ locks[r]) \union {r}
  /\ fingerprint' = [fingerprint EXCEPT ![r] = content[r]]
  /\ nodes' = (nodes \ stale[r]) \union {r}
  /\ published' = published \union {r}
  /\ EndTransaction(r)
  /\ UNCHANGED <<version, content, reusable, known, dpc>>

-----------------------------------------------------------------------------
(* How a request ends otherwise. *)

(* An exception, the deadline or a cancellation: the open transaction is   *)
(* rolled back and the except clauses run.                                 *)
Fail(r) ==
  /\ pc[r] \in WorkPoints
  /\ pc' = [pc EXCEPT ![r] = "closing"]
  /\ EndTransaction(r)
  /\ UNCHANGED <<rows, content, reusable, known, dpc, published>>

(* mark_index_error, also from _mark_cancelled_index: nothing without an   *)
(* index_id, and only a row that is still running is touched or waited for.*)
CloseRow(r) ==
  /\ Goto(r, "closing", "closed")
  /\ known[r] /\ status[r] = "running" => ~Locked(r)
  /\ status' = IF known[r] /\ status[r] = "running"
                 THEN [status EXCEPT ![r] = "error"]
                 ELSE status
  /\ UNCHANGED <<active, fingerprint, version, nodes, txns,
                 content, reusable, known, dpc, published>>

(* The service dies, or the write of mark_index_error fails or times out.  *)
Vanish(r) ==
  /\ pc[r] \in WorkPoints \union {"closing"}
  /\ pc' = [pc EXCEPT ![r] = "lost"]
  /\ EndTransaction(r)
  /\ UNCHANGED <<rows, content, reusable, known, dpc, published>>

-----------------------------------------------------------------------------
(* delete_document: two statements, each in a transaction of its own. *)

DeleteNodes(d) ==
  /\ dpc[d] = "idle"
  /\ dpc' = [dpc EXCEPT ![d] = "nodes_gone"]
  /\ nodes' = {}
  /\ UNCHANGED <<status, active, fingerprint, version, txns, calls, published>>

BeginDeleteIndexes(d) ==
  /\ dpc[d] = "nodes_gone"
  /\ dpc' = [dpc EXCEPT ![d] = "deleting"]
  /\ Scan(d, Existing)
  /\ UNCHANGED <<rows, locks, doomed, stale, nextVersion, calls, published>>

DeleteRow(d) ==
  /\ dpc[d] = "deleting"
  /\ TakeRow(d)
  /\ UNCHANGED <<rows, doomed, stale, nextVersion, calls, dpc, published>>

DeleteIndexes(d) ==
  /\ dpc[d] = "deleting" /\ seen[d] = {}
  /\ dpc' = [dpc EXCEPT ![d] = "done"]
  /\ status' = [q \in Requests |-> IF q \in locks[d] THEN "absent" ELSE status[q]]
  /\ active' = active \ locks[d]
  /\ ReleaseLocks(d)
  /\ UNCHANGED <<fingerprint, version, nodes, doomed, stale, nextVersion, calls, published>>

(* The second statement does not end: cancellation, lost connection, or    *)
(* the database aborts it to break a deadlock.                             *)
FailDelete(d) ==
  /\ dpc[d] \in {"nodes_gone", "deleting"}
  /\ dpc' = [dpc EXCEPT ![d] = "failed"]
  /\ ReleaseLocks(d)
  /\ UNCHANGED <<rows, doomed, stale, nextVersion, calls, published>>

-----------------------------------------------------------------------------
Step(r) ==
  \/ ForceRebuild(r) \/ CheckReusable(r) \/ ClaimDeferred(r)
  \/ BeginSupersede(r) \/ SupersedeRow(r) \/ ReadVersion(r) \/ InsertRow(r, TRUE)
  \/ LockOwnRow(r) \/ StoreNodes(r) \/ BeginDeactivate(r) \/ DeactivateRow(r)
  \/ BeginPurge(r) \/ PurgeRow(r) \/ Publish(r, TRUE)

(* A cancellation or the deadline between a commit and its caller. *)
CancelAfterCommit(r) == InsertRow(r, FALSE) \/ Publish(r, FALSE)

Delete(d) == DeleteNodes(d) \/ BeginDeleteIndexes(d) \/ DeleteRow(d) \/ DeleteIndexes(d)

Next ==
  \/ \E r \in Requests :
       \/ Load(r) \/ Reject(r) \/ Step(r) \/ CloseRow(r)
       \/ Fail(r) \/ CancelAfterCommit(r) \/ Vanish(r)
  \/ \E d \in Deletes : Delete(d) \/ FailDelete(d)

Spec == Init /\ [][Next]_vars

-----------------------------------------------------------------------------
(* Fairness: the event loop keeps running every request and the database   *)
(* answers every statement that waits for nobody; PostgreSQL aborts one    *)
(* transaction of a cycle of waiting ones.                                 *)

(* The row a transaction cannot go on without. *)
Awaited(t) ==
  IF seen[t] # {} THEN {wanted[t]}
  ELSE IF t \in Requests /\ pc[t] = "building" THEN {t}
  ELSE {}

WaitsFor(t) == {u \in Transactions \ {t} : Awaited(t) \intersect locks[u] # {}}

Deadlocked(t) ==
  \E S \in SUBSET {u \in Transactions : WaitsFor(u) # {}} :
    /\ t \in S
    /\ \A u \in S : WaitsFor(u) \intersect S # {}
    /\ \A u \in S : \E v \in S : u \in WaitsFor(v)

AbortDeadlocked(t) ==
  /\ Deadlocked(t)
  /\ \/ t \in Requests /\ Fail(t)
     \/ t \in Deletes /\ FailDelete(t)

Fairness ==
  /\ \A r \in Requests : WF_vars(Step(r)) /\ WF_vars(CloseRow(r))
  /\ \A d \in Deletes : WF_vars(dpc[d] # "idle" /\ Delete(d))
  /\ \A t \in Transactions : WF_vars(AbortDeadlocked(t))

FairSpec == Spec /\ Fairness

(* The same system when nothing fails, is cancelled or deleted: the only   *)
(* failures are the transactions the database aborts to break a deadlock.  *)
CalmNext ==
  \/ \E r \in Requests :
       Load(r) \/ Step(r) \/ AbortDeadlocked(r) \/ CloseRow(r)
  \/ (\A r \in Requests : pc[r] \in FinalPoints) /\ UNCHANGED vars

CalmSpec == Init /\ [][CalmNext]_vars /\ Fairness

-----------------------------------------------------------------------------
(* Safety *)

(* Retrieval joins chunks with the active learned index of a document      *)
(* (repositories/retrieval.py): two active ones would mix two revisions.   *)
AtMostOneActive ==
  /\ \A p, q \in active : p = q
  /\ \A q \in active : status[q] = "learned"

(* The served index keeps its structure nodes, whatever other requests     *)
(* commit or give up, until a delete of the document has begun.            *)
ServedHasItsNodes ==
  (\A d \in Deletes : dpc[d] = "idle") => active \subseteq nodes

(* A row left running always has a request that will still close it,       *)
(* unless that request died or was never told the row's id.                *)
RunningRowHasAnOwner ==
  \A r \in Running :
    pc[r] \in {"building", "closing", "lost"} \union CommitPoints \/ ~known[r]

(* A settled row keeps its status: an index that was superseded is never   *)
(* learned afterwards, and a late mark_index_error (a cancellation that    *)
(* arrives while the final transaction commits) never turns the learned    *)
(* index into a failed one.  A row can only disappear.                     *)
SettledRowsKeepTheirStatus ==
  \A q \in Requests :
    status[q] \in {"learned", "error"} => status'[q] \in {status[q], "absent"}

SettledStatusIsFinal == [][SettledRowsKeepTheirStatus]_vars

(* Re-indexing never leaves a document without an index: once it has an    *)
(* active one, only a delete request takes the last one away.              *)
OnlyDeletesWithdraw ==
  active # {} /\ active' = {} => \E d \in Deletes : dpc[d] = "deleting" /\ dpc'[d] = "done"

ServedUntilDeleted == [][OnlyDeletesWithdraw]_vars

-----------------------------------------------------------------------------
(* Why AtMostOneActive holds: the inductive invariant.                     *)

(* Before its INSERT a request has no row. *)
RowlessPoints == {"idle", "loaded", "deferred", "rejected", "skipped"} \union StartPoints

(* Past BeginDeactivate. *)
SnapshotPoints == {"deactivating", "purging"}

(* Row locks are exclusive, on existing rows, and held where they must be. *)
LockDiscipline ==
  /\ \A t, u \in Transactions : t # u => locks[t] \intersect locks[u] = {}
  /\ \A t \in Transactions : locks[t] \subseteq Existing
  /\ \A r \in Requests : pc[r] \in CommitPoints => r \in locks[r] /\ status[r] = "running"
  /\ \A r \in Requests : locks[r] # {} => pc[r] \in CommitPoints \union {"superseding", "versioned"}
  /\ \A r \in Requests : doomed[r] \subseteq locks[r]
  /\ \A d \in Deletes : locks[d] # {} => dpc[d] = "deleting"

(* A row exists only after its INSERT, and is active only once learned. *)
RowLife ==
  /\ \A r \in Requests : pc[r] \in RowlessPoints => status[r] = "absent"
  /\ \A r \in published : pc[r] \in {"learned", "closing", "closed", "lost"}
  /\ \A r \in active : status[r] = "learned"
  /\ \A r \in Requests : status[r] = "learned" => r \in published

(* Of two requests past the snapshot of deactivate_other_indexes, one has  *)
(* yet to reach the other's row, which stays locked until that one ends:   *)
(* only one gets as far as its purge.  Every active row is still ahead of  *)
(* the scan or locked by it.                                               *)
SwapDiscipline ==
  /\ \A q, r \in Requests :
       q # r /\ pc[q] = "deactivating" /\ pc[r] = "deactivating"
         => q \in seen[r] \/ r \in seen[q]
  /\ \A q, r \in Requests :
       q # r /\ pc[q] \in SnapshotPoints /\ pc[r] = "purging"
         => pc[q] = "deactivating" /\ r \in seen[q]
  /\ \A r \in Requests : pc[r] = "deactivating" => active \subseteq seen[r] \union locks[r]
  /\ \A r \in Requests : pc[r] = "purging" => active \subseteq locks[r]

IndInv == LockDiscipline /\ RowLife /\ SwapDiscipline /\ AtMostOneActive

-----------------------------------------------------------------------------
(* Liveness *)

(* Every index request is answered in the end, however its transactions    *)
(* wait for each other.                                                    *)
EveryRequestIsAnswered ==
  \A r \in Requests : pc[r] # "idle" ~> pc[r] \in FinalPoints

(* Concurrent re-index requests never cancel each other out: as long as    *)
(* nothing fails from outside, the document has an active index once every *)
(* request is answered and one of them has taken an index row.             *)
SomeRequestWins ==
  (\A r \in Requests : pc[r] \in FinalPoints) /\ Existing # {} => active # {}

-----------------------------------------------------------------------------
(* Refinement *)

ServedIndex == IF active = {} THEN None ELSE CHOOSE q \in active : TRUE

Promise == INSTANCE PublishedIndex WITH served <- ServedIndex

ImplementsPublishedIndex == Promise!Spec
=============================================================================
