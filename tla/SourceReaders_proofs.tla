-------------------------- MODULE SourceReaders_proofs --------------------------
(***************************************************************************)
(* Theorems about the index rows (IndexLifecycle), for any number of       *)
(* index requests and deletes, and then about the readers beside them      *)
(* (SourceReaders), for any readers, chunks and page limits.               *)
(***************************************************************************)
EXTENDS SourceReaders, TLAPS

(***************************************************************************)
(* I. Index and delete requests: theorems of IndexLifecycle's Spec.        *)
(***************************************************************************)
(* The index the reuse check finds is one of the document's: the newest    *)
(* candidate exists because there is at most one.                          *)
LEMMA ReusableIsRequest ==
  ASSUME TypeOK, AtMostOneActive, NEW m
  PROVE  ReusableIndex(m) \in Requests \union {None}
<1>1. CASE Candidates(m) = {}
  BY <1>1 DEF ReusableIndex, ActiveIndex
<1>2. CASE Candidates(m) # {}
  <2>1. PICK q \in Candidates(m) : TRUE
    BY <1>2
  <2>2. q \in Requests /\ version[q] \in Nat
    BY <2>1, VersionBound DEF Candidates, TypeOK, Versions
  <2>3. \A p \in Candidates(m) : version[p] <= version[q]
    BY <2>1, <2>2 DEF Candidates, AtMostOneActive
  <2>4. ActiveIndex(m) \in Candidates(m)
    BY <1>2, <2>1, <2>3 DEF ActiveIndex
  <2>5. ActiveIndex(m) \in Requests
    BY <2>4 DEF Candidates, TypeOK
  <2>6. QED BY <2>5 DEF ReusableIndex
<1>3. QED BY <1>1, <1>2

-----------------------------------------------------------------------------
LEMMA AllAreTransactions == Requests \subseteq Transactions /\ Deletes \subseteq Transactions
BY DEF Transactions

-----------------------------------------------------------------------------
(* A statement that starts has all the rows it matched ahead of it. *)
LEMMA ScanFacts ==
  ASSUME TypeOK, NEW t \in Transactions, NEW S \in SUBSET Requests, Scan(t, S)
  PROVE  /\ seen' = [seen EXCEPT ![t] = S]
         /\ seen' \in [Transactions -> SUBSET Requests]
         /\ wanted' \in [Transactions -> Requests \union {None}]
<1>1. seen' = [seen EXCEPT ![t] = S]
  BY DEF Scan
<1>2. PICK q \in (IF S = {} THEN {None} ELSE S) : wanted' = [wanted EXCEPT ![t] = q]
  BY DEF Scan
<1>3. q \in Requests \union {None}
  BY <1>2
<1>4. QED BY <1>1, <1>2, <1>3 DEF TypeOK

LEMMA ScanType ==
  ASSUME TypeOK, NEW t \in Transactions, NEW S \in SUBSET Requests, Scan(t, S),
         UNCHANGED <<rows, locks, doomed, stale, nextVersion, content, reusable, known, published>>,
         pc' \in [Requests -> Points],
         dpc' \in [Deletes -> {"idle", "nodes_gone", "deleting", "done", "failed"}]
  PROVE  TypeOK'
BY ScanFacts DEF TypeOK, rows

(* A statement that goes on has locked the row it was at, if it exists;    *)
(* nobody else has.                                                        *)
LEMMA TakeFacts ==
  ASSUME TypeOK, NEW t \in Transactions, TakeRow(t)
  PROVE  /\ wanted[t] \in Requests
         /\ \A u \in Transactions \ {t} : wanted[t] \notin locks[u]
         /\ locks'[t] = locks[t] \union ({wanted[t]} \intersect Existing)
         /\ seen'[t] = seen[t] \ {wanted[t]}
         /\ \A u \in Transactions \ {t} : locks'[u] = locks[u] /\ seen'[u] = seen[u]
         /\ locks' \in [Transactions -> SUBSET Requests]
         /\ seen' \in [Transactions -> SUBSET Requests]
         /\ wanted' \in [Transactions -> Requests \union {None}]
<1>1. wanted[t] \in seen[t] /\ seen[t] \subseteq Requests
  BY DEF TakeRow, TypeOK
<1>2. Scan(t, seen[t] \ {wanted[t]})
  BY DEF TakeRow
<1>3. /\ seen' = [seen EXCEPT ![t] = seen[t] \ {wanted[t]}]
      /\ seen' \in [Transactions -> SUBSET Requests]
      /\ wanted' \in [Transactions -> Requests \union {None}]
  BY <1>1, <1>2, ScanFacts
<1>4. locks' = [locks EXCEPT ![t] = locks[t] \union ({wanted[t]} \intersect Existing)]
  BY DEF TakeRow
<1>5. \A u \in Transactions \ {t} : wanted[t] \notin locks[u]
  BY DEF TakeRow, LockedByOther
<1>6. locks' \in [Transactions -> SUBSET Requests]
  BY <1>1, <1>4 DEF TypeOK
<1>7. QED BY <1>1, <1>3, <1>4, <1>5, <1>6 DEF TypeOK

LEMMA TakeType ==
  ASSUME TypeOK, NEW t \in Transactions, TakeRow(t),
         UNCHANGED <<rows, stale, nextVersion, calls, dpc, published>>,
         doomed' \in [Requests -> SUBSET Requests]
  PROVE  TypeOK'
BY TakeFacts DEF TypeOK, rows, calls

-----------------------------------------------------------------------------
(* Every step keeps the variables in their types: BeginSupersede and the *)
(* other statements only ever lock rows of the document's requests.       *)
LEMMA TypeStep == TypeOK /\ AtMostOneActive /\ [Next]_vars => TypeOK'
<1> SUFFICES ASSUME TypeOK, AtMostOneActive, [Next]_vars PROVE TypeOK'
  OBVIOUS
<1> USE AllAreTransactions DEF Goto, rows, txns, calls, ReleaseLocks, EndTransaction,
            Points, WorkPoints, StartPoints, CommitPoints, FinalPoints
<1>1. ASSUME NEW r \in Requests, BeginSupersede(r) PROVE TypeOK'
  <2>1. Running \in SUBSET Requests
    BY DEF Running, Existing
  <2>2. /\ pc' \in [Requests -> Points]
        /\ dpc' \in [Deletes -> {"idle", "nodes_gone", "deleting", "done", "failed"}]
    BY <1>1 DEF TypeOK, BeginSupersede
  <2>3. Scan(r, Running) /\ UNCHANGED <<rows, locks, doomed, stale, nextVersion, content, reusable, known, published>>
    BY <1>1 DEF TypeOK, BeginSupersede
  <2>4. QED BY <2>1, <2>2, <2>3, ScanType
<1>2. ASSUME NEW r \in Requests, SupersedeRow(r) PROVE TypeOK'
  <2>1. doomed' = doomed
    BY <1>2 DEF SupersedeRow
  <2>2. QED BY <1>2, <2>1, TakeType DEF SupersedeRow, TypeOK
<1>3. ASSUME NEW r \in Requests, LockOwnRow(r) PROVE TypeOK'
  <2>1. locks' = locks \/ locks' = [locks EXCEPT ![r] = {r}]
    BY <1>3 DEF LockOwnRow
  <2>2. locks' \in [Transactions -> SUBSET Requests]
    BY <2>1 DEF TypeOK
  <2>3. pc' \in [Requests -> Points]
    BY <1>3 DEF TypeOK, LockOwnRow
  <2>4. QED BY <1>3, <2>2, <2>3 DEF TypeOK, LockOwnRow
<1>4. ASSUME NEW r \in Requests, BeginDeactivate(r) PROVE TypeOK'
  <2>1. Existing \ {r} \in SUBSET Requests
    BY DEF Running, Existing
  <2>2. /\ pc' \in [Requests -> Points]
        /\ dpc' \in [Deletes -> {"idle", "nodes_gone", "deleting", "done", "failed"}]
    BY <1>4 DEF TypeOK, BeginDeactivate
  <2>3. Scan(r, Existing \ {r}) /\ UNCHANGED <<rows, locks, doomed, stale, nextVersion, content, reusable, known, published>>
    BY <1>4 DEF TypeOK, BeginDeactivate
  <2>4. QED BY <2>1, <2>2, <2>3, ScanType
<1>5. ASSUME NEW r \in Requests, DeactivateRow(r) PROVE TypeOK'
  <2>1. doomed' = doomed
    BY <1>5 DEF DeactivateRow
  <2>2. QED BY <1>5, <2>1, TakeType DEF DeactivateRow, TypeOK
<1>6. ASSUME NEW r \in Requests, BeginPurge(r) PROVE TypeOK'
  <2>1. {q \in Existing \ {r} : Inactive(r, q)} \in SUBSET Requests
    BY DEF Running, Existing
  <2>2. /\ pc' \in [Requests -> Points]
        /\ dpc' \in [Deletes -> {"idle", "nodes_gone", "deleting", "done", "failed"}]
    BY <1>6 DEF TypeOK, BeginPurge
  <2>3. Scan(r, {q \in Existing \ {r} : Inactive(r, q)}) /\ UNCHANGED <<rows, locks, doomed, stale, nextVersion, content, reusable, known, published>>
    BY <1>6 DEF TypeOK, BeginPurge
  <2>4. QED BY <2>1, <2>2, <2>3, ScanType
<1>7. ASSUME NEW r \in Requests, PurgeRow(r) PROVE TypeOK'
  <2>1. wanted[r] \in Requests
    BY <1>7, TakeFacts DEF PurgeRow
  <2>2. doomed' \in [Requests -> SUBSET Requests]
    BY <1>7, <2>1 DEF TypeOK, PurgeRow
  <2>3. QED BY <1>7, <2>2, TakeType DEF PurgeRow
<1>8. ASSUME NEW d \in Deletes, BeginDeleteIndexes(d) PROVE TypeOK'
  <2>1. Existing \in SUBSET Requests
    BY DEF Running, Existing
  <2>2. /\ pc' \in [Requests -> Points]
        /\ dpc' \in [Deletes -> {"idle", "nodes_gone", "deleting", "done", "failed"}]
    BY <1>8 DEF TypeOK, BeginDeleteIndexes
  <2>3. Scan(d, Existing) /\ UNCHANGED <<rows, locks, doomed, stale, nextVersion, content, reusable, known, published>>
    BY <1>8 DEF TypeOK, BeginDeleteIndexes
  <2>4. QED BY <2>1, <2>2, <2>3, ScanType
<1>9. ASSUME NEW d \in Deletes, DeleteRow(d) PROVE TypeOK'
  <2>1. doomed' = doomed
    BY <1>9 DEF DeleteRow
  <2>2. QED BY <1>9, <2>1, TakeType DEF DeleteRow, TypeOK
<1> USE DEF TypeOK
<1>10. ASSUME NEW r \in Requests, Load(r) PROVE TypeOK'
  BY <1>10 DEF Load
<1>11. ASSUME NEW r \in Requests, Reject(r) PROVE TypeOK'
  BY <1>11 DEF Reject
<1>12. ASSUME NEW r \in Requests, ForceRebuild(r) PROVE TypeOK'
  BY <1>12 DEF ForceRebuild
<1>13. ASSUME NEW r \in Requests, CheckReusable(r) PROVE TypeOK'
  BY <1>13, ReusableIsRequest DEF CheckReusable
<1>14. ASSUME NEW r \in Requests, ClaimDeferred(r) PROVE TypeOK'
  BY <1>14 DEF ClaimDeferred, ClaimTarget
<1>15. ASSUME NEW r \in Requests, ReadVersion(r) PROVE TypeOK'
  BY <1>15 DEF ReadVersion
<1>16. ASSUME NEW r \in Requests, NEW told \in BOOLEAN, InsertRow(r, told) PROVE TypeOK'
  BY <1>16 DEF InsertRow
<1>17. ASSUME NEW r \in Requests, StoreNodes(r) PROVE TypeOK'
  BY <1>17 DEF StoreNodes
<1>18. ASSUME NEW r \in Requests, NEW told \in BOOLEAN, Publish(r, told) PROVE TypeOK'
  BY <1>18 DEF Publish
<1>19. ASSUME NEW r \in Requests, Fail(r) PROVE TypeOK'
  BY <1>19 DEF Fail
<1>20. ASSUME NEW r \in Requests, CloseRow(r) PROVE TypeOK'
  BY <1>20 DEF CloseRow
<1>21. ASSUME NEW r \in Requests, Vanish(r) PROVE TypeOK'
  BY <1>21 DEF Vanish
<1>22. ASSUME NEW d \in Deletes, DeleteNodes(d) PROVE TypeOK'
  BY <1>22 DEF DeleteNodes
<1>23. ASSUME NEW d \in Deletes, DeleteIndexes(d) PROVE TypeOK'
  BY <1>23 DEF DeleteIndexes
<1>24. ASSUME NEW d \in Deletes, FailDelete(d) PROVE TypeOK'
  BY <1>24 DEF FailDelete
<1>25. CASE UNCHANGED vars
  BY <1>25 DEF vars
<1>26. QED
  BY <1>1, <1>2, <1>3, <1>4, <1>5, <1>6, <1>7, <1>8, <1>9, <1>10, <1>11, <1>12, <1>13, <1>14, <1>15, <1>16, <1>17, <1>18, <1>19, <1>20, <1>21, <1>22, <1>23, <1>24, <1>25 DEF Next, Step, Delete, CancelAfterCommit

-----------------------------------------------------------------------------
(* A statement takes a lock nobody else has ...                           *)
LEMMA TakeKeepsLocks ==
  ASSUME TypeOK, LockDiscipline, NEW t \in Transactions, TakeRow(t),
         UNCHANGED <<rows, calls, dpc>>,
         t \in Requests => pc[t] \in CommitPoints \union {"superseding", "versioned"},
         t \in Deletes => dpc[t] = "deleting",
         \A r \in Requests : doomed'[r] \subseteq locks'[r]
  PROVE  LockDiscipline'
<1> USE DEF rows, calls
<1>1. wanted[t] \in Requests /\ \A u \in Transactions \ {t} : wanted[t] \notin locks[u]
  BY TakeFacts
<1>2. /\ locks'[t] = locks[t] \union ({wanted[t]} \intersect Existing)
      /\ \A u \in Transactions \ {t} : locks'[u] = locks[u]
  BY TakeFacts
<1>3. Existing' = Existing
  BY DEF Existing
<1>4. \A u, v \in Transactions : u # v => locks'[u] \intersect locks'[v] = {}
  BY <1>1, <1>2 DEF LockDiscipline
<1>5. \A u \in Transactions : locks'[u] \subseteq Existing'
  BY <1>2, <1>3 DEF LockDiscipline
<1>6. \A r \in Requests : pc'[r] \in CommitPoints => r \in locks'[r] /\ status'[r] = "running"
  BY <1>2, AllAreTransactions DEF LockDiscipline
<1>7. \A r \in Requests : locks'[r] # {} => pc'[r] \in CommitPoints \union {"superseding", "versioned"}
  BY <1>2, AllAreTransactions DEF LockDiscipline
<1>8. \A d \in Deletes : locks'[d] # {} => dpc'[d] = "deleting"
  BY <1>2, AllAreTransactions DEF LockDiscipline
<1>9. QED BY <1>4, <1>5, <1>6, <1>7, <1>8 DEF LockDiscipline

(* ... and a delete that ends has none left. *)
LEMMA ReleaseKeepsLocks ==
  ASSUME TypeOK, LockDiscipline, NEW d \in Deletes, ReleaseLocks(d),
         UNCHANGED <<calls, doomed>>, \A c \in Deletes \ {d} : dpc'[c] = dpc[c],
         \A q \in Requests : status'[q] = status[q] \/ (q \in locks[d] /\ status'[q] = "absent")
  PROVE  LockDiscipline'
<1> USE DEF calls
<1>1. locks'[d] = {} /\ \A u \in Transactions \ {d} : locks'[u] = locks[u]
  BY AllAreTransactions DEF ReleaseLocks, TypeOK
<1>2. \A u \in Transactions \ {d} : \A q \in locks[u] : status'[q] = status[q]
  BY AllAreTransactions DEF LockDiscipline, TypeOK
<1>3. \A u, v \in Transactions : u # v => locks'[u] \intersect locks'[v] = {}
  BY <1>1 DEF LockDiscipline
<1>4. \A u \in Transactions : locks'[u] \subseteq Existing'
  BY <1>1, <1>2 DEF LockDiscipline, Existing
<1>5. \A r \in Requests : r # d /\ r \in Transactions
  BY AllAreTransactions, RequestsAreNotDeletes
<1>6. \A r \in Requests : pc'[r] \in CommitPoints => r \in locks'[r] /\ status'[r] = "running"
  BY <1>1, <1>2, <1>5 DEF LockDiscipline
<1>7. \A r \in Requests : /\ locks'[r] # {} => pc'[r] \in CommitPoints \union {"superseding", "versioned"}
                         /\ doomed'[r] \subseteq locks'[r]
  BY <1>1, <1>5 DEF LockDiscipline
<1>8. \A c \in Deletes : locks'[c] # {} => dpc'[c] = "deleting"
  BY <1>1, AllAreTransactions DEF LockDiscipline
<1>9. QED BY <1>3, <1>4, <1>6, <1>7, <1>8 DEF LockDiscipline

(* Row locks stay exclusive: a statement waits for the locks of others before it takes its own. *)
LEMMA LockStep == TypeOK /\ IndInv /\ [Next]_vars => LockDiscipline'
<1> SUFFICES ASSUME TypeOK, IndInv, [Next]_vars PROVE LockDiscipline'
  OBVIOUS
<1> USE AllAreTransactions DEF Goto, rows, txns, calls, EndTransaction,
            Points, WorkPoints, StartPoints, CommitPoints, FinalPoints, RowlessPoints, SnapshotPoints, IndInv
<1>1. ASSUME NEW r \in Requests, SupersedeRow(r) PROVE LockDiscipline'
  <2>1. TakeRow(r) /\ pc[r] \in CommitPoints \union {"superseding", "versioned"} /\ UNCHANGED <<rows, calls, dpc>>
    BY <1>1 DEF SupersedeRow
  <2>2. doomed' = doomed /\ \A q \in Requests : locks[q] \subseteq locks'[q]
    BY <1>1, TakeFacts DEF SupersedeRow
  <2>3. \A q \in Requests : doomed'[q] \subseteq locks'[q]
    BY <2>2 DEF LockDiscipline
  <2>4. QED BY <2>1, <2>3, TakeKeepsLocks, RequestsAreNotDeletes
<1>2. ASSUME NEW r \in Requests, LockOwnRow(r) PROVE LockDiscipline'
  <2>1. CASE status[r] = "running"
    <3>1. /\ pc[r] = "building" /\ pc' = [pc EXCEPT ![r] = "locked"]
          /\ locks' = [locks EXCEPT ![r] = {r}] /\ UNCHANGED <<status, doomed, dpc>>
      BY <1>2, <2>1 DEF LockOwnRow
    <3>2. \A t \in Transactions \ {r} : r \notin locks[t]
      BY <1>2 DEF LockOwnRow, LockedByOther
    <3>3. locks[r] = {} /\ doomed[r] = {}
      BY <3>1 DEF LockDiscipline
    <3>4. /\ locks'[r] = {r} /\ \A t \in Transactions \ {r} : locks'[t] = locks[t]
          /\ pc'[r] = "locked" /\ \A q \in Requests \ {r} : pc'[q] = pc[q]
      BY <3>1 DEF TypeOK
    <3>5. \A d \in Deletes : d # r
      BY RequestsAreNotDeletes
    <3>6. QED BY <2>1, <3>1, <3>2, <3>3, <3>4, <3>5 DEF LockDiscipline, Existing
  <2>2. CASE status[r] # "running"
    <3>1. pc[r] = "building" /\ UNCHANGED <<locks, status, doomed, dpc>>
      BY <1>2, <2>2 DEF LockOwnRow
    <3>2. locks[r] = {}
      BY <3>1 DEF LockDiscipline
    <3>3. pc'[r] = "closing" /\ \A q \in Requests \ {r} : pc'[q] = pc[q]
      BY <1>2, <2>2 DEF LockOwnRow, TypeOK
    <3>4. QED BY <3>1, <3>2, <3>3 DEF LockDiscipline, Existing
  <2>3. QED BY <2>1, <2>2
<1>3. ASSUME NEW r \in Requests, DeactivateRow(r) PROVE LockDiscipline'
  <2>1. TakeRow(r) /\ pc[r] \in CommitPoints \union {"superseding", "versioned"} /\ UNCHANGED <<rows, calls, dpc>>
    BY <1>3 DEF DeactivateRow
  <2>2. doomed' = doomed /\ \A q \in Requests : locks[q] \subseteq locks'[q]
    BY <1>3, TakeFacts DEF DeactivateRow
  <2>3. \A q \in Requests : doomed'[q] \subseteq locks'[q]
    BY <2>2 DEF LockDiscipline
  <2>4. QED BY <2>1, <2>3, TakeKeepsLocks, RequestsAreNotDeletes
<1>4. ASSUME NEW r \in Requests, PurgeRow(r) PROVE LockDiscipline'
  <2>1. TakeRow(r) /\ pc[r] = "purging" /\ UNCHANGED <<rows, calls, dpc>>
    BY <1>4 DEF PurgeRow
  <2>2. /\ locks'[r] = locks[r] \union ({wanted[r]} \intersect Existing)
        /\ \A q \in Requests \ {r} : locks'[q] = locks[q]
    BY <2>1, TakeFacts
  <2>3. /\ doomed'[r] \subseteq doomed[r] \union ({wanted[r]} \intersect Existing)
        /\ \A q \in Requests \ {r} : doomed'[q] = doomed[q]
    BY <1>4 DEF PurgeRow, TypeOK
  <2>4. \A q \in Requests : doomed'[q] \subseteq locks'[q]
    BY <2>2, <2>3 DEF LockDiscipline
  <2>5. QED BY <2>1, <2>4, TakeKeepsLocks, RequestsAreNotDeletes
<1>5. ASSUME NEW d \in Deletes, DeleteRow(d) PROVE LockDiscipline'
  <2>1. TakeRow(d) /\ dpc[d] = "deleting" /\ UNCHANGED <<rows, calls, dpc>>
    BY <1>5 DEF DeleteRow
  <2>2. doomed' = doomed /\ \A q \in Requests : locks[q] \subseteq locks'[q]
    BY <1>5, TakeFacts DEF DeleteRow
  <2>3. \A q \in Requests : doomed'[q] \subseteq locks'[q]
    BY <2>2 DEF LockDiscipline
  <2>4. QED BY <2>1, <2>3, TakeKeepsLocks, RequestsAreNotDeletes
<1>6. ASSUME NEW d \in Deletes, DeleteIndexes(d) PROVE LockDiscipline'
  <2>1. ReleaseLocks(d) /\ UNCHANGED <<calls, doomed>>
    BY <1>6 DEF DeleteIndexes
  <2>2. /\ \A c \in Deletes \ {d} : dpc'[c] = dpc[c]
        /\ \A q \in Requests : status'[q] = status[q] \/ (q \in locks[d] /\ status'[q] = "absent")
    BY <1>6 DEF DeleteIndexes, TypeOK
  <2>3. QED BY <2>1, <2>2, ReleaseKeepsLocks
<1>7. ASSUME NEW d \in Deletes, FailDelete(d) PROVE LockDiscipline'
  <2>1. ReleaseLocks(d) /\ UNCHANGED <<calls, doomed>>
    BY <1>7 DEF FailDelete
  <2>2. /\ \A c \in Deletes \ {d} : dpc'[c] = dpc[c]
        /\ \A q \in Requests : status'[q] = status[q] \/ (q \in locks[d] /\ status'[q] = "absent")
    BY <1>7 DEF FailDelete, TypeOK
  <2>3. QED BY <2>1, <2>2, ReleaseKeepsLocks
<1> USE DEF TypeOK, Inactive, Existing, Running, LockedByOther, Locked, LockDiscipline, RowLife
<1>8. ASSUME NEW r \in Requests, Load(r) PROVE LockDiscipline'
  BY <1>8 DEF Load
<1>9. ASSUME NEW r \in Requests, Reject(r) PROVE LockDiscipline'
  BY <1>9 DEF Reject
<1>10. ASSUME NEW r \in Requests, ForceRebuild(r) PROVE LockDiscipline'
  BY <1>10 DEF ForceRebuild
<1>11. ASSUME NEW r \in Requests, CheckReusable(r) PROVE LockDiscipline'
  BY <1>11 DEF CheckReusable
<1>12. ASSUME NEW r \in Requests, ClaimDeferred(r) PROVE LockDiscipline'
  BY <1>12 DEF ClaimDeferred, ClaimTarget
<1>13. ASSUME NEW r \in Requests, BeginSupersede(r) PROVE LockDiscipline'
  BY <1>13 DEF BeginSupersede
<1>14. ASSUME NEW r \in Requests, ReadVersion(r) PROVE LockDiscipline'
  BY <1>14 DEF ReadVersion
<1>15. ASSUME NEW r \in Requests, NEW told \in BOOLEAN, InsertRow(r, told) PROVE LockDiscipline'
  BY <1>15 DEF ReleaseLocks, InsertRow
<1>16. ASSUME NEW r \in Requests, StoreNodes(r) PROVE LockDiscipline'
  BY <1>16 DEF StoreNodes
<1>17. ASSUME NEW r \in Requests, BeginDeactivate(r) PROVE LockDiscipline'
  BY <1>17 DEF BeginDeactivate
<1>18. ASSUME NEW r \in Requests, BeginPurge(r) PROVE LockDiscipline'
  BY <1>18 DEF BeginPurge
<1>19. ASSUME NEW r \in Requests, NEW told \in BOOLEAN, Publish(r, told) PROVE LockDiscipline'
  BY <1>19 DEF ReleaseLocks, Publish
<1>20. ASSUME NEW r \in Requests, Fail(r) PROVE LockDiscipline'
  BY <1>20 DEF ReleaseLocks, Fail
<1>21. ASSUME NEW r \in Requests, CloseRow(r) PROVE LockDiscipline'
  BY <1>21 DEF CloseRow
<1>22. ASSUME NEW r \in Requests, Vanish(r) PROVE LockDiscipline'
  BY <1>22 DEF ReleaseLocks, Vanish
<1>23. ASSUME NEW d \in Deletes, DeleteNodes(d) PROVE LockDiscipline'
  BY <1>23 DEF DeleteNodes
<1>24. ASSUME NEW d \in Deletes, BeginDeleteIndexes(d) PROVE LockDiscipline'
  BY <1>24 DEF BeginDeleteIndexes
<1>25. CASE UNCHANGED vars
  BY <1>25 DEF vars
<1>26. QED
  BY <1>1, <1>2, <1>3, <1>4, <1>5, <1>6, <1>7, <1>8, <1>9, <1>10, <1>11, <1>12, <1>13, <1>14, <1>15, <1>16, <1>17, <1>18, <1>19, <1>20, <1>21, <1>22, <1>23, <1>24, <1>25 DEF Next, Step, Delete, CancelAfterCommit

-----------------------------------------------------------------------------
(* A request's row appears with its INSERT and is learned by its Publish only. *)
LEMMA RowStep == TypeOK /\ IndInv /\ [Next]_vars => RowLife'
<1> SUFFICES ASSUME TypeOK, IndInv, [Next]_vars PROVE RowLife'
  OBVIOUS
<1> USE AllAreTransactions DEF TypeOK, Goto, rows, txns, calls,
            ReleaseLocks, Inactive, EndTransaction, Existing, Running, LockedByOther, Locked,
            Points, WorkPoints, StartPoints, CommitPoints, FinalPoints, RowlessPoints, SnapshotPoints, IndInv, LockDiscipline, RowLife
<1>1. ASSUME NEW r \in Requests, Load(r) PROVE RowLife'
  BY <1>1 DEF Load
<1>2. ASSUME NEW r \in Requests, Reject(r) PROVE RowLife'
  BY <1>2 DEF Reject
<1>3. ASSUME NEW r \in Requests, ForceRebuild(r) PROVE RowLife'
  BY <1>3 DEF ForceRebuild
<1>4. ASSUME NEW r \in Requests, CheckReusable(r) PROVE RowLife'
  BY <1>4 DEF CheckReusable
<1>5. ASSUME NEW r \in Requests, ClaimDeferred(r) PROVE RowLife'
  BY <1>5 DEF ClaimDeferred, ClaimTarget
<1>6. ASSUME NEW r \in Requests, BeginSupersede(r) PROVE RowLife'
  BY <1>6 DEF BeginSupersede
<1>7. ASSUME NEW r \in Requests, SupersedeRow(r) PROVE RowLife'
  BY <1>7 DEF SupersedeRow
<1>8. ASSUME NEW r \in Requests, ReadVersion(r) PROVE RowLife'
  BY <1>8 DEF ReadVersion
<1>9. ASSUME NEW r \in Requests, NEW told \in BOOLEAN, InsertRow(r, told) PROVE RowLife'
  BY <1>9 DEF InsertRow
<1>10. ASSUME NEW r \in Requests, LockOwnRow(r) PROVE RowLife'
  BY <1>10 DEF LockOwnRow
<1>11. ASSUME NEW r \in Requests, StoreNodes(r) PROVE RowLife'
  BY <1>11 DEF StoreNodes
<1>12. ASSUME NEW r \in Requests, BeginDeactivate(r) PROVE RowLife'
  BY <1>12 DEF BeginDeactivate
<1>13. ASSUME NEW r \in Requests, DeactivateRow(r) PROVE RowLife'
  BY <1>13 DEF DeactivateRow
<1>14. ASSUME NEW r \in Requests, BeginPurge(r) PROVE RowLife'
  BY <1>14 DEF BeginPurge
<1>15. ASSUME NEW r \in Requests, PurgeRow(r) PROVE RowLife'
  BY <1>15 DEF PurgeRow
<1>16. ASSUME NEW r \in Requests, NEW told \in BOOLEAN, Publish(r, told) PROVE RowLife'
  BY <1>16 DEF Publish
<1>17. ASSUME NEW r \in Requests, Fail(r) PROVE RowLife'
  BY <1>17 DEF Fail
<1>18. ASSUME NEW r \in Requests, CloseRow(r) PROVE RowLife'
  BY <1>18 DEF CloseRow
<1>19. ASSUME NEW r \in Requests, Vanish(r) PROVE RowLife'
  BY <1>19 DEF Vanish
<1>20. ASSUME NEW d \in Deletes, DeleteNodes(d) PROVE RowLife'
  BY <1>20 DEF DeleteNodes
<1>21. ASSUME NEW d \in Deletes, BeginDeleteIndexes(d) PROVE RowLife'
  BY <1>21 DEF BeginDeleteIndexes
<1>22. ASSUME NEW d \in Deletes, DeleteRow(d) PROVE RowLife'
  BY <1>22 DEF DeleteRow
<1>23. ASSUME NEW d \in Deletes, DeleteIndexes(d) PROVE RowLife'
  BY <1>23 DEF DeleteIndexes
<1>24. ASSUME NEW d \in Deletes, FailDelete(d) PROVE RowLife'
  BY <1>24 DEF FailDelete
<1>25. CASE UNCHANGED vars
  BY <1>25 DEF vars
<1>26. QED
  BY <1>1, <1>2, <1>3, <1>4, <1>5, <1>6, <1>7, <1>8, <1>9, <1>10, <1>11, <1>12, <1>13, <1>14, <1>15, <1>16, <1>17, <1>18, <1>19, <1>20, <1>21, <1>22, <1>23, <1>24, <1>25 DEF Next, Step, Delete, CancelAfterCommit

-----------------------------------------------------------------------------
(* What a statement passes it has locked; it cannot pass the row of a      *)
(* transaction that is in its final transaction.                           *)
LEMMA TakeKeepsSwap ==
  ASSUME TypeOK, LockDiscipline, RowLife, SwapDiscipline, NEW t \in Transactions, TakeRow(t),
         UNCHANGED <<rows, calls>>
  PROVE  SwapDiscipline'
<1> USE DEF rows, calls
<1>1. /\ \A u \in Transactions \ {t} : wanted[t] \notin locks[u]
      /\ locks'[t] = locks[t] \union ({wanted[t]} \intersect Existing)
      /\ seen'[t] = seen[t] \ {wanted[t]}
      /\ \A u \in Transactions \ {t} : locks'[u] = locks[u] /\ seen'[u] = seen[u]
  BY TakeFacts
<1>2. \A q, r \in Requests : q # r /\ pc[q] \in CommitPoints /\ q \in seen[r] => q \in seen'[r]
  BY <1>1, AllAreTransactions DEF LockDiscipline
<1>3. SnapshotPoints \subseteq CommitPoints
  BY DEF SnapshotPoints, CommitPoints
<1>4. active \subseteq Existing
  BY DEF RowLife, TypeOK, Existing
<1>5. \A r \in Requests : active \subseteq seen[r] \union locks[r] => active \subseteq seen'[r] \union locks'[r]
  BY <1>1, <1>4, AllAreTransactions
<1>6. \A r \in Requests : locks[r] \subseteq locks'[r]
  BY <1>1, AllAreTransactions
<1>7. \A q, r \in Requests :
        q # r /\ pc'[q] = "deactivating" /\ pc'[r] = "deactivating" => q \in seen'[r] \/ r \in seen'[q]
  BY <1>2, <1>3 DEF SwapDiscipline, SnapshotPoints
<1>8. \A q, r \in Requests :
        q # r /\ pc'[q] \in SnapshotPoints /\ pc'[r] = "purging" => pc'[q] = "deactivating" /\ r \in seen'[q]
  BY <1>2, <1>3 DEF SwapDiscipline, SnapshotPoints
<1>9. QED BY <1>5, <1>6, <1>7, <1>8 DEF SwapDiscipline

(* Two final transactions cannot both get past Deactivate. *)
LEMMA SwapStep == TypeOK /\ IndInv /\ [Next]_vars => SwapDiscipline'
<1> SUFFICES ASSUME TypeOK, IndInv, [Next]_vars PROVE SwapDiscipline'
  OBVIOUS
<1> USE AllAreTransactions DEF Goto, rows, txns, calls, ReleaseLocks, EndTransaction,
            Points, WorkPoints, StartPoints, CommitPoints, FinalPoints, RowlessPoints, SnapshotPoints, IndInv
<1>1. ASSUME NEW r \in Requests, BeginSupersede(r) PROVE SwapDiscipline'
  <2>1. Running \in SUBSET Requests
    BY DEF Running, Existing
  <2>2. Scan(r, Running)
    BY <1>1 DEF BeginSupersede
  <2>3. seen' = [seen EXCEPT ![r] = Running]
    BY <2>1, <2>2, ScanFacts
  <2>4. QED BY <1>1, <2>3, RequestsAreNotDeletes DEF BeginSupersede, TypeOK, Existing, Running, LockDiscipline, RowLife, SwapDiscipline
<1>2. ASSUME NEW r \in Requests, LockOwnRow(r) PROVE SwapDiscipline'
  <2>1. pc[r] = "building" /\ UNCHANGED <<active, seen>>
    BY <1>2 DEF LockOwnRow
  <2>2. pc'[r] \notin SnapshotPoints /\ \A q \in Requests \ {r} : pc'[q] = pc[q] /\ locks'[q] = locks[q]
    BY <1>2 DEF LockOwnRow, TypeOK
  <2>3. QED BY <2>1, <2>2 DEF SwapDiscipline
<1>3. ASSUME NEW r \in Requests, BeginDeactivate(r) PROVE SwapDiscipline'
  <2>1. Existing \ {r} \in SUBSET Requests
    BY DEF Running, Existing
  <2>2. Scan(r, Existing \ {r})
    BY <1>3 DEF BeginDeactivate
  <2>3. seen' = [seen EXCEPT ![r] = Existing \ {r}]
    BY <2>1, <2>2, ScanFacts
  <2>4. QED BY <1>3, <2>3, RequestsAreNotDeletes DEF BeginDeactivate, TypeOK, Existing, Running, LockDiscipline, RowLife, SwapDiscipline
<1>4. ASSUME NEW r \in Requests, BeginPurge(r) PROVE SwapDiscipline'
  <2>1. {q \in Existing \ {r} : Inactive(r, q)} \in SUBSET Requests
    BY DEF Running, Existing
  <2>2. Scan(r, {q \in Existing \ {r} : Inactive(r, q)})
    BY <1>4 DEF BeginPurge
  <2>3. seen' = [seen EXCEPT ![r] = {q \in Existing \ {r} : Inactive(r, q)}]
    BY <2>1, <2>2, ScanFacts
  <2>4. QED BY <1>4, <2>3, RequestsAreNotDeletes DEF BeginPurge, TypeOK, Existing, Running, LockDiscipline, RowLife, SwapDiscipline
<1>5. ASSUME NEW r \in Requests, NEW told \in BOOLEAN, Publish(r, told) PROVE SwapDiscipline'
  <2>1. pc[r] = "purging" /\ pc'[r] \notin SnapshotPoints /\ active' \subseteq active \union {r}
    BY <1>5 DEF Publish, TypeOK
  <2>2. \A q \in Requests : q # r => locks'[q] = locks[q] /\ seen'[q] = seen[q] /\ pc'[q] = pc[q]
    BY <1>5 DEF Publish, TypeOK
  <2>3. \A q \in Requests : q # r /\ pc[q] \in SnapshotPoints => pc[q] = "deactivating" /\ r \in seen[q]
    BY <2>1 DEF SwapDiscipline
  <2>4. QED BY <2>1, <2>2, <2>3 DEF SwapDiscipline
<1>6. ASSUME NEW d \in Deletes, BeginDeleteIndexes(d) PROVE SwapDiscipline'
  <2>1. Existing \in SUBSET Requests
    BY DEF Running, Existing
  <2>2. Scan(d, Existing)
    BY <1>6 DEF BeginDeleteIndexes
  <2>3. seen' = [seen EXCEPT ![d] = Existing]
    BY <2>1, <2>2, ScanFacts
  <2>4. QED BY <1>6, <2>3, RequestsAreNotDeletes DEF BeginDeleteIndexes, TypeOK, Existing, Running, LockDiscipline, RowLife, SwapDiscipline
<1>7. ASSUME NEW d \in Deletes, DeleteIndexes(d) PROVE SwapDiscipline'
  <2>1. /\ UNCHANGED pc /\ active' \subseteq active
        /\ \A q \in Requests : locks'[q] = locks[q] /\ seen'[q] = seen[q]
    BY <1>7, RequestsAreNotDeletes DEF DeleteIndexes, TypeOK
  <2>2. QED BY <2>1 DEF SwapDiscipline
<1>8. ASSUME NEW d \in Deletes, FailDelete(d) PROVE SwapDiscipline'
  <2>1. /\ UNCHANGED pc /\ active' \subseteq active
        /\ \A q \in Requests : locks'[q] = locks[q] /\ seen'[q] = seen[q]
    BY <1>8, RequestsAreNotDeletes DEF FailDelete, TypeOK
  <2>2. QED BY <2>1 DEF SwapDiscipline
<1> USE DEF TypeOK, Inactive, Existing, Running, LockedByOther, Locked,
            LockDiscipline, RowLife, SwapDiscipline, AtMostOneActive
<1>9. ASSUME NEW r \in Requests, Load(r) PROVE SwapDiscipline'
  BY <1>9 DEF Load
<1>10. ASSUME NEW r \in Requests, Reject(r) PROVE SwapDiscipline'
  BY <1>10 DEF Reject
<1>11. ASSUME NEW r \in Requests, ForceRebuild(r) PROVE SwapDiscipline'
  BY <1>11 DEF ForceRebuild
<1>12. ASSUME NEW r \in Requests, CheckReusable(r) PROVE SwapDiscipline'
  BY <1>12 DEF CheckReusable
<1>13. ASSUME NEW r \in Requests, ClaimDeferred(r) PROVE SwapDiscipline'
  BY <1>13 DEF ClaimDeferred, ClaimTarget
<1>14. ASSUME NEW r \in Requests, SupersedeRow(r) PROVE SwapDiscipline'
  BY <1>14, TakeKeepsSwap DEF SupersedeRow
<1>15. ASSUME NEW r \in Requests, ReadVersion(r) PROVE SwapDiscipline'
  BY <1>15 DEF ReadVersion
<1>16. ASSUME NEW r \in Requests, NEW told \in BOOLEAN, InsertRow(r, told) PROVE SwapDiscipline'
  BY <1>16 DEF InsertRow
<1>17. ASSUME NEW r \in Requests, StoreNodes(r) PROVE SwapDiscipline'
  BY <1>17 DEF StoreNodes
<1>18. ASSUME NEW r \in Requests, DeactivateRow(r) PROVE SwapDiscipline'
  BY <1>18, TakeKeepsSwap DEF DeactivateRow
<1>19. ASSUME NEW r \in Requests, PurgeRow(r) PROVE SwapDiscipline'
  BY <1>19, TakeKeepsSwap DEF PurgeRow
<1>20. ASSUME NEW r \in Requests, Fail(r) PROVE SwapDiscipline'
  BY <1>20 DEF Fail
<1>21. ASSUME NEW r \in Requests, CloseRow(r) PROVE SwapDiscipline'
  BY <1>21 DEF CloseRow
<1>22. ASSUME NEW r \in Requests, Vanish(r) PROVE SwapDiscipline'
  BY <1>22 DEF Vanish
<1>23. ASSUME NEW d \in Deletes, DeleteNodes(d) PROVE SwapDiscipline'
  BY <1>23 DEF DeleteNodes
<1>24. ASSUME NEW d \in Deletes, DeleteRow(d) PROVE SwapDiscipline'
  BY <1>24, TakeKeepsSwap DEF DeleteRow
<1>25. CASE UNCHANGED vars
  BY <1>25 DEF vars
<1>26. QED
  BY <1>1, <1>2, <1>3, <1>4, <1>5, <1>6, <1>7, <1>8, <1>9, <1>10, <1>11, <1>12, <1>13, <1>14, <1>15, <1>16, <1>17, <1>18, <1>19, <1>20, <1>21, <1>22, <1>23, <1>24, <1>25 DEF Next, Step, Delete, CancelAfterCommit

-----------------------------------------------------------------------------
(* Publish leaves its own row as the only active one. *)
LEMMA ActiveStep == TypeOK /\ IndInv /\ [Next]_vars => AtMostOneActive'
<1> SUFFICES ASSUME TypeOK, IndInv, [Next]_vars PROVE AtMostOneActive'
  OBVIOUS
<1> USE AllAreTransactions DEF TypeOK, Goto, rows, txns, calls,
            ReleaseLocks, Inactive, EndTransaction, Existing, Running, LockedByOther, Locked,
            Points, WorkPoints, StartPoints, CommitPoints, FinalPoints, RowlessPoints, SnapshotPoints, IndInv, LockDiscipline, RowLife, SwapDiscipline, AtMostOneActive
<1>1. ASSUME NEW r \in Requests, Load(r) PROVE AtMostOneActive'
  BY <1>1 DEF Load
<1>2. ASSUME NEW r \in Requests, Reject(r) PROVE AtMostOneActive'
  BY <1>2 DEF Reject
<1>3. ASSUME NEW r \in Requests, ForceRebuild(r) PROVE AtMostOneActive'
  BY <1>3 DEF ForceRebuild
<1>4. ASSUME NEW r \in Requests, CheckReusable(r) PROVE AtMostOneActive'
  BY <1>4 DEF CheckReusable
<1>5. ASSUME NEW r \in Requests, ClaimDeferred(r) PROVE AtMostOneActive'
  BY <1>5 DEF ClaimDeferred, ClaimTarget
<1>6. ASSUME NEW r \in Requests, BeginSupersede(r) PROVE AtMostOneActive'
  BY <1>6 DEF BeginSupersede
<1>7. ASSUME NEW r \in Requests, SupersedeRow(r) PROVE AtMostOneActive'
  BY <1>7 DEF SupersedeRow
<1>8. ASSUME NEW r \in Requests, ReadVersion(r) PROVE AtMostOneActive'
  BY <1>8 DEF ReadVersion
<1>9. ASSUME NEW r \in Requests, NEW told \in BOOLEAN, InsertRow(r, told) PROVE AtMostOneActive'
  BY <1>9 DEF InsertRow
<1>10. ASSUME NEW r \in Requests, LockOwnRow(r) PROVE AtMostOneActive'
  BY <1>10 DEF LockOwnRow
<1>11. ASSUME NEW r \in Requests, StoreNodes(r) PROVE AtMostOneActive'
  BY <1>11 DEF StoreNodes
<1>12. ASSUME NEW r \in Requests, BeginDeactivate(r) PROVE AtMostOneActive'
  BY <1>12 DEF BeginDeactivate
<1>13. ASSUME NEW r \in Requests, DeactivateRow(r) PROVE AtMostOneActive'
  BY <1>13 DEF DeactivateRow
<1>14. ASSUME NEW r \in Requests, BeginPurge(r) PROVE AtMostOneActive'
  BY <1>14 DEF BeginPurge
<1>15. ASSUME NEW r \in Requests, PurgeRow(r) PROVE AtMostOneActive'
  BY <1>15 DEF PurgeRow
<1>16. ASSUME NEW r \in Requests, NEW told \in BOOLEAN, Publish(r, told) PROVE AtMostOneActive'
  <2>1. active \subseteq locks[r]
    \* the scan of deactivate_other_indexes has passed the active row
    BY <1>16 DEF Publish
  <2>2. active' = {r}
    BY <1>16, <2>1 DEF Publish
  <2>3. QED BY <1>16, <2>2 DEF Publish
<1>17. ASSUME NEW r \in Requests, Fail(r) PROVE AtMostOneActive'
  BY <1>17 DEF Fail
<1>18. ASSUME NEW r \in Requests, CloseRow(r) PROVE AtMostOneActive'
  BY <1>18 DEF CloseRow
<1>19. ASSUME NEW r \in Requests, Vanish(r) PROVE AtMostOneActive'
  BY <1>19 DEF Vanish
<1>20. ASSUME NEW d \in Deletes, DeleteNodes(d) PROVE AtMostOneActive'
  BY <1>20 DEF DeleteNodes
<1>21. ASSUME NEW d \in Deletes, BeginDeleteIndexes(d) PROVE AtMostOneActive'
  BY <1>21 DEF BeginDeleteIndexes
<1>22. ASSUME NEW d \in Deletes, DeleteRow(d) PROVE AtMostOneActive'
  BY <1>22 DEF DeleteRow
<1>23. ASSUME NEW d \in Deletes, DeleteIndexes(d) PROVE AtMostOneActive'
  BY <1>23 DEF DeleteIndexes
<1>24. ASSUME NEW d \in Deletes, FailDelete(d) PROVE AtMostOneActive'
  BY <1>24 DEF FailDelete
<1>25. CASE UNCHANGED vars
  BY <1>25 DEF vars
<1>26. QED
  BY <1>1, <1>2, <1>3, <1>4, <1>5, <1>6, <1>7, <1>8, <1>9, <1>10, <1>11, <1>12, <1>13, <1>14, <1>15, <1>16, <1>17, <1>18, <1>19, <1>20, <1>21, <1>22, <1>23, <1>24, <1>25 DEF Next, Step, Delete, CancelAfterCommit

-----------------------------------------------------------------------------
(* The inductive invariant holds in every reachable state. *)
LEMMA Inductive == Spec => [](TypeOK /\ IndInv)
<1>1. Init => TypeOK /\ IndInv
  <2> SUFFICES ASSUME Init PROVE TypeOK /\ IndInv
    OBVIOUS
  <2> USE AllAreTransactions DEF Init
  <2>1. TypeOK
    BY DEF TypeOK, Points, WorkPoints, FinalPoints
  <2>2. LockDiscipline
    BY DEF LockDiscipline, CommitPoints
  <2>3. RowLife /\ SwapDiscipline /\ AtMostOneActive
    BY DEF RowLife, SwapDiscipline, AtMostOneActive, SnapshotPoints
  <2>4. QED BY <2>1, <2>2, <2>3 DEF IndInv
<1>2. TypeOK /\ IndInv /\ [Next]_vars => (TypeOK /\ IndInv)'
  BY TypeStep, LockStep, RowStep, SwapStep, ActiveStep DEF IndInv
<1>3. QED BY <1>1, <1>2, PTL DEF Spec

(* Every variable keeps its type, for any set of requests and deletes. *)
THEOREM TypeCorrect == Spec => []TypeOK
BY Inductive, PTL

(* A document never has two active indexes, and the active one is learned: *)
(* retrieval never mixes two revisions of a document.                      *)
THEOREM OneActiveIndex == Spec => []AtMostOneActive
<1>1. IndInv => AtMostOneActive
  BY DEF IndInv
<1>2. QED BY Inductive, <1>1, PTL

-----------------------------------------------------------------------------
(* A request that knows its running row leaves it only by closing it or by dying. *)
LEMMA OwnerStep == TypeOK /\ IndInv /\ RunningRowHasAnOwner /\ [Next]_vars => RunningRowHasAnOwner'
<1> SUFFICES ASSUME TypeOK, IndInv, RunningRowHasAnOwner, [Next]_vars PROVE RunningRowHasAnOwner'
  OBVIOUS
<1> USE AllAreTransactions DEF TypeOK, Goto, rows, txns, calls,
            ReleaseLocks, Inactive, EndTransaction, Existing, Running, LockedByOther, Locked,
            Points, WorkPoints, StartPoints, CommitPoints, FinalPoints, RowlessPoints, SnapshotPoints, IndInv, LockDiscipline, RowLife, RunningRowHasAnOwner
<1>1. ASSUME NEW r \in Requests, Load(r) PROVE RunningRowHasAnOwner'
  BY <1>1 DEF Load
<1>2. ASSUME NEW r \in Requests, Reject(r) PROVE RunningRowHasAnOwner'
  BY <1>2 DEF Reject
<1>3. ASSUME NEW r \in Requests, ForceRebuild(r) PROVE RunningRowHasAnOwner'
  BY <1>3 DEF ForceRebuild
<1>4. ASSUME NEW r \in Requests, CheckReusable(r) PROVE RunningRowHasAnOwner'
  BY <1>4 DEF CheckReusable
<1>5. ASSUME NEW r \in Requests, ClaimDeferred(r) PROVE RunningRowHasAnOwner'
  BY <1>5 DEF ClaimDeferred, ClaimTarget
<1>6. ASSUME NEW r \in Requests, BeginSupersede(r) PROVE RunningRowHasAnOwner'
  BY <1>6 DEF BeginSupersede
<1>7. ASSUME NEW r \in Requests, SupersedeRow(r) PROVE RunningRowHasAnOwner'
  BY <1>7 DEF SupersedeRow
<1>8. ASSUME NEW r \in Requests, ReadVersion(r) PROVE RunningRowHasAnOwner'
  BY <1>8 DEF ReadVersion
<1>9. ASSUME NEW r \in Requests, NEW told \in BOOLEAN, InsertRow(r, told) PROVE RunningRowHasAnOwner'
  BY <1>9 DEF InsertRow
<1>10. ASSUME NEW r \in Requests, LockOwnRow(r) PROVE RunningRowHasAnOwner'
  BY <1>10 DEF LockOwnRow
<1>11. ASSUME NEW r \in Requests, StoreNodes(r) PROVE RunningRowHasAnOwner'
  BY <1>11 DEF StoreNodes
<1>12. ASSUME NEW r \in Requests, BeginDeactivate(r) PROVE RunningRowHasAnOwner'
  BY <1>12 DEF BeginDeactivate
<1>13. ASSUME NEW r \in Requests, DeactivateRow(r) PROVE RunningRowHasAnOwner'
  BY <1>13 DEF DeactivateRow
<1>14. ASSUME NEW r \in Requests, BeginPurge(r) PROVE RunningRowHasAnOwner'
  BY <1>14 DEF BeginPurge
<1>15. ASSUME NEW r \in Requests, PurgeRow(r) PROVE RunningRowHasAnOwner'
  BY <1>15 DEF PurgeRow
<1>16. ASSUME NEW r \in Requests, NEW told \in BOOLEAN, Publish(r, told) PROVE RunningRowHasAnOwner'
  BY <1>16 DEF Publish
<1>17. ASSUME NEW r \in Requests, Fail(r) PROVE RunningRowHasAnOwner'
  BY <1>17 DEF Fail
<1>18. ASSUME NEW r \in Requests, CloseRow(r) PROVE RunningRowHasAnOwner'
  BY <1>18 DEF CloseRow
<1>19. ASSUME NEW r \in Requests, Vanish(r) PROVE RunningRowHasAnOwner'
  BY <1>19 DEF Vanish
<1>20. ASSUME NEW d \in Deletes, DeleteNodes(d) PROVE RunningRowHasAnOwner'
  BY <1>20 DEF DeleteNodes
<1>21. ASSUME NEW d \in Deletes, BeginDeleteIndexes(d) PROVE RunningRowHasAnOwner'
  BY <1>21 DEF BeginDeleteIndexes
<1>22. ASSUME NEW d \in Deletes, DeleteRow(d) PROVE RunningRowHasAnOwner'
  BY <1>22 DEF DeleteRow
<1>23. ASSUME NEW d \in Deletes, DeleteIndexes(d) PROVE RunningRowHasAnOwner'
  BY <1>23 DEF DeleteIndexes
<1>24. ASSUME NEW d \in Deletes, FailDelete(d) PROVE RunningRowHasAnOwner'
  BY <1>24 DEF FailDelete
<1>25. CASE UNCHANGED vars
  BY <1>25 DEF vars
<1>26. QED
  BY <1>1, <1>2, <1>3, <1>4, <1>5, <1>6, <1>7, <1>8, <1>9, <1>10, <1>11, <1>12, <1>13, <1>14, <1>15, <1>16, <1>17, <1>18, <1>19, <1>20, <1>21, <1>22, <1>23, <1>24, <1>25 DEF Next, Step, Delete, CancelAfterCommit

(* No request whose except clauses ran leaves a running row behind, unless *)
(* it was never told the row's id (index.py:304-322).                      *)
THEOREM RunningRowsAreOwned == Spec => []RunningRowHasAnOwner
<1>1. Init => RunningRowHasAnOwner
  BY DEF Init, RunningRowHasAnOwner, Running
<1>2. QED BY Inductive, <1>1, OwnerStep, PTL DEF Spec

-----------------------------------------------------------------------------
(* mark_index_error, the supersede UPDATE and mark_index_learned only rewrite running rows. *)
LEMMA SettledStep == TypeOK /\ IndInv /\ [Next]_vars => SettledRowsKeepTheirStatus
<1> SUFFICES ASSUME TypeOK, IndInv, [Next]_vars PROVE SettledRowsKeepTheirStatus
  OBVIOUS
<1> USE AllAreTransactions DEF TypeOK, Goto, rows, txns, calls,
            ReleaseLocks, Inactive, EndTransaction, Existing, Running, LockedByOther, Locked,
            Points, WorkPoints, StartPoints, CommitPoints, FinalPoints, RowlessPoints, SnapshotPoints, IndInv, LockDiscipline, RowLife,
            SettledRowsKeepTheirStatus
<1>1. ASSUME NEW r \in Requests, Load(r) PROVE SettledRowsKeepTheirStatus
  BY <1>1 DEF Load
<1>2. ASSUME NEW r \in Requests, Reject(r) PROVE SettledRowsKeepTheirStatus
  BY <1>2 DEF Reject
<1>3. ASSUME NEW r \in Requests, ForceRebuild(r) PROVE SettledRowsKeepTheirStatus
  BY <1>3 DEF ForceRebuild
<1>4. ASSUME NEW r \in Requests, CheckReusable(r) PROVE SettledRowsKeepTheirStatus
  BY <1>4 DEF CheckReusable
<1>5. ASSUME NEW r \in Requests, ClaimDeferred(r) PROVE SettledRowsKeepTheirStatus
  BY <1>5 DEF ClaimDeferred, ClaimTarget
<1>6. ASSUME NEW r \in Requests, BeginSupersede(r) PROVE SettledRowsKeepTheirStatus
  BY <1>6 DEF BeginSupersede
<1>7. ASSUME NEW r \in Requests, SupersedeRow(r) PROVE SettledRowsKeepTheirStatus
  BY <1>7 DEF SupersedeRow
<1>8. ASSUME NEW r \in Requests, ReadVersion(r) PROVE SettledRowsKeepTheirStatus
  BY <1>8 DEF ReadVersion
<1>9. ASSUME NEW r \in Requests, NEW told \in BOOLEAN, InsertRow(r, told) PROVE SettledRowsKeepTheirStatus
  BY <1>9 DEF InsertRow
<1>10. ASSUME NEW r \in Requests, LockOwnRow(r) PROVE SettledRowsKeepTheirStatus
  BY <1>10 DEF LockOwnRow
<1>11. ASSUME NEW r \in Requests, StoreNodes(r) PROVE SettledRowsKeepTheirStatus
  BY <1>11 DEF StoreNodes
<1>12. ASSUME NEW r \in Requests, BeginDeactivate(r) PROVE SettledRowsKeepTheirStatus
  BY <1>12 DEF BeginDeactivate
<1>13. ASSUME NEW r \in Requests, DeactivateRow(r) PROVE SettledRowsKeepTheirStatus
  BY <1>13 DEF DeactivateRow
<1>14. ASSUME NEW r \in Requests, BeginPurge(r) PROVE SettledRowsKeepTheirStatus
  BY <1>14 DEF BeginPurge
<1>15. ASSUME NEW r \in Requests, PurgeRow(r) PROVE SettledRowsKeepTheirStatus
  BY <1>15 DEF PurgeRow
<1>16. ASSUME NEW r \in Requests, NEW told \in BOOLEAN, Publish(r, told) PROVE SettledRowsKeepTheirStatus
  BY <1>16 DEF Publish
<1>17. ASSUME NEW r \in Requests, Fail(r) PROVE SettledRowsKeepTheirStatus
  BY <1>17 DEF Fail
<1>18. ASSUME NEW r \in Requests, CloseRow(r) PROVE SettledRowsKeepTheirStatus
  BY <1>18 DEF CloseRow
<1>19. ASSUME NEW r \in Requests, Vanish(r) PROVE SettledRowsKeepTheirStatus
  BY <1>19 DEF Vanish
<1>20. ASSUME NEW d \in Deletes, DeleteNodes(d) PROVE SettledRowsKeepTheirStatus
  BY <1>20 DEF DeleteNodes
<1>21. ASSUME NEW d \in Deletes, BeginDeleteIndexes(d) PROVE SettledRowsKeepTheirStatus
  BY <1>21 DEF BeginDeleteIndexes
<1>22. ASSUME NEW d \in Deletes, DeleteRow(d) PROVE SettledRowsKeepTheirStatus
  BY <1>22 DEF DeleteRow
<1>23. ASSUME NEW d \in Deletes, DeleteIndexes(d) PROVE SettledRowsKeepTheirStatus
  BY <1>23 DEF DeleteIndexes
<1>24. ASSUME NEW d \in Deletes, FailDelete(d) PROVE SettledRowsKeepTheirStatus
  BY <1>24 DEF FailDelete
<1>25. CASE UNCHANGED vars
  BY <1>25 DEF vars
<1>26. QED
  BY <1>1, <1>2, <1>3, <1>4, <1>5, <1>6, <1>7, <1>8, <1>9, <1>10, <1>11, <1>12, <1>13, <1>14, <1>15, <1>16, <1>17, <1>18, <1>19, <1>20, <1>21, <1>22, <1>23, <1>24, <1>25 DEF Next, Step, Delete, CancelAfterCommit

(* A superseded index is never learned, a learned one never fails. *)
THEOREM SettledIsFinal == Spec => SettledStatusIsFinal
BY Inductive, SettledStep, PTL DEF Spec, SettledStatusIsFinal

-----------------------------------------------------------------------------
(* Only DeleteIndexes takes the last active row away. *)
LEMMA ServedStep == TypeOK /\ [Next]_vars => OnlyDeletesWithdraw
<1> SUFFICES ASSUME TypeOK, [Next]_vars PROVE OnlyDeletesWithdraw
  OBVIOUS
<1> USE AllAreTransactions DEF OnlyDeletesWithdraw, TypeOK, Goto, rows, txns, calls,
            ReleaseLocks, Inactive, EndTransaction, Existing, Running, LockedByOther, Locked,
            Points, WorkPoints, StartPoints, CommitPoints, FinalPoints, RowlessPoints, SnapshotPoints
<1>1. ASSUME NEW r \in Requests, Load(r) PROVE OnlyDeletesWithdraw
  BY <1>1 DEF Load
<1>2. ASSUME NEW r \in Requests, Reject(r) PROVE OnlyDeletesWithdraw
  BY <1>2 DEF Reject
<1>3. ASSUME NEW r \in Requests, ForceRebuild(r) PROVE OnlyDeletesWithdraw
  BY <1>3 DEF ForceRebuild
<1>4. ASSUME NEW r \in Requests, CheckReusable(r) PROVE OnlyDeletesWithdraw
  BY <1>4 DEF CheckReusable
<1>5. ASSUME NEW r \in Requests, ClaimDeferred(r) PROVE OnlyDeletesWithdraw
  BY <1>5 DEF ClaimDeferred, ClaimTarget
<1>6. ASSUME NEW r \in Requests, BeginSupersede(r) PROVE OnlyDeletesWithdraw
  BY <1>6 DEF BeginSupersede
<1>7. ASSUME NEW r \in Requests, SupersedeRow(r) PROVE OnlyDeletesWithdraw
  BY <1>7 DEF SupersedeRow
<1>8. ASSUME NEW r \in Requests, ReadVersion(r) PROVE OnlyDeletesWithdraw
  BY <1>8 DEF ReadVersion
<1>9. ASSUME NEW r \in Requests, NEW told \in BOOLEAN, InsertRow(r, told) PROVE OnlyDeletesWithdraw
  BY <1>9 DEF InsertRow
<1>10. ASSUME NEW r \in Requests, LockOwnRow(r) PROVE OnlyDeletesWithdraw
  BY <1>10 DEF LockOwnRow
<1>11. ASSUME NEW r \in Requests, StoreNodes(r) PROVE OnlyDeletesWithdraw
  BY <1>11 DEF StoreNodes
<1>12. ASSUME NEW r \in Requests, BeginDeactivate(r) PROVE OnlyDeletesWithdraw
  BY <1>12 DEF BeginDeactivate
<1>13. ASSUME NEW r \in Requests, DeactivateRow(r) PROVE OnlyDeletesWithdraw
  BY <1>13 DEF DeactivateRow
<1>14. ASSUME NEW r \in Requests, BeginPurge(r) PROVE OnlyDeletesWithdraw
  BY <1>14 DEF BeginPurge
<1>15. ASSUME NEW r \in Requests, PurgeRow(r) PROVE OnlyDeletesWithdraw
  BY <1>15 DEF PurgeRow
<1>16. ASSUME NEW r \in Requests, NEW told \in BOOLEAN, Publish(r, told) PROVE OnlyDeletesWithdraw
  BY <1>16 DEF Publish
<1>17. ASSUME NEW r \in Requests, Fail(r) PROVE OnlyDeletesWithdraw
  BY <1>17 DEF Fail
<1>18. ASSUME NEW r \in Requests, CloseRow(r) PROVE OnlyDeletesWithdraw
  BY <1>18 DEF CloseRow
<1>19. ASSUME NEW r \in Requests, Vanish(r) PROVE OnlyDeletesWithdraw
  BY <1>19 DEF Vanish
<1>20. ASSUME NEW d \in Deletes, DeleteNodes(d) PROVE OnlyDeletesWithdraw
  BY <1>20 DEF DeleteNodes
<1>21. ASSUME NEW d \in Deletes, BeginDeleteIndexes(d) PROVE OnlyDeletesWithdraw
  BY <1>21 DEF BeginDeleteIndexes
<1>22. ASSUME NEW d \in Deletes, DeleteRow(d) PROVE OnlyDeletesWithdraw
  BY <1>22 DEF DeleteRow
<1>23. ASSUME NEW d \in Deletes, DeleteIndexes(d) PROVE OnlyDeletesWithdraw
  BY <1>23 DEF DeleteIndexes
<1>24. ASSUME NEW d \in Deletes, FailDelete(d) PROVE OnlyDeletesWithdraw
  BY <1>24 DEF FailDelete
<1>25. CASE UNCHANGED vars
  BY <1>25 DEF vars
<1>26. QED
  BY <1>1, <1>2, <1>3, <1>4, <1>5, <1>6, <1>7, <1>8, <1>9, <1>10, <1>11, <1>12, <1>13, <1>14, <1>15, <1>16, <1>17, <1>18, <1>19, <1>20, <1>21, <1>22, <1>23, <1>24, <1>25 DEF Next, Step, Delete, CancelAfterCommit

(* Re-indexing never leaves a served document without an index. *)
THEOREM NeverUnserved == Spec => ServedUntilDeleted
BY Inductive, ServedStep, PTL DEF Spec, ServedUntilDeleted

-----------------------------------------------------------------------------
(* Publish is the abstract Publish, DeleteIndexes a Withdraw or a stutter, the rest stutters. *)
LEMMA PromiseStep == TypeOK /\ IndInv /\ [Next]_vars => [Promise!Next]_<<ServedIndex, published>>
<1> SUFFICES ASSUME TypeOK, IndInv, [Next]_vars PROVE [Promise!Next]_<<ServedIndex, published>>
  OBVIOUS
<1> USE AllAreTransactions DEF TypeOK, Goto, rows, txns, calls,
            ReleaseLocks, Inactive, EndTransaction, Existing, Running, LockedByOther, Locked,
            Points, WorkPoints, StartPoints, CommitPoints, FinalPoints, RowlessPoints, SnapshotPoints, IndInv, LockDiscipline, RowLife, SwapDiscipline, AtMostOneActive,
            ServedIndex, Promise!Next, Promise!Publish, Promise!Withdraw
<1>1. ASSUME NEW r \in Requests, Load(r) PROVE [Promise!Next]_<<ServedIndex, published>>
  BY <1>1 DEF Load
<1>2. ASSUME NEW r \in Requests, Reject(r) PROVE [Promise!Next]_<<ServedIndex, published>>
  BY <1>2 DEF Reject
<1>3. ASSUME NEW r \in Requests, ForceRebuild(r) PROVE [Promise!Next]_<<ServedIndex, published>>
  BY <1>3 DEF ForceRebuild
<1>4. ASSUME NEW r \in Requests, CheckReusable(r) PROVE [Promise!Next]_<<ServedIndex, published>>
  BY <1>4 DEF CheckReusable
<1>5. ASSUME NEW r \in Requests, ClaimDeferred(r) PROVE [Promise!Next]_<<ServedIndex, published>>
  BY <1>5 DEF ClaimDeferred, ClaimTarget
<1>6. ASSUME NEW r \in Requests, BeginSupersede(r) PROVE [Promise!Next]_<<ServedIndex, published>>
  BY <1>6 DEF BeginSupersede
<1>7. ASSUME NEW r \in Requests, SupersedeRow(r) PROVE [Promise!Next]_<<ServedIndex, published>>
  BY <1>7 DEF SupersedeRow
<1>8. ASSUME NEW r \in Requests, ReadVersion(r) PROVE [Promise!Next]_<<ServedIndex, published>>
  BY <1>8 DEF ReadVersion
<1>9. ASSUME NEW r \in Requests, NEW told \in BOOLEAN, InsertRow(r, told) PROVE [Promise!Next]_<<ServedIndex, published>>
  BY <1>9 DEF InsertRow
<1>10. ASSUME NEW r \in Requests, LockOwnRow(r) PROVE [Promise!Next]_<<ServedIndex, published>>
  BY <1>10 DEF LockOwnRow
<1>11. ASSUME NEW r \in Requests, StoreNodes(r) PROVE [Promise!Next]_<<ServedIndex, published>>
  BY <1>11 DEF StoreNodes
<1>12. ASSUME NEW r \in Requests, BeginDeactivate(r) PROVE [Promise!Next]_<<ServedIndex, published>>
  BY <1>12 DEF BeginDeactivate
<1>13. ASSUME NEW r \in Requests, DeactivateRow(r) PROVE [Promise!Next]_<<ServedIndex, published>>
  BY <1>13 DEF DeactivateRow
<1>14. ASSUME NEW r \in Requests, BeginPurge(r) PROVE [Promise!Next]_<<ServedIndex, published>>
  BY <1>14 DEF BeginPurge
<1>15. ASSUME NEW r \in Requests, PurgeRow(r) PROVE [Promise!Next]_<<ServedIndex, published>>
  BY <1>15 DEF PurgeRow
<1>16. ASSUME NEW r \in Requests, NEW told \in BOOLEAN, Publish(r, told) PROVE [Promise!Next]_<<ServedIndex, published>>
  BY <1>16 DEF Publish
<1>17. ASSUME NEW r \in Requests, Fail(r) PROVE [Promise!Next]_<<ServedIndex, published>>
  BY <1>17 DEF Fail
<1>18. ASSUME NEW r \in Requests, CloseRow(r) PROVE [Promise!Next]_<<ServedIndex, published>>
  BY <1>18 DEF CloseRow
<1>19. ASSUME NEW r \in Requests, Vanish(r) PROVE [Promise!Next]_<<ServedIndex, published>>
  BY <1>19 DEF Vanish
<1>20. ASSUME NEW d \in Deletes, DeleteNodes(d) PROVE [Promise!Next]_<<ServedIndex, published>>
  BY <1>20 DEF DeleteNodes
<1>21. ASSUME NEW d \in Deletes, BeginDeleteIndexes(d) PROVE [Promise!Next]_<<ServedIndex, published>>
  BY <1>21 DEF BeginDeleteIndexes
<1>22. ASSUME NEW d \in Deletes, DeleteRow(d) PROVE [Promise!Next]_<<ServedIndex, published>>
  BY <1>22 DEF DeleteRow
<1>23. ASSUME NEW d \in Deletes, DeleteIndexes(d) PROVE [Promise!Next]_<<ServedIndex, published>>
  BY <1>23 DEF DeleteIndexes
<1>24. ASSUME NEW d \in Deletes, FailDelete(d) PROVE [Promise!Next]_<<ServedIndex, published>>
  BY <1>24 DEF FailDelete
<1>25. CASE UNCHANGED vars
  BY <1>25 DEF vars
<1>26. QED
  BY <1>1, <1>2, <1>3, <1>4, <1>5, <1>6, <1>7, <1>8, <1>9, <1>10, <1>11, <1>12, <1>13, <1>14, <1>15, <1>16, <1>17, <1>18, <1>19, <1>20, <1>21, <1>22, <1>23, <1>24, <1>25 DEF Next, Step, Delete, CancelAfterCommit

(* The index rows, locks and transactions implement PublishedIndex. *)
THEOREM Implements == Spec => ImplementsPublishedIndex
<1>1. Init => Promise!Init
  BY DEF Init, Promise!Init, ServedIndex
<1>2. QED BY Inductive, <1>1, PromiseStep, PTL DEF Spec, ImplementsPublishedIndex, Promise!Spec
-----------------------------------------------------------------------------
(* Publish is the only step that serves another index, and it leaves that  *)
(* one alone, with the nodes it stored; only a delete removes the nodes of *)
(* the served one.                                                         *)
LEMMA NodesStep ==
  TypeOK /\ ServedHasItsNodes /\ [Next]_vars /\ AtMostOneActive' => ServedHasItsNodes'
<1> SUFFICES ASSUME TypeOK, ServedHasItsNodes, [Next]_vars, AtMostOneActive'
             PROVE  ServedHasItsNodes'
  OBVIOUS
<1>1. ASSUME NEW r \in Requests, NEW told \in BOOLEAN, Publish(r, told) PROVE ServedHasItsNodes'
  <2>1. r \in active' /\ r \in nodes'
    BY <1>1 DEF Publish
  <2>2. active' \subseteq {r}
    BY <2>1 DEF AtMostOneActive
  <2>3. QED  BY <2>1, <2>2 DEF ServedHasItsNodes
<1>2. ASSUME NEW d \in Deletes, DeleteNodes(d) PROVE ServedHasItsNodes'
  <2>1. dpc'[d] = "nodes_gone"
    BY <1>2 DEF DeleteNodes, TypeOK
  <2>2. QED  BY <2>1 DEF ServedHasItsNodes
<1>3. ASSUME NEW d \in Deletes, BeginDeleteIndexes(d) \/ DeleteRow(d) \/ DeleteIndexes(d) \/ FailDelete(d)
      PROVE  ServedHasItsNodes'
  <2>1. dpc[d] # "idle" /\ dpc'[d] # "idle"
    BY <1>3 DEF BeginDeleteIndexes, DeleteRow, DeleteIndexes, FailDelete, TypeOK
  <2>2. QED  BY <2>1 DEF ServedHasItsNodes
<1>4. CASE UNCHANGED <<active, nodes, dpc>>
  BY <1>4 DEF ServedHasItsNodes
<1>5. ASSUME NEW r \in Requests,
             \/ Load(r) \/ Reject(r) \/ CloseRow(r) \/ Fail(r) \/ Vanish(r)
             \/ ForceRebuild(r) \/ CheckReusable(r) \/ ClaimDeferred(r)
             \/ BeginSupersede(r) \/ SupersedeRow(r) \/ ReadVersion(r)
             \/ InsertRow(r, TRUE) \/ InsertRow(r, FALSE)
             \/ LockOwnRow(r) \/ StoreNodes(r) \/ BeginDeactivate(r) \/ DeactivateRow(r) \/ BeginPurge(r) \/ PurgeRow(r)
      PROVE  UNCHANGED <<active, nodes, dpc>>
  BY <1>5 DEF Load, Reject, CloseRow, Fail, Vanish, ForceRebuild, CheckReusable, ClaimDeferred,
     BeginSupersede, SupersedeRow, ReadVersion, InsertRow, LockOwnRow, StoreNodes, BeginDeactivate,
     DeactivateRow, BeginPurge, PurgeRow, rows, txns, calls
<1>6. CASE UNCHANGED vars
  BY <1>4, <1>6 DEF vars, rows
<1>7. QED
  BY <1>1, <1>2, <1>3, <1>4, <1>5, <1>6 DEF Next, Step, CancelAfterCommit, Delete

(* The served index keeps its structure nodes until a delete begins. *)
THEOREM ServedKeepsItsNodes == Spec => []ServedHasItsNodes
<1>1. Init => ServedHasItsNodes
  BY DEF Init, ServedHasItsNodes
<1>2. QED  BY <1>1, NodesStep, TypeCorrect, OneActiveIndex, PTL DEF Spec

-----------------------------------------------------------------------------
(* Why some request wins when nothing fails from outside.  A request that  *)
(* has its row, still running, may yet publish it; one that supersedes     *)
(* others will have a row of its own.                                      *)
Contenders ==
  {r \in Requests :
     \/ pc[r] \in StartPoints
     \/ pc[r] \in {"building"} \union CommitPoints /\ status[r] = "running"}

(* As long as no index is active, a row of the document that was ever      *)
(* inserted leaves a contender: whoever supersedes one is one itself.      *)
ContenderIsLeft ==
  /\ active # {} \/ Existing = {} \/ Contenders # {}
  /\ \A d \in Deletes : dpc[d] = "idle"

(* Only a transaction that holds locks is waited for: every request of a   *)
(* deadlock is superseding others or in its final transaction.             *)
LEMMA DeadlocksAreOfContenders ==
  ASSUME TypeOK, LockDiscipline, \A d \in Deletes : dpc[d] = "idle",
         NEW r \in Requests, Deadlocked(r)
  PROVE  \E q \in Contenders : q # r
<1>1. PICK S \in SUBSET {u \in Transactions : WaitsFor(u) # {}} :
        /\ r \in S
        /\ \A u \in S : WaitsFor(u) \intersect S # {}
        /\ \A u \in S : \E v \in S : u \in WaitsFor(v)
  BY DEF Deadlocked
<1>2. PICK q \in S : q \in WaitsFor(r)
  BY <1>1
<1>3. q \in Transactions /\ q # r /\ locks[q] # {}
  BY <1>1, <1>2 DEF WaitsFor
<1>4. q \in Requests
  BY <1>3 DEF Transactions, LockDiscipline
<1>5. pc[q] \in CommitPoints \union {"superseding", "versioned"}
  BY <1>3, <1>4 DEF LockDiscipline
<1>6. pc[q] \in CommitPoints => status[q] = "running"
  BY <1>4 DEF LockDiscipline
<1>7. QED BY <1>3, <1>4, <1>5, <1>6 DEF Contenders, StartPoints

LEMMA CalmIsASpec == [CalmNext]_vars => [Next]_vars
  BY RequestsAreNotDeletes DEF CalmNext, AbortDeadlocked, Next, vars

LEMMA ContenderStep == TypeOK /\ IndInv /\ ContenderIsLeft /\ [CalmNext]_vars => ContenderIsLeft'
<1> SUFFICES ASSUME TypeOK, IndInv, ContenderIsLeft, [CalmNext]_vars PROVE ContenderIsLeft'
  OBVIOUS
<1> USE AllAreTransactions DEF TypeOK, ContenderIsLeft, Contenders, Existing, Running, Goto, rows, txns, calls,
            ReleaseLocks, EndTransaction, StartPoints, CommitPoints
<1>1. ASSUME NEW r \in Requests, Load(r) PROVE ContenderIsLeft'
  BY <1>1 DEF Load, IndInv, RowLife
<1>2. ASSUME NEW r \in Requests, ForceRebuild(r) PROVE ContenderIsLeft'
  BY <1>2 DEF ForceRebuild
<1>3. ASSUME NEW r \in Requests, CheckReusable(r) PROVE ContenderIsLeft'
  BY <1>3 DEF CheckReusable
<1>4. ASSUME NEW r \in Requests, ClaimDeferred(r) PROVE ContenderIsLeft'
  BY <1>4 DEF ClaimDeferred
<1>5. ASSUME NEW r \in Requests, BeginSupersede(r) PROVE ContenderIsLeft'
  BY <1>5 DEF BeginSupersede
<1>6. ASSUME NEW r \in Requests, SupersedeRow(r) PROVE ContenderIsLeft'
  BY <1>6 DEF SupersedeRow
<1>7. ASSUME NEW r \in Requests, ReadVersion(r) PROVE ContenderIsLeft'
  BY <1>7 DEF ReadVersion
<1>8. ASSUME NEW r \in Requests, InsertRow(r, TRUE) PROVE ContenderIsLeft'
  <2>1. status'[r] = "running" /\ pc'[r] = "building" /\ dpc' = dpc
    BY <1>8 DEF InsertRow
  <2>2. r \in Contenders'
    BY <2>1
  <2>3. QED BY <2>1, <2>2
<1>9. ASSUME NEW r \in Requests, LockOwnRow(r) PROVE ContenderIsLeft'
  BY <1>9 DEF LockOwnRow
<1>10. ASSUME NEW r \in Requests, StoreNodes(r) PROVE ContenderIsLeft'
  BY <1>10 DEF StoreNodes
<1>11. ASSUME NEW r \in Requests, BeginDeactivate(r) PROVE ContenderIsLeft'
  BY <1>11 DEF BeginDeactivate
<1>12. ASSUME NEW r \in Requests, DeactivateRow(r) PROVE ContenderIsLeft'
  BY <1>12 DEF DeactivateRow
<1>13. ASSUME NEW r \in Requests, BeginPurge(r) PROVE ContenderIsLeft'
  BY <1>13 DEF BeginPurge
<1>14. ASSUME NEW r \in Requests, PurgeRow(r) PROVE ContenderIsLeft'
  BY <1>14 DEF PurgeRow
<1>15. ASSUME NEW r \in Requests, Publish(r, TRUE) PROVE ContenderIsLeft'
  BY <1>15 DEF Publish
<1>16. ASSUME NEW r \in Requests, AbortDeadlocked(r) PROVE ContenderIsLeft'
  <2>1. PICK q \in Contenders : q # r
    BY <1>16, DeadlocksAreOfContenders DEF AbortDeadlocked, IndInv
  <2>2. Fail(r)
    BY <1>16, RequestsAreNotDeletes DEF AbortDeadlocked
  <2>3. q \in Contenders'
    BY <2>1, <2>2 DEF Fail
  <2>4. QED BY <2>2, <2>3 DEF Fail
<1>17. ASSUME NEW r \in Requests, CloseRow(r) PROVE ContenderIsLeft'
  BY <1>17 DEF CloseRow
<1>18. CASE UNCHANGED vars
  BY <1>18 DEF vars
<1>19. QED
  BY <1>1, <1>2, <1>3, <1>4, <1>5, <1>6, <1>7, <1>8, <1>9, <1>10, <1>11, <1>12, <1>13, <1>14, <1>15, <1>16, <1>17, <1>18
     DEF CalmNext, Step

(* Concurrent re-index requests never cancel each other out, however they  *)
(* supersede, lock out and deadlock each other: when all are answered and  *)
(* one of them took an index row, the document has an active index.        *)
THEOREM SomebodyWins == CalmSpec => []SomeRequestWins
<1>1. Init => ContenderIsLeft
  BY DEF Init, ContenderIsLeft, Existing
<1>2. CalmSpec => Spec
  BY CalmIsASpec, PTL DEF CalmSpec, Spec
<1>3. ContenderIsLeft => SomeRequestWins
  BY DEF ContenderIsLeft, SomeRequestWins, Contenders, FinalPoints, StartPoints, CommitPoints
<1>4. QED BY <1>1, <1>2, <1>3, ContenderStep, Inductive, PTL DEF CalmSpec

(***************************************************************************)
(* II. Readers beside them: theorems of SourceSpec.                        *)
(***************************************************************************)
(* The index rows beside readers behave as without them. *)
LEMMA RowsAsBefore == SourceSpec => [](TypeOK /\ IndInv)
<1>1. SourceInit => Init
  BY DEF SourceInit
<1>2. [SourceNext]_sourceVars => [Next]_vars
  BY DEF SourceNext, ReadersNext, sourceVars
<1>3. SourceSpec => Spec
  BY <1>1, <1>2, PTL DEF SourceSpec, Spec
<1>4. QED BY <1>3, Inductive, PTL

-----------------------------------------------------------------------------
(* What the index and delete requests do to rows that were learned once:   *)
(* nothing but delete them.  None of them is served again.                 *)
LearnedStay ==
  /\ LearnedRows'
  /\ published \subseteq published'
  /\ \A q \in published :
       /\ fingerprint'[q] = fingerprint[q]
       /\ status'[q] \in {status[q], "absent"}
       /\ q \in active' => q \in active

LEMMA LearnedStep == TypeOK /\ IndInv /\ LearnedRows /\ [Next]_vars => LearnedStay
<1> SUFFICES ASSUME TypeOK, IndInv, LearnedRows, [Next]_vars PROVE LearnedStay
  OBVIOUS
<1> USE AllAreTransactions DEF LearnedStay, LearnedRows, TypeOK, Goto, rows, txns, calls, ReleaseLocks, EndTransaction, Existing, Running,
            Points, WorkPoints, StartPoints, CommitPoints, FinalPoints, RowlessPoints, SnapshotPoints,
            IndInv, LockDiscipline, RowLife
<1>1. ASSUME NEW r \in Requests, Load(r) PROVE LearnedStay
  BY <1>1 DEF Load
<1>2. ASSUME NEW r \in Requests, Reject(r) PROVE LearnedStay
  BY <1>2 DEF Reject
<1>3. ASSUME NEW r \in Requests, ForceRebuild(r) PROVE LearnedStay
  BY <1>3 DEF ForceRebuild
<1>4. ASSUME NEW r \in Requests, CheckReusable(r) PROVE LearnedStay
  BY <1>4 DEF CheckReusable
<1>5. ASSUME NEW r \in Requests, ClaimDeferred(r) PROVE LearnedStay
  BY <1>5 DEF ClaimDeferred
<1>6. ASSUME NEW r \in Requests, BeginSupersede(r) PROVE LearnedStay
  BY <1>6 DEF BeginSupersede
<1>7. ASSUME NEW r \in Requests, SupersedeRow(r) PROVE LearnedStay
  BY <1>7 DEF SupersedeRow
<1>8. ASSUME NEW r \in Requests, ReadVersion(r) PROVE LearnedStay
  BY <1>8 DEF ReadVersion
<1>9. ASSUME NEW r \in Requests, NEW told \in BOOLEAN, InsertRow(r, told) PROVE LearnedStay
  BY <1>9 DEF InsertRow
<1>10. ASSUME NEW r \in Requests, LockOwnRow(r) PROVE LearnedStay
  BY <1>10 DEF LockOwnRow
<1>11. ASSUME NEW r \in Requests, StoreNodes(r) PROVE LearnedStay
  BY <1>11 DEF StoreNodes
<1>12. ASSUME NEW r \in Requests, BeginDeactivate(r) PROVE LearnedStay
  BY <1>12 DEF BeginDeactivate
<1>13. ASSUME NEW r \in Requests, DeactivateRow(r) PROVE LearnedStay
  BY <1>13 DEF DeactivateRow
<1>14. ASSUME NEW r \in Requests, BeginPurge(r) PROVE LearnedStay
  BY <1>14 DEF BeginPurge
<1>15. ASSUME NEW r \in Requests, PurgeRow(r) PROVE LearnedStay
  BY <1>15 DEF PurgeRow
<1>16. ASSUME NEW r \in Requests, NEW told \in BOOLEAN, Publish(r, told) PROVE LearnedStay
  BY <1>16 DEF Publish
<1>17. ASSUME NEW r \in Requests, Fail(r) PROVE LearnedStay
  BY <1>17 DEF Fail
<1>18. ASSUME NEW r \in Requests, CloseRow(r) PROVE LearnedStay
  BY <1>18 DEF CloseRow
<1>19. ASSUME NEW r \in Requests, Vanish(r) PROVE LearnedStay
  BY <1>19 DEF Vanish
<1>20. ASSUME NEW d \in Deletes, DeleteNodes(d) PROVE LearnedStay
  BY <1>20 DEF DeleteNodes
<1>21. ASSUME NEW d \in Deletes, BeginDeleteIndexes(d) PROVE LearnedStay
  BY <1>21 DEF BeginDeleteIndexes
<1>22. ASSUME NEW d \in Deletes, DeleteRow(d) PROVE LearnedStay
  BY <1>22 DEF DeleteRow
<1>23. ASSUME NEW d \in Deletes, DeleteIndexes(d) PROVE LearnedStay
  BY <1>23 DEF DeleteIndexes
<1>24. ASSUME NEW d \in Deletes, FailDelete(d) PROVE LearnedStay
  BY <1>24 DEF FailDelete
<1>25. CASE UNCHANGED vars
  BY <1>25 DEF vars
<1>26. QED
  BY <1>1, <1>2, <1>3, <1>4, <1>5, <1>6, <1>7, <1>8, <1>9, <1>10, <1>11, <1>12, <1>13, <1>14, <1>15, <1>16, <1>17, <1>18, <1>19, <1>20, <1>21, <1>22, <1>23, <1>24, <1>25 DEF Next, Step, Delete, CancelAfterCommit

-----------------------------------------------------------------------------
(* Index and delete requests take nothing from what readers rely on. *)
LEMMA WritersStep ==
  TypeOK /\ IndInv /\ ReadersTypeOK /\ SourceInv /\ [Next]_vars /\ UNCHANGED readers
    => ReadersTypeOK' /\ SourceInv'
<1> SUFFICES ASSUME TypeOK, IndInv, ReadersTypeOK, SourceInv, [Next]_vars, UNCHANGED readers
             PROVE  ReadersTypeOK' /\ SourceInv'
  OBVIOUS
<1> USE DEF readers, requests, paging
<1>1. LearnedStay
  BY LearnedStep DEF SourceInv
<1>2. ReadersTypeOK'
  BY DEF ReadersTypeOK
<1>3. LearnedRows'
  BY <1>1 DEF LearnedStay
<1>4. PageDiscipline'
  BY <1>1 DEF SourceInv, PageDiscipline, LearnedStay
<1>5. \A q \in published : status'[q] = "learned" => ChunkRows(q)' = ChunkRows(q) /\ status[q] = "learned"
  BY <1>1 DEF LearnedStay, ChunkRows
<1>6. PrefixHeld'
  BY <1>1, <1>5 DEF SourceInv, PrefixHeld, LearnedStay
<1>7. FoundDiscipline'
  BY <1>1 DEF SourceInv, FoundDiscipline, LearnedStay
<1>8. SnapshotIsSound'
  <2> SUFFICES ASSUME NEW d \in Readers, at[d] = "complete", NEW q, q = expected[d].index
               PROVE  held[d] = {q} \X ChunkRows(q)' \/ status'[q] = "absent"
    BY DEF SnapshotIsSound, SourceInv
  <2>1. held[d] = {q} \X ChunkRows(q) \/ status[q] = "absent"
    BY DEF SnapshotIsSound, SourceInv
  <2>2. q \in published
    BY DEF PageDiscipline, SourceInv
  <2>3. CASE status'[q] = "absent"
    BY <2>3
  <2>4. CASE status'[q] # "absent"
    <3>1. status'[q] = "learned"
      BY <2>2, <2>4, <1>1 DEF LearnedStay, LearnedRows
    <3>2. QED BY <2>1, <2>2, <3>1, <1>5
  <2> QED BY <2>3, <2>4
<1>9. ReadsMoveForward'
  <2> SUFFICES ASSUME NEW d \in Readers, NEW s \in Statements, NEW q \in found[d][s], q \in active'
               PROVE  q = index[d]
    BY DEF ReadsMoveForward
  <2>1. q \in published
    BY DEF SourceInv, FoundDiscipline
  <2>2. q \in active
    BY <2>1, <1>1 DEF LearnedStay
  <2>3. q \in (UNION {found[d][t] : t \in Statements}) \intersect active
    BY <2>2
  <2> QED BY <2>3 DEF SourceInv, ReadsMoveForward
<1> QED BY <1>2, <1>3, <1>4, <1>6, <1>7, <1>8, <1>9 DEF SourceInv

-----------------------------------------------------------------------------
(* The statements of a source page. *)

(* fetch_learned_indexes finds a row that is learned, so was learned. *)
LEMMA CandidatesAreLearned ==
  ASSUME TypeOK, IndInv, NEW m, NEW q \in Candidates(m)
  PROVE  q \in Requests /\ q \in active /\ q \in published
BY DEF Candidates, IndInv, RowLife, TypeOK

LEMMA ServedAreLearned ==
  ASSUME TypeOK, IndInv, NEW q \in Served
  PROVE  q \in Requests /\ q \in active /\ q \in published
BY DEF Served, IndInv, RowLife, TypeOK

LEMMA PageStepType ==
  ASSUME TypeOK, IndInv, ReadersTypeOK, SourceInv, NEW d \in Readers, PageStep(d), UNCHANGED vars
  PROVE  ReadersTypeOK'
<1> USE DEF ReadersTypeOK, paging, Go, PageStatements, Statements, Ends, Kinds
<1>1. CASE ReadRevision(d)
  BY <1>1 DEF ReadRevision
<1>2. CASE ReadEvidence(d)
  <2>1. [index |-> index[d], evidence |-> Evidence(index[d])] \in Revisions
    BY DEF Evidence, Revisions
  <2>2. QED BY <1>2, <2>1 DEF ReadEvidence
<1>3. CASE GivePage(d)
  <2>1. index[d] \in Requests
    BY <1>3 DEF GivePage, SourceInv, PageDiscipline, LearnedRows
  <2>2. Taken(d) \subseteq Nat
    BY <1>3 DEF GivePage
  <2>3. QED BY <1>3, <2>1, <2>2 DEF GivePage
<1>4. CASE RefusePage(d)
  BY <1>4 DEF RefusePage
<1>5. QED BY <1>1, <1>2, <1>3, <1>4 DEF PageStep

(* Which chunks the caller holds only changes with a page it is given. *)
LEMMA PageStepKeeps ==
  ASSUME TypeOK, IndInv, ReadersTypeOK, SourceInv, NEW d \in Readers, PageStep(d), UNCHANGED vars
  PROVE  SourceInv'
<1> USE DEF ReadersTypeOK, paging, Go, PageStatements, vars, rows
<1>1. LearnedRows'
  BY DEF SourceInv, LearnedRows
<1>2. FoundDiscipline' /\ ReadsMoveForward'
  <2>1. UNCHANGED found /\ \A s \in Statements : found[d][s] = {}
    BY DEF PageStep, ReadRevision, ReadEvidence, GivePage, RefusePage, SourceInv, FoundDiscipline
  <2>2. \A c \in Readers \ {d} : at'[c] = at[c] /\ index'[c] = index[c]
    BY DEF PageStep, ReadRevision, ReadEvidence, GivePage, RefusePage
  <2>3. FoundDiscipline'
    BY <2>1, <2>2 DEF SourceInv, FoundDiscipline
  <2>4. ReadsMoveForward'
    BY <2>1, <2>2 DEF SourceInv, ReadsMoveForward
  <2>5. QED BY <2>3, <2>4
<1>3. ASSUME \/ ReadRevision(d) \/ ReadEvidence(d) \/ RefusePage(d)
      PROVE  PageDiscipline' /\ PrefixHeld' /\ SnapshotIsSound'
  <2>1. UNCHANGED <<expected, cursor, held>>
    BY <1>3 DEF ReadRevision, ReadEvidence, RefusePage
  <2>2. \A c \in Readers : at'[c] = "complete" => at[c] = "complete"
    BY <1>3 DEF ReadRevision, ReadEvidence, RefusePage
  <2>3. PrefixHeld'
    BY <2>1 DEF SourceInv, PrefixHeld, ChunkRows
  <2>4. SnapshotIsSound'
    BY <2>1, <2>2 DEF SourceInv, SnapshotIsSound, ChunkRows
  <2>5. PageDiscipline'
    <3>1. CASE ReadRevision(d)
      BY <3>1, CandidatesAreLearned DEF ReadRevision, SourceInv, PageDiscipline
    <3>2. CASE ReadEvidence(d)
      BY <3>2 DEF ReadEvidence, SourceInv, PageDiscipline
    <3>3. CASE RefusePage(d)
      BY <3>3 DEF RefusePage, SourceInv, PageDiscipline
    <3>4. QED BY <1>3, <3>1, <3>2, <3>3
  <2>6. QED BY <2>3, <2>4, <2>5
<1>4. ASSUME GivePage(d)
      PROVE  PageDiscipline' /\ PrefixHeld' /\ SnapshotIsSound'
  <2> DEFINE q == index[d]
  <2>1. q \in published /\ q \in Requests /\ q # None /\ revision[d].index = q
    BY <1>4, NoneIsFresh DEF GivePage, SourceInv, PageDiscipline, LearnedRows
  <2>2. expected' = [expected EXCEPT ![d] = revision[d]] /\ expected'[d].index = q
    BY <1>4, <2>1 DEF GivePage
  <2>3. PICK last \in cursor[d] .. cursor[d] + RowLimit :
          Taken(d) = cursor[d] + 1 .. last /\ cursor' = [cursor EXCEPT ![d] = last]
    BY <1>4 DEF GivePage
  <2>4. cursor[d] \in Nat /\ last \in Nat /\ cursor[d] <= last /\ cursor'[d] = last
    BY <2>3, PageLimits
  <2>5. expected[d].index # None => expected[d].index = q
    BY <1>4, <2>1 DEF GivePage, SourceInv, PageDiscipline, NoRevision
  <2>6. held[d] = {q} \X (1 .. cursor[d])
    BY <2>4, <2>5 DEF SourceInv, PrefixHeld
  <2>7. held'[d] = {q} \X (1 .. last)
    <3>1. held'[d] = held[d] \union ({q} \X Taken(d))
      BY <1>4 DEF GivePage
    <3>2. (1 .. cursor[d]) \union (cursor[d] + 1 .. last) = 1 .. last
      BY <2>4
    <3>3. ({q} \X (1 .. cursor[d])) \union ({q} \X (cursor[d] + 1 .. last)) = {q} \X ((1 .. cursor[d]) \union (cursor[d] + 1 .. last))
      OBVIOUS
    <3>4. QED BY <3>1, <3>2, <3>3, <2>3, <2>6
  <2>8. status[q] = "learned" => 1 .. cursor[d] \subseteq ChunkRows(q)
    BY <2>4, <2>5 DEF SourceInv, PrefixHeld
  <2>9. status[q] = "learned" => 1 .. last \subseteq ChunkRows(q)
    <3>1. Taken(d) \subseteq ChunkRows(q)
      BY DEF Taken, Offered, ChunksAfter
    <3>2. 1 .. last = (1 .. cursor[d]) \union (cursor[d] + 1 .. last)
      BY <2>4
    <3>3. QED BY <2>3, <2>8, <3>1, <3>2
  <2>10. \A c \in Readers \ {d} : /\ at'[c] = at[c] /\ expected'[c] = expected[c]
                                  /\ cursor'[c] = cursor[c] /\ held'[c] = held[c]
    BY <1>4 DEF GivePage
  <2>11. UNCHANGED <<index, revision>> /\ at'[d] \in {"revision", "complete"}
    BY <1>4 DEF GivePage
  <2>12. PageDiscipline'
    BY <2>1, <2>2, <2>10, <2>11 DEF SourceInv, PageDiscipline
  <2>13. \A p : ChunkRows(p)' = ChunkRows(p)
    BY DEF ChunkRows
  <2>14. PrefixHeld'
    BY <2>1, <2>2, <2>4, <2>7, <2>9, <2>10, <2>13 DEF SourceInv, PrefixHeld
  <2>15. at'[d] = "complete" => held'[d] = {q} \X ChunkRows(q) \/ status[q] = "absent"
    <3> SUFFICES ASSUME at'[d] = "complete", status[q] # "absent"
                 PROVE  ChunkRows(q) = 1 .. last
      BY <2>7
    <3>1. status[q] = "learned"
      BY <2>1 DEF SourceInv, LearnedRows
    <3>2. Taken(d) = ChunksAfter(d)
      BY <1>4 DEF GivePage, HasMore
    <3>3. ChunkRows(q) \subseteq Nat \ {0}
      BY DEF ChunkRows
    <3>4. ASSUME NEW n \in ChunkRows(q) PROVE n \in 1 .. last
      BY <2>3, <2>4, <3>2, <3>3 DEF ChunksAfter
    <3>5. QED BY <3>1, <3>4, <2>9
  <2>16. SnapshotIsSound'
    BY <2>2, <2>4, <2>7, <2>10, <2>13, <2>15 DEF SourceInv, SnapshotIsSound
  <2>17. QED BY <2>12, <2>14, <2>16
<1>5. PageDiscipline' /\ PrefixHeld' /\ SnapshotIsSound'
  BY <1>3, <1>4 DEF PageStep
<1>6. QED BY <1>1, <1>2, <1>5 DEF SourceInv

-----------------------------------------------------------------------------
(* The statements of a retrieval. *)

(* A statement finds at most the one index that is served, and remembers   *)
(* it as the last: it is the only one of all found that may be active.     *)
LEMMA SelectStep ==
  ASSUME TypeOK, IndInv, ReadersTypeOK, SourceInv, UNCHANGED vars,
         NEW d \in Readers, NEW s \in Statements, NEW S, S \subseteq Served,
         NEW next, next \subseteq Statements \union {"embedding", "answered"},
         Select(d, s, S, next)
  PROVE  ReadersTypeOK' /\ SourceInv'
<1> USE DEF vars, rows
<1>1. /\ at[d] = s
      /\ found' = [found EXCEPT ![d][s] = @ \union S]
      /\ index' = [index EXCEPT ![d] = IF S = {} THEN @ ELSE CHOOSE q \in S : TRUE]
      /\ UNCHANGED <<kind, revision, expected, cursor, held>>
  BY DEF Select, paging
<1>2. PICK n \in next : at' = [at EXCEPT ![d] = n]
  BY DEF Select
<1>3. \A q \in S : q \in Requests /\ q \in active /\ q \in published
  BY ServedAreLearned
<1>4. S # {} => (CHOOSE q \in S : TRUE) \in S
  OBVIOUS
<1>5. \A q \in S : active = {q}
  BY <1>3 DEF IndInv, AtMostOneActive
<1>6. n \notin {"idle", "complete"} \union PageStatements
  BY DEF Statements, PageStatements
<1>7. s \notin PageStatements \union {"idle", "complete"}
  BY DEF Statements, PageStatements
<1>8. found' \in [Readers -> [Statements -> SUBSET Requests]]
  BY <1>1, <1>3 DEF ReadersTypeOK
<1>9. ReadersTypeOK'
  <2>1. index' \in [Readers -> Requests \union {None}]
    BY <1>1, <1>3, <1>4 DEF ReadersTypeOK
  <2>2. at' \in [Readers -> {"idle", "embedding"} \union PageStatements \union Statements \union Ends]
    BY <1>2 DEF ReadersTypeOK, Ends
  <2>3. QED BY <1>1, <1>8, <2>1, <2>2 DEF ReadersTypeOK
<1>10. /\ at'[d] = n /\ \A c \in Readers \ {d} : at'[c] = at[c] /\ index'[c] = index[c] /\ found'[c] = found[c]
       /\ \A t \in Statements : found'[d][t] = IF t = s THEN found[d][t] \union S ELSE found[d][t]
  <2>1. at'[d] = n /\ \A c \in Readers \ {d} : at'[c] = at[c]
    BY <1>2 DEF ReadersTypeOK
  <2>2. \A c \in Readers \ {d} : index'[c] = index[c]
    BY <1>1 DEF ReadersTypeOK
  <2>3. \A c \in Readers \ {d} : found'[c] = found[c]
    BY <1>1 DEF ReadersTypeOK
  <2>4. \A t \in Statements : found'[d][t] = IF t = s THEN found[d][t] \union S ELSE found[d][t]
    BY <1>1 DEF ReadersTypeOK
  <2>5. QED BY <2>1, <2>2, <2>3, <2>4
<1>11. LearnedRows'
  BY DEF SourceInv, LearnedRows
<1>12. PageDiscipline'
  BY <1>1, <1>6, <1>10 DEF SourceInv, PageDiscipline, PageStatements
<1>13. PrefixHeld'
  BY <1>1 DEF SourceInv, PrefixHeld, ChunkRows
<1>14. SnapshotIsSound'
  BY <1>1, <1>6, <1>10 DEF SourceInv, SnapshotIsSound, ChunkRows
<1>15. FoundDiscipline'
  BY <1>3, <1>6, <1>10 DEF SourceInv, FoundDiscipline
<1>16. ReadsMoveForward'
  <2> SUFFICES ASSUME NEW c \in Readers, NEW t \in Statements, NEW q \in found'[c][t], q \in active
               PROVE  q = index'[c]
    BY DEF ReadsMoveForward
  <2>1. CASE S # {} /\ c = d
    <3>1. index'[d] \in S
      BY <1>1, <1>4, <2>1 DEF ReadersTypeOK
    <3>2. QED BY <2>1, <3>1, <1>5
  <2>2. CASE S = {} \/ c # d
    <3>1. q \in found[c][t] /\ index'[c] = index[c]
      BY <1>1, <1>10, <2>2 DEF ReadersTypeOK
    <3>2. q \in (UNION {found[c][u] : u \in Statements}) \intersect active
      BY <3>1
    <3>3. QED BY <3>1, <3>2 DEF SourceInv, ReadsMoveForward
  <2>3. QED BY <2>1, <2>2
<1>17. QED BY <1>9, <1>11, <1>12, <1>13, <1>14, <1>15, <1>16 DEF SourceInv

(* What Ask, Embed and FailRead have in common: the caller's chunks and    *)
(* the last index stay, or what was found is forgotten.                    *)
LEMMA QuietStep ==
  ASSUME TypeOK, IndInv, ReadersTypeOK, SourceInv, UNCHANGED vars,
         NEW d \in Readers, Ask(d) \/ Embed(d) \/ FailRead(d)
  PROVE  ReadersTypeOK' /\ SourceInv'
<1> USE DEF vars, rows
<1>1. UNCHANGED <<expected, cursor, held>>
  BY DEF Ask, Embed, FailRead, paging
<1>2. \A c \in Readers \ {d} : /\ at'[c] = at[c] /\ index'[c] = index[c] /\ found'[c] = found[c]
                              /\ revision'[c] = revision[c]
  <2>1. CASE Ask(d)
    BY <2>1 DEF Ask, ReadersTypeOK, paging
  <2>2. CASE Embed(d)
    BY <2>2 DEF Embed, Go, ReadersTypeOK, paging
  <2>3. CASE FailRead(d)
    BY <2>3 DEF FailRead, ReadersTypeOK
  <2>4. QED BY <2>1, <2>2, <2>3
<1>3. at'[d] \in {"revision", "nodes", "embedding", "vector", "failed"}
  <2>1. CASE Ask(d)
    BY <2>1 DEF Ask, FirstStatements, ReadersTypeOK, Kinds
  <2>2. CASE Embed(d)
    BY <2>2 DEF Embed, Go, ReadersTypeOK
  <2>3. CASE FailRead(d)
    BY <2>3 DEF FailRead, ReadersTypeOK
  <2>4. QED BY <2>1, <2>2, <2>3
<1>4. \/ UNCHANGED <<index, found>>
      \/ \A s \in Statements : found'[d][s] = {}
  BY DEF Ask, Embed, FailRead, ReadersTypeOK
<1>5. at'[d] = "revision" => \A s \in Statements : found'[d][s] = {}
  <2>1. CASE Ask(d)
    BY <2>1 DEF Ask, SourceInv, FoundDiscipline
  <2>2. CASE Embed(d)
    BY <2>2 DEF Embed, Go, ReadersTypeOK
  <2>3. CASE FailRead(d)
    BY <2>3 DEF FailRead, ReadersTypeOK
  <2>4. QED BY <2>1, <2>2, <2>3
<1>6. ReadersTypeOK'
  <2>1. CASE Ask(d)
    BY <2>1, <1>3 DEF Ask, ReadersTypeOK, paging, FirstStatements, Kinds, Statements, PageStatements
  <2>2. CASE Embed(d)
    BY <2>2 DEF Embed, Go, ReadersTypeOK, paging, Statements
  <2>3. NoRevision \in Revisions
    BY DEF NoRevision, Revisions
  <2>4. CASE FailRead(d)
    BY <2>3, <2>4 DEF FailRead, ReadersTypeOK, Ends
  <2>5. QED BY <2>1, <2>2, <2>4
<1>7. LearnedRows' /\ PrefixHeld'
  BY <1>1 DEF SourceInv, LearnedRows, PrefixHeld, ChunkRows
<1>8. PageDiscipline'
  BY <1>1, <1>2, <1>3 DEF SourceInv, PageDiscipline
<1>9. SnapshotIsSound'
  BY <1>1, <1>2, <1>3 DEF SourceInv, SnapshotIsSound, ChunkRows
<1>10. FoundDiscipline'
  BY <1>2, <1>3, <1>4, <1>5 DEF SourceInv, FoundDiscipline, PageStatements
<1>11. ReadsMoveForward'
  BY <1>2, <1>4 DEF SourceInv, ReadsMoveForward
<1>12. QED BY <1>6, <1>7, <1>8, <1>9, <1>10, <1>11 DEF SourceInv

LEMMA RetrievalKeeps ==
  ASSUME TypeOK, IndInv, ReadersTypeOK, SourceInv, UNCHANGED vars,
         NEW d \in Readers, RetrievalStep(d)
  PROVE  ReadersTypeOK' /\ SourceInv'
<1>1. Candidates(ReaderModel) \subseteq Served
  BY DEF Candidates, Served
<1>2. {AfterMatches(d), AfterScope(d)} \subseteq Statements \union {"answered"}
  BY DEF AfterMatches, AfterScope, Statements
<1>3. CASE ReadNodes(d)
  BY <1>3, SelectStep DEF ReadNodes, Statements
<1>4. CASE ReadStructures(d)
  <2> DEFINE S == IF found[d]["nodes"] = {} THEN Served ELSE {}
             next == IF S \union found[d]["nodes"] = {} THEN {"embedding"} ELSE {"rebuild", "embedding"}
  <2>1. S \subseteq Served /\ next \subseteq Statements \union {"embedding", "answered"}
    BY DEF Statements
  <2>2. Select(d, "structures", S, next)
    BY <1>4 DEF ReadStructures
  <2>3. "structures" \in Statements
    BY DEF Statements
  <2> HIDE DEF S, next
  <2>4. QED BY <2>1, <2>2, <2>3, SelectStep
<1>5. CASE Rebuild(d)
  BY <1>5, SelectStep DEF Rebuild, Statements
<1>6. CASE Embed(d)
  BY <1>6, QuietStep
<1>7. CASE ReadVector(d)
  BY <1>7, <1>1, <1>2, SelectStep DEF ReadVector, Statements
<1>8. CASE ReadKeyword(d)
  BY <1>8, <1>1, <1>2, SelectStep DEF ReadKeyword, Statements
<1>9. CASE ReadScope(d)
  BY <1>9, <1>1, <1>2, SelectStep DEF ReadScope, Statements
<1>10. CASE ReadSource(d)
  BY <1>10, <1>1, SelectStep DEF ReadSource, Statements
<1>11. QED BY <1>3, <1>4, <1>5, <1>6, <1>7, <1>8, <1>9, <1>10 DEF RetrievalStep

-----------------------------------------------------------------------------
LEMMA SourceInductive == SourceSpec => [](ReadersTypeOK /\ SourceInv)
<1>1. SourceInit => ReadersTypeOK /\ SourceInv
  <2> SUFFICES ASSUME SourceInit PROVE ReadersTypeOK /\ SourceInv
    OBVIOUS
  <2> USE DEF SourceInit, ReadersInit
  <2>1. NoRevision \in Revisions /\ NoRevision.index = None
    BY DEF NoRevision, Revisions
  <2>2. ReadersTypeOK
    BY <2>1 DEF ReadersTypeOK
  <2>3. published = {} /\ LearnedRows
    BY DEF Init, LearnedRows
  <2>4. PageDiscipline /\ FoundDiscipline
    BY <2>3 DEF PageDiscipline, FoundDiscipline
  <2>5. \A q : {q} \X (1 .. 0) = {}
    OBVIOUS
  <2>6. PrefixHeld /\ SnapshotIsSound
    BY <2>1, <2>3, <2>5 DEF PrefixHeld, SnapshotIsSound
  <2>7. ReadsMoveForward
    BY DEF ReadsMoveForward
  <2>8. QED BY <2>2, <2>3, <2>4, <2>6, <2>7 DEF SourceInv
<1>2. TypeOK /\ IndInv /\ ReadersTypeOK /\ SourceInv /\ [SourceNext]_sourceVars
        => (ReadersTypeOK /\ SourceInv)'
  <2> SUFFICES ASSUME TypeOK, IndInv, ReadersTypeOK, SourceInv, [SourceNext]_sourceVars
               PROVE  ReadersTypeOK' /\ SourceInv'
    OBVIOUS
  <2>1. ASSUME NEW d \in Readers, ReaderStep(d), UNCHANGED vars
        PROVE  ReadersTypeOK' /\ SourceInv'
    BY <2>1, PageStepType, PageStepKeeps, RetrievalKeeps, QuietStep DEF ReaderStep
  <2>2. CASE Next /\ UNCHANGED readers
    BY <2>2, WritersStep
  <2>3. CASE UNCHANGED sourceVars
    BY <2>3, WritersStep DEF sourceVars
  <2>4. QED BY <2>1, <2>2, <2>3 DEF SourceNext, ReadersNext
<1>3. QED BY <1>1, <1>2, RowsAsBefore, PTL DEF SourceSpec

(* Every variable of the readers keeps its type. *)
THEOREM ReadersTypeCorrect == SourceSpec => []ReadersTypeOK
BY SourceInductive, PTL

(* The pages a caller collects are a prefix of one index, whatever is      *)
(* indexed or deleted between their statements, and a snapshot called      *)
(* complete lacks chunks only of an index that is gone.                    *)
THEOREM SnapshotsAreSound == SourceSpec => []SnapshotIsSound
<1>1. SourceInv => SnapshotIsSound
  BY DEF SourceInv
<1>2. QED BY <1>1, SourceInductive, PTL

(* Of the revisions a retrieval met only the last may still be served.     *)
THEOREM RetrievalMovesForward == SourceSpec => []ReadsMoveForward
<1>1. SourceInv => ReadsMoveForward
  BY DEF SourceInv
<1>2. QED BY <1>1, SourceInductive, PTL

(* Readers change no index row: the document keeps at most one active      *)
(* index beside them.                                                      *)
THEOREM OneActiveBesideReaders == SourceSpec => []AtMostOneActive
<1>1. IndInv => AtMostOneActive
  BY DEF IndInv
<1>2. QED BY <1>1, RowsAsBefore, PTL

(* Readers beside the index requests keep nobody from winning.             *)
THEOREM SomebodyWinsBesideReaders == CalmSourceSpec => []SomeRequestWins
<1>1. SourceInit => Init
  BY DEF SourceInit
<1>2. [CalmSourceNext]_sourceVars => [CalmNext]_vars
  BY DEF CalmSourceNext, ReadersNext, sourceVars
<1>3. CalmSourceSpec => CalmSpec
  BY <1>1, <1>2, PTL DEF CalmSourceSpec, CalmSpec
<1>4. QED BY <1>3, SomebodyWins, PTL
=============================================================================
