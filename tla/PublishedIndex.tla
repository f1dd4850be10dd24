---------------------------- MODULE PublishedIndex ----------------------------
(***************************************************************************)
(* What document indexing promises the retrieval queries: at any time a    *)
(* document has at most one index they read, a new index replaces the old  *)
(* one in a single step, and an index that was replaced or withdrawn never *)
(* comes back.  IndexLifecycle implements this specification.              *)
(***************************************************************************)
CONSTANTS
  Requests,   \* index requests; each one builds at most one index
  None        \* no request

VARIABLES
  served,     \* the index retrieval reads, or None
  published   \* every index that was ever served

Init ==
  /\ served = None
  /\ published = {}

(* A finished build becomes the served index. *)
Publish(i) ==
  /\ i \notin published
  /\ served' = i
  /\ published' = published \union {i}

(* The document is deleted. *)
Withdraw ==
  /\ served' = None
  /\ UNCHANGED published

Next == Withdraw \/ \E i \in Requests : Publish(i)

Spec == Init /\ [][Next]_<<served, published>>
=============================================================================
