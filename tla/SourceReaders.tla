----------------------------- MODULE SourceReaders -----------------------------
(***************************************************************************)
(* The requests that read a document while index and delete requests       *)
(* change it (IndexLifecycle): the source snapshot a caller collects page  *)
(* by page (services/orchestration_v2/source_snapshot.py), and the         *)
(* retrieval of chat, lesson and blueprint requests                        *)
(* (services/retrieval/search.py, structure.py).                           *)
(*                                                                         *)
(* No reader opens a transaction around its SELECTs: every statement sees  *)
(* the rows committed when it runs, and anything may commit between two.   *)
(* The chunks of an index are inserted by the transaction that learns it   *)
(* and go with its row, so a statement finds all of them or none.          *)
(***************************************************************************)
EXTENDS IndexLifecycle, Sequences, FiniteSetsExt

CONSTANTS
  Readers,      \* requests that read the document
  ReaderModel,  \* the embedding model they ask for
  Chunks,       \* the number of facts in each chunk of a content
  Structured,   \* contents whose chunks carry an evidence revision
  RowLimit,     \* row_limit of a page
  PageMaxFacts  \* page_max_facts, standing for page_max_bytes too

ASSUME ChunksAreSequences == Chunks \in [Contents -> Seq(Nat)]
ASSUME PageLimits == RowLimit \in Nat \ {0} /\ PageMaxFacts \in Nat \ {0}

VARIABLES
  kind,      \* what a reader asks for
  at,        \* the statement it runs next, or how it ended
  index,     \* the index its last statement found
  found,     \* retrieval: the indexes each statement found
  revision,  \* paging: source_revision of the request in progress
  expected,  \* paging: expected_source_revision the caller sends
  cursor,    \* paging: number of the last chunk the caller has
  held       \* paging: the chunks the caller has, with their index

requests == <<kind, at, index>>
paging == <<revision, expected, cursor, held>>
readers == <<requests, found, paging>>
sourceVars == <<vars, readers>>

(* match: a chat message, or a lesson for no chapter; chapter: a lesson    *)
(* for a chapter of the outline; draft: one for the facts a persisted      *)
(* blueprint names; source: a blueprint of the whole source.               *)
Kinds == {"page", "match", "chapter", "draft", "source"}
PageStatements == {"revision", "evidence", "page"}
Statements == {"nodes", "structures", "rebuild", "vector", "keyword", "scope", "source"}
Ends == {"complete", "answered", "refused", "failed"}
Revisions == [index : Requests \union {None}, evidence : {"none", "ready", "legacy"}]
NoRevision == [index |-> None, evidence |-> "none"]

ReadersTypeOK ==
  /\ kind \in [Readers -> Kinds \union {"none"}]
  /\ at \in [Readers -> {"idle", "embedding"} \union PageStatements \union Statements \union Ends]
  /\ index \in [Readers -> Requests \union {None}]
  /\ found \in [Readers -> [Statements -> SUBSET Requests]]
  /\ revision \in [Readers -> Revisions] /\ expected \in [Readers -> Revisions]
  /\ cursor \in [Readers -> Nat]
  /\ held \in [Readers -> SUBSET (Requests \X Nat)]

ReadersInit ==
  /\ kind = [d \in Readers |-> "none"] /\ at = [d \in Readers |-> "idle"]
  /\ index = [d \in Readers |-> None]
  /\ found = [d \in Readers |-> [s \in Statements |-> {}]]
  /\ revision = [d \in Readers |-> NoRevision] /\ expected = [d \in Readers |-> NoRevision]
  /\ cursor = [d \in Readers |-> 0]
  /\ held = [d \in Readers |-> {}]

SourceInit == Init /\ ReadersInit

-----------------------------------------------------------------------------
(* What one statement finds.  r.status = 'learned' AND r.is_active = true, *)
(* for the structure statements whatever the embedding model.              *)

Served == {q \in active : status[q] = "learned"}

(* The chunk numbers of an index: none once its row is gone. *)
ChunkRows(q) == IF status[q] = "learned" THEN 1 .. Len(Chunks[fingerprint[q]]) ELSE {}

FactsIn(q, S) == LET facts(n) == Chunks[fingerprint[q]][n] IN MapThenSumSet(facts, S)

Go(d, from, to) ==
  /\ at[d] = from
  /\ at' = [at EXCEPT ![d] = to]

-----------------------------------------------------------------------------
(* Faulty variants of the definitions that follow, each one a bug this     *)
(* code could have; no specification uses them.                            *)

(* The page follows the active index without the revision being compared. *)
ReadEvidenceUncompared(d) ==
  /\ Go(d, "evidence", "page")
  /\ revision' = [revision EXCEPT ![d] = [index |-> index[d], evidence |-> "ready"]]
  /\ UNCHANGED <<kind, index, found, expected, cursor, held>>

-----------------------------------------------------------------------------
(* lesson_author_orchestration_v2_source_snapshot, called once a page. *)

(* Only lesson_author requests load the outline. *)
FirstStatements(k) ==
  CASE k = "page" -> {"revision"}
    [] k = "match" -> {"nodes", "embedding"}
    [] OTHER -> {"nodes"}

Ask(d) ==
  /\ at[d] = "idle"
  /\ \E k \in Kinds :
       /\ kind' = [kind EXCEPT ![d] = k]
       /\ \E s \in FirstStatements(k) : at' = [at EXCEPT ![d] = s]
  /\ UNCHANGED <<index, found, paging>>

(* fetch_learned_indexes; SOURCE_REVISION_UNAVAILABLE when it does not     *)
(* find exactly one index of the document.                                 *)
ReadRevision(d) ==
  /\ at[d] = "revision"
  /\ \/ \E q \in Requests :
          /\ Candidates(ReaderModel) = {q}
          /\ index' = [index EXCEPT ![d] = q]
          /\ at' = [at EXCEPT ![d] = "evidence"]
     \/ /\ \A q \in Requests : Candidates(ReaderModel) # {q}
        /\ at' = [at EXCEPT ![d] = "refused"]
        /\ UNCHANGED index
  /\ UNCHANGED <<kind, found, paging>>

(* fetch_index_evidence_summary: the evidence revision all chunks of the   *)
(* index share.  Without a row for the index the declared counts stand in  *)
(* for the actual ones, and the index passes as a legacy one.              *)
Evidence(q) == IF ChunkRows(q) # {} /\ fingerprint[q] \in Structured THEN "ready" ELSE "legacy"

(* ... and SOURCE_REVISION_CHANGED. *)
ReadEvidence(d) ==
  LET now == [index |-> index[d], evidence |-> Evidence(index[d])]
  IN  /\ Go(d, "evidence", IF expected[d] \in {NoRevision, now} THEN "page" ELSE "refused")
      /\ revision' = [revision EXCEPT ![d] = now]
      /\ UNCHANGED <<kind, index, found, expected, cursor, held>>

(* fetch_source_page and the page made of its rows: whole chunks after the *)
(* cursor, up to the row limit, until one exceeds what the page may hold.  *)
ChunksAfter(d) == {n \in ChunkRows(index[d]) : cursor[d] < n}
Offered(d) == {n \in ChunksAfter(d) : n <= cursor[d] + RowLimit}
Taken(d) ==
  {n \in Offered(d) :
     \A k \in cursor[d] + 1 .. n : FactsIn(index[d], cursor[d] + 1 .. k) <= PageMaxFacts}

HasMore(d) == Taken(d) # ChunksAfter(d)

(* SOURCE_CHUNK_EXCEEDS_PAGE: the chunk that does not fit is the first     *)
(* with any facts.                                                         *)
Oversized(d) == Taken(d) # Offered(d) /\ FactsIn(index[d], Taken(d)) = 0

(* The page, last its last chunk; or the refusal. *)
GivePage(d) ==
  /\ at[d] = "page" /\ ~Oversized(d)
  /\ Go(d, "page", IF HasMore(d) THEN "revision" ELSE "complete")
  /\ expected' = [expected EXCEPT ![d] = revision[d]]
  /\ \E last \in cursor[d] .. cursor[d] + RowLimit :
       /\ Taken(d) = cursor[d] + 1 .. last
       /\ cursor' = [cursor EXCEPT ![d] = last]
  /\ held' = [held EXCEPT ![d] = @ \union ({index[d]} \X Taken(d))]
  /\ UNCHANGED <<kind, index, found, revision>>

RefusePage(d) ==
  /\ at[d] = "page" /\ Oversized(d)
  /\ Go(d, "page", "refused")
  /\ UNCHANGED <<kind, index, found, paging>>

-----------------------------------------------------------------------------
(* retrieve_chunks *)

(* One SELECT over the chunks or nodes of the indexes in S. *)
Select(d, s, S, next) ==
  /\ at[d] = s
  /\ found' = [found EXCEPT ![d][s] = @ \union S]
  /\ index' = [index EXCEPT ![d] = IF S = {} THEN @ ELSE CHOOSE q \in S : TRUE]
  /\ \E n \in next : at' = [at EXCEPT ![d] = n]
  /\ UNCHANGED <<kind, paging>>

(* load_source_structure_context: the stored nodes; the structure kept     *)
(* with the chunks of a document that has none; and, when an older parser  *)
(* wrote it, a structure made again from the chunks.                       *)
ReadNodes(d) == Select(d, "nodes", Served \intersect nodes, {"structures"})

ReadStructures(d) ==
  LET S == IF found[d]["nodes"] = {} THEN Served ELSE {}
  IN  Select(d, "structures", S,
             IF S \union found[d]["nodes"] = {} THEN {"embedding"} ELSE {"rebuild", "embedding"})

Rebuild(d) == Select(d, "rebuild", Served, {"embedding"})

(* The index the outline and the page range of a chapter come from. *)
OutlineOf(d) ==
  LET stored == found[d]["nodes"] \union found[d]["structures"]
  IN  IF found[d]["rebuild"] = {} THEN stored ELSE found[d]["rebuild"]

(* embed_texts: a provider call, seconds long. *)
Embed(d) ==
  /\ Go(d, "embedding", "vector")
  /\ UNCHANGED <<kind, index, found, paging>>

(* One vector statement for each query text; the keyword statement only    *)
(* when the message has words to look for; the chunks of the chapter's     *)
(* page range; every chunk of the documents.                               *)
Scoped(d) == kind[d] \in {"chapter", "draft"} /\ OutlineOf(d) # {}

AfterScope(d) == IF kind[d] \in {"draft", "source"} THEN "source" ELSE "answered"

AfterMatches(d) == IF Scoped(d) THEN "scope" ELSE AfterScope(d)

ReadVector(d) ==
  Select(d, "vector", Candidates(ReaderModel), {"vector", "keyword", AfterMatches(d)})

ReadKeyword(d) == Select(d, "keyword", Candidates(ReaderModel), {AfterMatches(d)})

ReadScope(d) == Select(d, "scope", Candidates(ReaderModel), {AfterScope(d)})

ReadSource(d) == Select(d, "source", Candidates(ReaderModel), {"answered"})

(* The rows of the answer: those of the whole source, which a draft takes  *)
(* its facts from, or those of the chapter, or the merged matches.         *)
AnswerRows(d) ==
  IF found[d]["source"] # {} THEN found[d]["source"]
  ELSE IF Scoped(d) THEN found[d]["scope"]
  ELSE found[d]["vector"] \union found[d]["keyword"]

-----------------------------------------------------------------------------
PageStep(d) == ReadRevision(d) \/ ReadEvidence(d) \/ GivePage(d) \/ RefusePage(d)

RetrievalStep(d) ==
  \/ ReadNodes(d) \/ ReadStructures(d) \/ Rebuild(d) \/ Embed(d)
  \/ ReadVector(d) \/ ReadKeyword(d) \/ ReadScope(d) \/ ReadSource(d)

(* The deadline, a cancellation, the database or the provider ends a       *)
(* request: what its statements found is gone, what the caller has stays.  *)
FailRead(d) ==
  /\ at[d] \notin {"idle"} \union Ends
  /\ at' = [at EXCEPT ![d] = "failed"]
  /\ index' = [index EXCEPT ![d] = None]
  /\ found' = [found EXCEPT ![d] = [s \in Statements |-> {}]]
  /\ revision' = [revision EXCEPT ![d] = NoRevision]
  /\ UNCHANGED <<kind, expected, cursor, held>>

ReaderStep(d) == Ask(d) \/ PageStep(d) \/ RetrievalStep(d) \/ FailRead(d)

ReadersNext == \E d \in Readers : ReaderStep(d) /\ UNCHANGED vars

SourceNext == ReadersNext \/ (Next /\ UNCHANGED readers)

SourceSpec == SourceInit /\ [][SourceNext]_sourceVars

(* Beside index requests of which none fails from outside. *)
CalmSourceNext == ReadersNext \/ (CalmNext /\ UNCHANGED readers)

CalmSourceSpec == SourceInit /\ [][CalmSourceNext]_sourceVars /\ Fairness

-----------------------------------------------------------------------------
(* Safety *)

(* "The learned source revision changed while paging." stops a caller from *)
(* gluing pages of two revisions together, although each page is read by   *)
(* three statements: what it holds is a prefix of one index, no chunk      *)
(* twice or left out, and a snapshot called complete lacks chunks only of  *)
(* an index that has been replaced or deleted meanwhile.                   *)
SnapshotIsSound ==
  \A d \in Readers :
    LET q == expected[d].index
    IN  /\ held[d] = {q} \X (1 .. cursor[d])
        /\ at[d] = "complete" => held[d] = {q} \X ChunkRows(q) \/ status[q] = "absent"

(* "One deterministic source page", of a snapshot "without whole-source    *)
(* materialization": a snapshot that ends without an error is the whole    *)
(* source of its revision.                                                 *)
CompleteSnapshotIsWhole ==
  \A d \in Readers :
    at[d] = "complete" =>
      held[d] = {index[d]} \X DOMAIN Chunks[fingerprint[index[d]]]

(* Retrieval reads forwards: of all the revisions its statements have met, *)
(* only the last may still be the one served, so an answer never joins an  *)
(* outline with rows of a revision older than it.                          *)
ReadsMoveForward ==
  \A d \in Readers :
    (UNION {found[d][s] : s \in Statements}) \intersect active \subseteq {index[d]}

(* "Relevance-ranked chunks outside that range are never allowed to fill   *)
(* the context": the rows of a chapter are those of the outline whose page *)
(* range was used.                                                         *)
ChapterRowsMatchOutline ==
  \A d \in Readers :
    at[d] = "answered" /\ kind[d] = "chapter" /\ OutlineOf(d) # {}
      => AnswerRows(d) \subseteq OutlineOf(d)

-----------------------------------------------------------------------------
(* Why they hold: the inductive invariants.                                *)

(* A row that was learned stays so until it disappears. *)
LearnedRows ==
  /\ published \subseteq Requests
  /\ \A q \in published : status[q] \in {"learned", "absent"}

(* What a page is made of: the index of the request is the one its         *)
(* revision names, and the caller's revision when it sent one.             *)
PageDiscipline ==
  \A d \in Readers :
    /\ at[d] \in {"evidence", "page"} => index[d] \in published
    /\ at[d] = "page" =>
         revision[d].index = index[d] /\ expected[d] \in {NoRevision, revision[d]}
    /\ at[d] = "complete" => expected[d].index \in published

(* The caller holds a prefix of one index that was learned. *)
PrefixHeld ==
  \A d \in Readers :
    LET q == expected[d].index
    IN  /\ held[d] = {q} \X (1 .. cursor[d])
        /\ q # None => q \in published
        /\ q = None => cursor[d] = 0
        /\ q # None /\ status[q] = "learned" => 1 .. cursor[d] \subseteq ChunkRows(q)

(* Statements find indexes that were learned, pages use none of found. *)
FoundDiscipline ==
  \A d \in Readers, s \in Statements :
    /\ found[d][s] \subseteq published
    /\ at[d] \in {"idle"} \union PageStatements => found[d][s] = {}

SourceInv ==
  /\ LearnedRows /\ PageDiscipline /\ PrefixHeld /\ FoundDiscipline
  /\ SnapshotIsSound /\ ReadsMoveForward
=============================================================================
