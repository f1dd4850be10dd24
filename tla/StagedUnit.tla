----------------------------- MODULE StagedUnit -----------------------------
(***************************************************************************)
(* One V2 unit without an IDM brief: services/orchestration_v2/unit.py     *)
(* with the checkpoint lane of lesson_author/staged/writer.py and the      *)
(* semantic review of semantic_review.py.  The provider writes the unit    *)
(* and may repair the components a check rejects; what it cannot repair is *)
(* taken from the source-locked unit the server built before.  A reviewer  *)
(* model then reads the unit and may have up to RepairLimit components     *)
(* rewritten once.                                                         *)
(* A unit is what its validator finds in each component and in the whole.  *)
(***************************************************************************)
EXTENDS Integers, FiniteSets, FiniteSetsExt

CONSTANTS PartCount,    \* components of the unit
          CallAttempts, \* PROVIDER_TRANSIENT_MAX_ATTEMPTS
          AttemptCap,   \* semantic_review_provider_attempt_cap
          RepairLimit,  \* MAX_REPAIR_COMPONENTS
          ReviewModes,  \* the semantic_review_mode of the service: one of these
          Counts        \* critical and major findings a review makes of one component

ASSUME StagedAssumption ==
  /\ PartCount \in Nat \ {0} /\ CallAttempts \in Nat \ {0} /\ AttemptCap \in Nat
  /\ RepairLimit \in Nat \ {0}
  /\ ReviewModes \subseteq {"off", "observe", "repair"}
  /\ Counts \subseteq [critical : Nat, major : Nat] /\ [critical |-> 0, major |-> 0] \in Counts

VARIABLES stage,     \* the await or the synchronous step the request is at
          ask,       \* the request: fallback_only, evidence to review, review mode
          locked,    \* source_locked_fallback_unit
          text,      \* the unit
          softened,  \* fallback_component_indices
          attempts,  \* provider_http_attempt_started events of the attempt trace
          known,     \* provider_usage_complete of the writer
          sknown,    \* semantic_usage_complete
          billed,    \* what is known of the bills of the writer's calls and of the review's: all,
                     \* all but of attempts before an answer, or not all (no variable)
          first,     \* the review of the unit, and (scoped) of its rewritten components
          scoped,
          targets,   \* the components to rewrite
          rewritten, \* the unit with them
          verdict,   \* SemanticReviewRunOutcome: its quality_state, and whether it has the
          adopted,   \* rewritten unit
          reply      \* the answer of the route

svars == <<stage, ask, locked, text, softened, attempts, known, sknown, billed, first, scoped,
           targets, rewritten, verdict, adopted, reply>>
request == <<ask, locked>>
writing == <<text, softened, known>>
reviewing == <<sknown, first, scoped, targets, rewritten, verdict, adopted>>

Parts == 1..PartCount
Whole == 0
Places == 0..PartCount

\* A finding the provider may repair, one nobody may, and one of a component that claims
\* evidence it does not own: with such a claim no component is given back to the provider.
Units == [Places -> {"none", "mendable", "stuck", "foreign"}]
Sound(u) == \A q \in Places : u[q] = "none"
Spotless == [q \in Places |-> "none"]

\* staged_component_repair_targets
RepairTargets(u) == IF \E p \in Parts : u[p] = "foreign" THEN {} ELSE {p \in Parts : u[p] = "mendable"}

\* A unit in which only these components are new; what the check of the whole says is open.
Merged(u, new, ps) == {m \in Units : \A p \in Parts : IF p \in ps THEN m[p] = new[p] ELSE m[p] = u[p]}
Edited(u, ps) == {m \in Units : /\ \A p \in Parts \ ps : m[p] = u[p]
                                /\ \A p \in ps : m[p] # "foreign"}

Reviews == [Places -> Counts]
NoFindings == [critical |-> 0, major |-> 0]
Silent == [q \in Places |-> NoFindings]
Serious(r) == {q \in Places : r[q] # NoFindings}

NoReply == [origin |-> "none", quality |-> "none", complete |-> FALSE]
ErrorReply == [origin |-> "error", quality |-> "none", complete |-> FALSE]
-----------------------------------------------------------------------------
SInit == /\ stage = "arrived" /\ ask = [only |-> FALSE, doubtful |-> FALSE, mode |-> "off"]
         /\ locked = Spotless /\ text = Spotless /\ softened = {}
         /\ attempts = 0 /\ known = TRUE /\ sknown = TRUE
         /\ billed = [who \in {"writer", "review"} |-> "all"]
         /\ first = Silent /\ scoped = Silent /\ targets = {} /\ rewritten = Spotless
         /\ verdict = "none" /\ adopted = FALSE /\ reply = NoReply

\* The request, and the source-locked unit built for it.  That the unit cannot be built has
\* the effect of one that fails every check.
Receive ==
  /\ stage = "arrived"
  /\ ask' \in [only : BOOLEAN, doubtful : BOOLEAN, mode : ReviewModes]
  /\ locked' \in [Places -> {"none", "stuck"}]
  /\ stage' = IF ask'.only THEN "whole" ELSE "author"
  /\ UNCHANGED <<writing, attempts, billed, reviewing, reply>>

\* What becomes of a call: an answer, or one that does not fit the contract, whose usage is
\* reported, estimated, or reported after a retry; a timeout; refused without a bill (too
\* late to send, no slot, quota, unavailable); broken off otherwise; or cut by the deadline
\* around the writer.  A retried rate limit leaves the usage of the answer as it is.
Answered == {"answer", "invalid"}
Calls ==
  {o \in [what : Answered \cup {"timeout", "refused", "broken", "cut"},
          usage : {"known", "estimated", "retried", "none"}, tries : 0..CallAttempts] :
     /\ (o.usage = "none") = (o.what \notin Answered)
     /\ o.what # "refused" => o.tries > 0
     /\ o.usage = "retried" => o.tries > 1}

Bills == [{"writer", "review"} -> {"all", "answers", "not all"}]

\* What can be known of the bill of a call.  An attempt that failed before the answer, or
\* before the service gave up, may have been billed.
Bill(o) ==
  IF o.usage = "estimated" \/ o.what \in {"timeout", "broken", "cut"} THEN "not all"
  ELSE IF o.usage = "retried" \/ (o.what = "refused" /\ o.tries > 0) THEN "answers" ELSE "all"
Together(a, b) ==
  IF "not all" \in {a, b} THEN "not all" ELSE IF "answers" \in {a, b} THEN "answers" ELSE "all"

Sent(o, lane) == /\ attempts' = attempts + o.tries
                 /\ billed' = [billed EXCEPT ![lane] = Together(@, Bill(o))]

\* generate_stage_two_content: the flag is settled only where a call returns.
WriterCall(o) == Sent(o, "writer") /\ known' = (known /\ (o.what \in Answered => o.usage = "known"))

\* The writer.  A WorkflowFailure, an answer no component can be taken from and the deadline
\* end in the fallback of the whole unit; a ServiceError leaves the route as it is.
Author ==
  /\ stage = "author"
  /\ \E o \in Calls :
       /\ WriterCall(o)
       /\ \/ o.what = "answer"
             /\ \E u \in Units :
                  /\ text' = u
                  /\ \/ Sound(u) /\ stage' = "written"
                     \/ RepairTargets(u) # {} /\ stage' = "recover"
                     \/ ~Sound(u) /\ (RepairTargets(u) = {} \/ \E q \in Places : u[q] = "stuck")
                        /\ stage' = "whole"
             /\ UNCHANGED reply
          \/ o.what \in {"invalid", "broken", "cut"} /\ stage' = "whole" /\ UNCHANGED <<text, reply>>
          \/ o.what \in {"timeout", "refused"} /\ stage' = "done"
             /\ reply' = ErrorReply /\ UNCHANGED text
  /\ UNCHANGED <<request, softened, reviewing>>

\* The one repair of the components with a finding.  What fails here, but for a
\* WorkflowFailure and the deadline, leaves the components to the source-locked unit.
Recover ==
  /\ stage = "recover"
  /\ \E o \in Calls :
       /\ WriterCall(o)
       /\ \/ o.what = "answer" /\ \E m \in Edited(text, RepairTargets(text)) :
               IF Sound(m) THEN stage' = "written" /\ text' = m ELSE stage' = "soften" /\ UNCHANGED text
          \/ o.what \in {"invalid", "timeout", "refused"} /\ stage' = "soften" /\ UNCHANGED text
          \/ o.what \in {"broken", "cut"} /\ stage' = "whole" /\ UNCHANGED text
  /\ UNCHANGED <<request, softened, reviewing, reply>>

\* Mutant of Soften: the server's own components are not checked with the rest.
SoftenUnchecked ==
  /\ stage = "soften"
  /\ \E m \in Merged(text, locked, RepairTargets(text)) :
       text' = m /\ softened' = RepairTargets(text) /\ stage' = "written"
  /\ UNCHANGED <<request, attempts, known, billed, reviewing, reply>>

\* merge_checkpoint_component_fallback into the writer's unit, and the check of the result.
Soften ==
  /\ stage = "soften"
  /\ \E m \in Merged(text, locked, RepairTargets(text)) :
       IF Sound(m) THEN text' = m /\ softened' = RepairTargets(text) /\ stage' = "written"
       ELSE stage' = "whole" /\ UNCHANGED <<text, softened>>
  /\ UNCHANGED <<request, attempts, known, billed, reviewing, reply>>

\* A unit whose usage is not complete is dropped.
HandOver ==
  /\ stage = "written"
  /\ stage' = IF ~known THEN "whole" ELSE IF ask.mode = "off" THEN "finish" ELSE "review"
  /\ UNCHANGED <<request, writing, attempts, billed, reviewing, reply>>
-----------------------------------------------------------------------------
\* Every attempt a call may make is set aside before it, or it is not sent.
Reserved(o) == attempts + CallAttempts > AttemptCap => o.what = "refused" /\ o.tries = 0

\* Mutant of Capture: only a call that returns is asked for its usage.
CaptureReturned(o) == sknown' = (sknown /\ o.usage # "estimated")

\* The finally of call_semantic_provider: a call that was sent without reported usage.
Capture(o) == sknown' = (sknown /\ (o.tries > 0 => o.usage \in {"known", "retried"}))

SemanticCall(o) == o.what # "cut" /\ Reserved(o) /\ Sent(o, "review") /\ Capture(o)

Conclude(v) == stage' = "finish" /\ verdict' = v

\* The review of the whole unit: without serious findings it passed; in repair mode the
\* first components with a repairable one are rewritten; and any failure leaves the unit to
\* a person.
Review ==
  /\ stage = "review"
  /\ \E o \in Calls :
       /\ SemanticCall(o)
       /\ \/ o.what # "answer" /\ Conclude("review_required") /\ UNCHANGED <<first, targets>>
          \/ /\ o.what = "answer" /\ first' \in Reviews
             /\ \E fixable \in SUBSET (Serious(first') \ {Whole}) :
                  LET chosen == {p \in fixable : Cardinality({q \in fixable : q < p}) < RepairLimit}
                  IN IF Serious(first') = {} THEN Conclude("validated") /\ UNCHANGED targets
                     ELSE IF ask.mode # "repair" \/ fixable = {}
                       THEN Conclude("review_required") /\ UNCHANGED targets
                       ELSE stage' = "rewrite" /\ targets' = chosen /\ UNCHANGED verdict
  /\ UNCHANGED <<request, writing, scoped, rewritten, adopted, reply>>

\* Mutant of Accepted: the rewritten unit is not checked again.
AcceptedUnchecked(u) == TRUE

\* deterministic_semantic_recheck
Accepted(u) == Sound(u)

Rewrite ==
  /\ stage = "rewrite"
  /\ \E o \in Calls :
       /\ SemanticCall(o)
       /\ \/ o.what = "answer" /\ \E m \in Edited(text, targets) :
               IF Accepted(m) THEN stage' = "rereview" /\ rewritten' = m /\ UNCHANGED verdict
               ELSE Conclude("review_required") /\ UNCHANGED rewritten
          \/ o.what # "answer" /\ Conclude("review_required") /\ UNCHANGED rewritten
  /\ UNCHANGED <<request, writing, first, scoped, targets, adopted, reply>>

Critical(r, qs) == MapThenSumSet(LAMBDA q : r[q].critical, qs)
Total(r, qs) == MapThenSumSet(LAMBDA q : r[q].critical + r[q].major, qs)

\* _has_strict_repair_progress
Progress(before, after, ps) ==
  Critical(after, Places) <= Critical(before, ps) /\ Total(after, Places) < Total(before, ps)

\* Mutant of Cleared: what the first review found elsewhere is forgotten.
ClearedScope(before, after, ps) == Serious(after) = {}

Cleared(before, after, ps) == Serious(after) = {} /\ Serious(before) \subseteq ps

\* The review of the rewritten components, which speaks of the whole unit only when they are
\* all of it.  That both reviews have too many findings together keeps the old unit, too.
Rereview ==
  /\ stage = "rereview"
  /\ \E o \in Calls :
       /\ SemanticCall(o)
       /\ \/ /\ o.what = "answer"
             /\ scoped' \in {r \in Reviews : Serious(r) \subseteq IF targets = Parts THEN Places ELSE targets}
             /\ \/ /\ Progress(first, scoped', targets)
                   /\ text' = rewritten /\ adopted' = TRUE
                   /\ Conclude(IF Cleared(first, scoped', targets) THEN "validated" ELSE "review_required")
                \/ Conclude("review_required") /\ UNCHANGED <<text, adopted>>
          \/ o.what # "answer" /\ Conclude("review_required") /\ UNCHANGED <<text, scoped, adopted>>
  /\ UNCHANGED <<request, softened, known, first, targets, rewritten, reply>>
-----------------------------------------------------------------------------
Finish ==
  /\ stage = "finish" /\ stage' = "done"
  /\ reply' = [origin |-> IF softened = {} THEN "provider_validated" ELSE "structured_fallback",
               quality |-> IF ask.doubtful \/ (ask.mode = "repair" /\ verdict # "validated")
                           THEN "review_required" ELSE "validated",
               complete |-> known /\ sknown]
  /\ UNCHANGED <<request, writing, attempts, billed, reviewing>>

\* deterministic_fallback: always to be reviewed.  Only the durable last attempt, which calls
\* no provider, knows its usage.
WholeFallback ==
  /\ stage = "whole" /\ stage' = "done"
  /\ text' = locked /\ softened' = Parts
  /\ reply' = IF Sound(locked)
              THEN [origin |-> "structured_fallback", quality |-> "review_required", complete |-> ask.only]
              ELSE ErrorReply
  /\ UNCHANGED <<request, attempts, known, billed, reviewing>>

SNext == \/ Receive \/ Author \/ Recover \/ Soften \/ HandOver
         \/ Review \/ Rewrite \/ Rereview \/ Finish \/ WholeFallback

SSpec == SInit /\ [][SNext]_svars
-----------------------------------------------------------------------------
\* Every variable has its type.
STypeOK ==
  /\ stage \in {"arrived", "author", "recover", "soften", "written", "review", "rewrite",
                "rereview", "finish", "whole", "done"}
  /\ ask \in [only : BOOLEAN, doubtful : BOOLEAN, mode : {"off", "observe", "repair"}]
  /\ locked \in Units /\ text \in Units /\ rewritten \in Units
  /\ softened \subseteq Parts /\ targets \subseteq Parts
  /\ attempts \in Nat /\ known \in BOOLEAN /\ sknown \in BOOLEAN
  /\ billed \in Bills /\ adopted \in BOOLEAN
  /\ first \in Reviews /\ scoped \in Reviews
  /\ verdict \in {"none", "validated", "review_required"}
  /\ reply \in [origin : {"none", "error", "provider_validated", "structured_fallback"},
               quality : {"none", "validated", "review_required"}, complete : BOOLEAN]

Replied == reply.origin \in {"provider_validated", "structured_fallback"}

\* What the reviews say of the unit in the reply: of a rewritten component only what the
\* second one said.
Standing(q) == IF adopted /\ q \in targets THEN {scoped[q]}
               ELSE IF adopted THEN {first[q], scoped[q]} ELSE {first[q]}

\* A unit is answered only if it passes the server's checks as it is answered, whoever wrote
\* its components last: the writer, its repair, the server's fallback of some or all of
\* them, or the repair the reviewer asked for.
AnsweredUnitIsSound == Replied => Sound(text)

\* In repair mode a unit is validated only when no serious finding stands against any text
\* in it: neither one about a component beyond the first RepairLimit, nor one about the
\* whole, nor one of a component that was rewritten.
ValidatedWasReviewed ==
  Replied /\ reply.quality = "validated" /\ ask.mode = "repair" =>
    \A q \in Places : Standing(q) = {NoFindings}

\* A unit without text of the server, and a durable last attempt, call their usage complete
\* only when the bill of every call of the writer is known with all its attempts, and every
\* call of the review that was sent came back with the provider's count.
ValidatedUsageIsTruthful ==
  Replied /\ reply.complete /\ (softened = {} \/ ask.only) =>
    billed.writer = "all" /\ billed.review # "not all"

\* What the code does not keep: after a review that was sent again the usage is called
\* complete, which the writer calls incomplete of its own calls.
CompleteMeansEveryAttempt ==
  Replied /\ reply.complete /\ (softened = {} \/ ask.only) => billed.review = "all"

\* "Incomplete provider usage never crosses the service boundary" (a test of this route): no
\* unit calls its usage complete although a call was sent whose bill is not known.
UsageClaimIsTrue == Replied /\ reply.complete => billed.writer # "not all" /\ billed.review # "not all"
=============================================================================
