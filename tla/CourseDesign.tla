---------------------------- MODULE CourseDesign ----------------------------
(***************************************************************************)
(* The course-skeleton task of app/idm: the W1 map of the sections in      *)
(* parallel, then W1 reduce, the W2 batches and W4, each a provider call   *)
(* with one repair and a deterministic fallback, all of them on one token  *)
(* ledger, one deadline and one sticky provider failure (idm/runtime.py).  *)
(* A job is one such loop of two attempts.  Prompts, answers and plans are *)
(* left out; what is kept is who calls, what is reserved and billed, and   *)
(* how each job ends.                                                      *)
(***************************************************************************)
EXTENDS Integers, FiniteSets

CONSTANTS Sections,     \* the sections of the source, one W1 map job each
          Batches,      \* the batches of W2, run one after the other
          Reduce, W4,   \* the two jobs that run once
          NoJob,
          Parallelism,  \* W1 map jobs at a time
          Allowance,    \* output tokens Node granted the task
          MapCap, ReduceCap, W2Cap, W4Cap,  \* output caps of the stages
          EstimateMax   \* bound on a local estimate of a call's output

Jobs == Sections \cup Batches \cup {Reduce, W4}
Minimum(cap) == IF cap \div 2 > 1 THEN cap \div 2 ELSE 1

StageCap(j) == CASE j \in Sections -> MapCap
                 [] j = Reduce     -> ReduceCap
                 [] j \in Batches  -> W2Cap
                 [] OTHER          -> W4Cap

\* What a call of j leaves to the stages after it (idm_tail_reserve).
Tail(j) == CASE j \in Sections -> Minimum(ReduceCap) + Minimum(W2Cap) + Minimum(W4Cap)
             [] j = Reduce     -> Minimum(W2Cap) + Minimum(W4Cap)
             [] j \in Batches  -> Minimum(W4Cap)
             [] OTHER          -> 0

ASSUME JobsAssumption ==
  /\ Sections # {} /\ Batches # {}
  /\ IsFiniteSet(Sections) /\ IsFiniteSet(Batches)
  /\ Sections \cap Batches = {} /\ Reduce # W4
  /\ {Reduce, W4} \cap (Sections \cup Batches) = {} /\ NoJob \notin Jobs
ASSUME CapsAssumption ==
  /\ MapCap \in Nat \ {0} /\ ReduceCap \in Nat \ {0}
  /\ W2Cap \in Nat \ {0} /\ W4Cap \in Nat \ {0}
ASSUME EstimateAssumption == EstimateMax \in Nat
ASSUME ParallelismAssumption == Parallelism \in Nat \ {0}
\* The grant admits one map call beside the shares of the later stages.
ASSUME AllowanceAssumption ==
  /\ Allowance \in Nat
  /\ Allowance >= Minimum(MapCap) + Minimum(ReduceCap) + Minimum(W2Cap) + Minimum(W4Cap)

VARIABLES job,       \* how far each job is
          attempt,   \* 1: the writer call, 2: the repair
          cap,       \* output cap of the call in flight, 0 without one
          running,   \* the coroutine the event loop runs, up to its next await
          output,    \* usage.output_tokens
          reserved,  \* usage.reserved_output_tokens
          complete,  \* usage.complete
          failure,   \* the job that set provider_failure_code, NoJob: unset
          late,      \* less than IDM_MIN_CALL_REMAINING_SECONDS are left
          request,   \* the course-skeleton request
          spent,     \* history: output tokens the provider really billed, but for
                     \* those that a local estimate of an answer fell short of
          over       \* history: tokens that estimates booked beyond the bill

ledger == <<output, reserved, complete, spent, over>>
vars == <<job, attempt, cap, running, failure, late, request, ledger>>

Settled(j) == job[j] \in {"provider", "fallback"}
Calling(j) == job[j] = "calling"
Mapping    == {s \in Sections : Calling(s)}

\* The stages run in order; a section waits for the gate of map_sections.
Open(j) ==
  /\ j \in Sections => Cardinality(Mapping) < Parallelism
  /\ j \notin Sections => \A s \in Sections : Settled(s)
  /\ j \in Batches \cup {W4} => Settled(Reduce)
  /\ j \in Batches => \A b \in Batches : ~Calling(b)
  /\ j = W4 => \A b \in Batches : Settled(b)

\* Mutant of Available: the calls in flight are forgotten.
AvailableUnreserved(j) == Allowance - output - Tail(j)

Available(j) == Allowance - output - reserved - Tail(j)
Affordable(j) == Available(j) >= Minimum(StageCap(j))
GrantedCap(j) == IF StageCap(j) < Available(j) THEN StageCap(j) ELSE Available(j)
\* Mutant of Admitted: the provider failure of another call is not looked at.
AdmittedAfterFailure(j) == ~late /\ Affordable(j)

Admitted(j) == failure = NoJob /\ ~late /\ Affordable(j)
-----------------------------------------------------------------------------
Init == /\ job = [j \in Jobs |-> "waiting"]
        /\ attempt = [j \in Jobs |-> 1]
        /\ cap = [j \in Jobs |-> 0]
        /\ running = NoJob
        /\ output = 0 /\ reserved = 0 /\ complete = TRUE
        /\ spent = 0 /\ over = 0
        /\ failure = NoJob /\ late = FALSE
        /\ request = "running"

Idle == request = "running" /\ running = NoJob

\* A job comes to its first call: a section past the gate, a later stage in its turn.
Start(j) ==
  /\ Idle /\ job[j] = "waiting" /\ Open(j)
  /\ running' = j
  /\ job' = [job EXCEPT ![j] = "ready"]
  /\ UNCHANGED <<attempt, cap, failure, late, request, ledger>>

\* idm_generate up to the provider: admit the call and reserve its cap.
Dispatch(j) ==
  /\ running = j /\ Admitted(j)
  /\ job' = [job EXCEPT ![j] = "calling"]
  /\ cap' = [cap EXCEPT ![j] = GrantedCap(j)]
  /\ reserved' = reserved + GrantedCap(j)
  /\ running' = NoJob
  /\ UNCHANGED <<attempt, failure, late, request, output, complete, spent, over>>

\* The call is refused: a provider failure of the task, the deadline, the output
\* allowance, or the input allowance (prompt sizes are left out, so it may always
\* be that one).  The job falls back; no later attempt is made.
Refuse(j) ==
  /\ running = j
  /\ job' = [job EXCEPT ![j] = "fallback"]
  /\ running' = NoJob
  /\ UNCHANGED <<attempt, cap, failure, late, request, ledger>>

\* W4 without a course block makes no call.
SkipW4 ==
  /\ Idle /\ job[W4] = "waiting" /\ Open(W4)
  /\ job' = [job EXCEPT ![W4] = "fallback"]
  /\ UNCHANGED <<attempt, cap, running, failure, late, request, ledger>>

\* The call is over: its reservation goes, and n of its tokens were billed.
Return(j, n) ==
  /\ reserved' = reserved - cap[j]
  /\ cap' = [cap EXCEPT ![j] = 0]
  /\ spent' = spent + n

\* An answered call: what it books is the n of its usage metadata or, when these are
\* missing, an estimate from the length of the text (usage_from_google_response).
Book(j) ==
  \E n \in 0 .. cap[j] : \E m \in {n} \cup (0 .. EstimateMax) :
    /\ Return(j, IF m < n THEN m ELSE n)
    /\ output' = output + m
    /\ over' = over + (IF m > n THEN m - n ELSE 0)

\* A call without an answer: up to most tokens may be billed for it, and none is booked.
Lose(j, most) ==
  /\ \E n \in 0 .. most : Return(j, n)
  /\ complete' = FALSE
  /\ UNCHANGED <<output, over>>

\* An answer that parses and passes the validation of the stage.
Accept(j) ==
  /\ Idle /\ Calling(j)
  /\ Book(j)
  /\ job' = [job EXCEPT ![j] = "provider"]
  /\ UNCHANGED <<attempt, running, complete, failure, late, request>>

\* An answer that does not: billed all the same.  The writer is repaired at once,
\* without an await in between; after the repair the job falls back.
Reject(j) ==
  /\ Idle /\ Calling(j)
  /\ Book(j)
  /\ IF attempt[j] = 1
     THEN /\ attempt' = [attempt EXCEPT ![j] = 2]
          /\ job' = [job EXCEPT ![j] = "ready"]
          /\ running' = j
     ELSE /\ job' = [job EXCEPT ![j] = "fallback"]
          /\ UNCHANGED <<attempt, running>>
  /\ UNCHANGED <<complete, failure, late, request>>

\* Mutant of Transient: the failed call is a fallback like any other.
TransientUnrecorded(j) ==
  /\ Idle /\ Calling(j)
  /\ \E n \in 0 .. cap[j] : Return(j, n)
  /\ job' = [job EXCEPT ![j] = "fallback"]
  /\ UNCHANGED <<attempt, running, complete, failure, late, request, output, over>>

\* A transient provider failure, or the request timeout of a call that the provider
\* may still answer and bill: it ends every later call of the task.
Transient(j) ==
  /\ Idle /\ Calling(j)
  /\ Lose(j, cap[j])
  /\ failure' = j
  /\ job' = [job EXCEPT ![j] = "fallback"]
  /\ UNCHANGED <<attempt, running, late, request>>

\* The error of an exhausted, rejected or rate limited key leaves the job.  Nothing is
\* billed for it, but for the call that still rate limits when the time is out.
Terminal(j) ==
  /\ Idle /\ Calling(j)
  /\ Lose(j, IF late THEN cap[j] ELSE 0)
  /\ job' = [job EXCEPT ![j] = "raised"]
  /\ UNCHANGED <<attempt, running, failure, late, request>>

\* Mutant of TimesOut: no outer timeout.
TimesOutNever(j) == FALSE

\* The outer timeout of idm_generate, a few seconds before the deadline.
TimesOut(j) == late /\ (Transient(j) \/ Terminal(j))

TimePasses == ~late /\ request = "running" /\ late' = TRUE
              /\ UNCHANGED <<job, attempt, cap, running, failure, request, ledger>>

\* Mutant of Stop: the tasks of the other sections are left running.
StopAtOnce ==
  /\ Idle
  /\ request' = "failed"
  /\ UNCHANGED <<job, attempt, cap, running, failure, late, ledger>>

\* The error of a job, a cancellation of the request, a source without anything to
\* teach or a busy CPU limiter ends the request: what still runs is cancelled.
Stop ==
  /\ Idle
  /\ request' = "stopping"
  /\ UNCHANGED <<job, attempt, cap, running, failure, late, ledger>>

\* A cancelled call gives back its reservation; what it billed is never known.
Unwind(j) ==
  /\ request = "stopping" /\ Calling(j)
  /\ Lose(j, cap[j])
  /\ job' = [job EXCEPT ![j] = "cancelled"]
  /\ UNCHANGED <<attempt, running, failure, late, request>>

Fail ==
  /\ request = "stopping" /\ \A j \in Jobs : ~Calling(j)
  /\ request' = "failed"
  /\ UNCHANGED <<job, attempt, cap, running, failure, late, ledger>>

Answer ==
  /\ Idle /\ \A j \in Jobs : Settled(j)
  /\ request' = "answered"
  /\ UNCHANGED <<job, attempt, cap, running, failure, late, ledger>>

\* What the answer says of itself.
FellBack(J) == {j \in J : job[j] = "fallback"}
FallbackStages ==
    (IF 10 * Cardinality(FellBack(Sections)) > 3 * Cardinality(Sections) THEN 1 ELSE 0)
  + (IF FellBack({Reduce}) # {} THEN 1 ELSE 0)
  + (IF FellBack(Batches) = Batches THEN 1 ELSE 0)
  + (IF FellBack({W4}) # {} THEN 1 ELSE 0)
Reviewable == FallbackStages >= 2
UsageComplete == complete /\ failure = NoJob

JobStep(j) == \/ Start(j) \/ Dispatch(j) \/ Refuse(j) \/ Accept(j) \/ Reject(j)
              \/ Transient(j) \/ Terminal(j) \/ Unwind(j)
Next == (\E j \in Jobs : JobStep(j)) \/ SkipW4 \/ TimePasses \/ Stop \/ Fail \/ Answer

Spec == Init /\ [][Next]_vars

\* Coroutines run when they can, the deadline passes and the outer timeout fires.
\* Nothing makes the provider answer.
Fairness == /\ \A j \in Jobs : /\ WF_vars(Start(j)) /\ WF_vars(Dispatch(j) \/ Refuse(j))
                               /\ WF_vars(TimesOut(j)) /\ WF_vars(Unwind(j))
            /\ WF_vars(TimePasses)
            /\ WF_vars(Stop /\ \E j \in Jobs : job[j] = "raised")
            /\ WF_vars(Fail) /\ WF_vars(Answer)
FairSpec == Spec /\ Fairness
-----------------------------------------------------------------------------
\* Every variable keeps its type; the ledger never goes below zero.
TypeOK ==
  /\ job \in [Jobs -> {"waiting", "ready", "calling", "provider", "fallback",
                       "raised", "cancelled"}]
  /\ attempt \in [Jobs -> 1 .. 2]
  /\ cap \in [Jobs -> Nat]
  /\ running \in Jobs \cup {NoJob}
  /\ output \in Nat /\ reserved \in Int
  /\ spent \in Nat /\ over \in Nat
  /\ complete \in BOOLEAN /\ late \in BOOLEAN
  /\ failure \in Jobs \cup {NoJob}
  /\ request \in {"running", "stopping", "answered", "failed"}

\* Whatever map calls overlap, and though a failed or cancelled call is billed without
\* the ledger knowing, the provider bills no more than Node granted, estimates that are
\* too low left aside (admitted_output_tokens, idm_generate).
SpendIsBounded == spent + reserved <= Allowance

\* "Each later stage is guaranteed only its minimum admissible cap" (idm_tail_reserve):
\* however much the stages before it used, W1 reduce, the first W2 batch and W4 find
\* room for a call, short of it by no more than estimates booked beyond the bill.
LaterStagesKeepTheirShare ==
  \A j \in Jobs :
    /\ running = j /\ attempt[j] = 1
    /\ j \in Batches => \A b \in Batches \ {j} : job[b] = "waiting"
    /\ j \notin Sections
    => Available(j) + over >= Minimum(StageCap(j))

\* An answer that says its usage comes from the provider misses no call that was
\* billed: what it counts is the bill, but for local estimates (run_idm_course_design).
UsageIsTruthful == request = "answered" /\ UsageComplete => spent = output - over

\* "Never label estimates as Gemini/provider usage" (infra/gemini/telemetry.py): what
\* UsageIsTruthful allows would not occur.  The code does not keep this; no run claims it.
EstimatesAreLabelled == request = "answered" /\ UsageComplete => spent = output

\* When the request ends no call of it is in flight and nothing stays reserved
\* (map_sections cancels and awaits its tasks).
NothingOutlivesTheRequest ==
  request \in {"answered", "failed"} => (\A j \in Jobs : ~Calling(j)) /\ reserved = 0

\* A course whose provider was lost before the blueprint is never returned as
\* validated: the sticky failure sends every later stage to its fallback.
LostProviderIsReviewed ==
  request = "answered" /\ failure \in Sections \cup {Reduce} => Reviewable

\* Every request is answered or fails, whatever the provider does.
EveryRequestEnds == <>(request \in {"answered", "failed"})
=============================================================================
