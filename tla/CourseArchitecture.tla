------------------------- MODULE CourseArchitecture -------------------------
(***************************************************************************)
(* One request of /v1/lesson-author/blueprint: the LangGraph workflow      *)
(* (app/workflows/course_architecture.py) with the callbacks that          *)
(* app/services/lesson_author/blueprint_workflow.py gives it.  A blueprint *)
(* is architected, validated layer by layer, and repaired: by the server   *)
(* where the repair is unambiguous, by the provider within two bounds.     *)
(* What a validation finds and what a repair needs is the data's choice.   *)
(***************************************************************************)
EXTENDS Integers, FiniteSets

CONSTANTS Layers,          \* V5_REPAIR_LAYERS
          EvidenceLayer, CoherenceLayer,  \* where the server can repair by itself
          Operations,      \* semantic-delta operations of each layer
          Prints,          \* fingerprints of a set of blocking findings
          MaxTries,        \* request.max_attempts of the architect
          MaxPerLayer,     \* V5_MAX_REPAIR_ATTEMPTS_PER_LAYER
          MaxCalls,        \* V5_MAX_PROVIDER_REPAIR_CALLS
          MaxAttempts,     \* course_workflow_max_repair_attempts
          RecursionLimit,  \* supersteps LangGraph allows a run
          None

ASSUME LayersAssumption == IsFiniteSet(Layers) /\ {EvidenceLayer, CoherenceLayer} \subseteq Layers
ASSUME NoneAssumption == None \notin Layers \cup Prints
ASSUME OperationsAssumption ==
  /\ DOMAIN Operations = Layers
  /\ \A l \in Layers : IsFiniteSet(Operations[l])
ASSUME BoundsAssumption ==
  /\ MaxTries \in Nat /\ MaxPerLayer \in Nat /\ MaxCalls \in Nat
  /\ MaxAttempts \in Nat /\ RecursionLimit \in Nat

VARIABLES node,      \* the graph's node
          steps,     \* supersteps taken
          tries,     \* provider calls of the architect
          blueprint, \* "none", "semantic", or "allocated": it names canonical facts
          finding,   \* the blocking findings of the last validation, or None
          prints,    \* repair_layer_fingerprints
          attempts,  \* repair_layer_attempts
          calls,     \* repair_provider_calls
          repairs,   \* repair_attempts
          targets,   \* repair_targets, or None
          todo, sent,\* the repair under way: calls left, calls dispatched
          executed,  \* repair calls the provider received (no variable of the code)
          errors,    \* the code in state["errors"], or None
          answer,    \* what the caller gets
          reported   \* the number of repair calls it is told, or None

vars == <<node, steps, tries, blueprint, finding, prints, attempts, calls, repairs, targets,
          todo, sent, executed, errors, answer, reported>>
ledger == <<attempts, calls, sent, executed>>
reply == <<answer, reported>>

Nodes == {"validate_source_scope", "build_source_map", "course_architect", "validate_blueprint",
          "classify_repair", "scoped_repair", "repairing", "finalize", "fail", "end"}

\* What may be wrong with a blueprint.  "contract" and "reference" findings have no layer;
\* the findings after the allocation have the layer their codes agree on, if any.
Findings == [layer : Layers \cup {None}, repairable : BOOLEAN, print : Prints,
             stage : {"draft", "allocated"}]

ASSUME FindingsAssumption == None \notin Findings

\* The targets of a repair: the operations its targets need one of, is there a target that
\* needs a whole replacement, or two operations, or none, as the server knows the answer?
Plans == [ops : UNION {SUBSET Operations[l] : l \in Layers}, whole : BOOLEAN, mixed : BOOLEAN,
          server : BOOLEAN]
PlansFor(l) == {p \in Plans : /\ p.ops \subseteq Operations[l]
                              /\ p.ops # {} \/ p.whole \/ p.server
                              /\ p.mixed => Cardinality(p.ops) > 1
                              /\ p.server => l \in {CoherenceLayer, EvidenceLayer}
                              /\ p.server /\ l = EvidenceLayer => Cardinality(p.ops) = 1 /\ ~p.whole}

\* _planned_v5_provider_repair_calls.
Planned(p) == IF p.whole \/ p.mixed THEN 1 ELSE Cardinality(p.ops)

\* The provider calls of repair_course, unless two operations on one target stop it.
Groups(p) == IF p.whole THEN 1 ELSE Cardinality(p.ops)

\* deterministic_repair_course takes the targets when the server can answer for all of them.
ByServer(l, p) == p.server /\ (l = EvidenceLayer \/ (p.ops = {} /\ ~p.whole))

Init == /\ node = "validate_source_scope" /\ steps = 0 /\ tries = 0
        /\ blueprint = "none" /\ finding = None
        /\ prints = [l \in Layers |-> None] /\ attempts = [l \in Layers |-> 0]
        /\ calls = 0 /\ repairs = 0 /\ targets = None
        /\ todo = 0 /\ sent = 0 /\ executed = 0 /\ errors = None
        /\ answer = "none" /\ reported = None

Running == answer = "none"

\* Mutant of Enter: the graph runs as long as it takes.
EnterUnbounded(n) == node' = n /\ steps' = steps /\ UNCHANGED reply

\* The end of a superstep.  Out of steps, the graph raises GraphRecursionError, which no
\* handler of the route turns into an answer that counts calls.
Enter(n) == /\ steps' = steps + 1
            /\ IF steps + 1 = RecursionLimit
                 THEN node' = "end" /\ answer' = "error" /\ UNCHANGED reported
                 ELSE node' = n /\ UNCHANGED reply
-----------------------------------------------------------------------------
\* The source scope is whole, truncated, or ambiguous: then the callback raises.
ValidateSourceScope ==
  /\ node = "validate_source_scope" /\ Running
  /\ \/ Enter("build_source_map") /\ UNCHANGED errors
     \/ Enter("fail") /\ errors' = "SOURCE"
     \/ /\ node' = "end" /\ answer' = "error" /\ reported' = calls /\ UNCHANGED <<steps, errors>>
  /\ UNCHANGED <<ledger, tries, blueprint, finding, prints, repairs, targets, todo>>

BuildSourceMap ==
  /\ node = "build_source_map" /\ Running
  /\ \/ Enter("course_architect") /\ UNCHANGED errors
     \/ Enter("fail") /\ errors' = "SOURCE"
  /\ UNCHANGED <<ledger, tries, blueprint, finding, prints, repairs, targets, todo>>

\* generate_validated_lesson_author_blueprint: one provider call.  An invalid answer is
\* asked again, one that is invalid in a single lesson's units is left to the repairs.
Architect ==
  /\ node = "course_architect" /\ Running /\ tries < MaxTries
  /\ tries' = tries + 1
  /\ \/ Enter("validate_blueprint") /\ blueprint' = "semantic" /\ UNCHANGED errors
     \/ Enter("fail") /\ errors' = "PROVIDER" /\ UNCHANGED blueprint
     \/ UNCHANGED <<node, steps, blueprint, errors, reply>>
  /\ UNCHANGED <<ledger, finding, prints, repairs, targets, todo>>

ArchitectGivesUp ==
  /\ node = "course_architect" /\ Running /\ tries = MaxTries
  /\ Enter("fail") /\ errors' = "PROVIDER"
  /\ UNCHANGED <<ledger, tries, blueprint, finding, prints, repairs, targets, todo>>
-----------------------------------------------------------------------------
\* after_validation.
AfterValidation(f) ==
  IF f = None THEN "finalize"
  ELSE IF f.repairable /\ f.layer # None /\ attempts[f.layer] < MaxPerLayer /\ calls < MaxCalls
    THEN "classify_repair" ELSE "fail"

\* validate_blueprint: the same finding as before the last repair of its layer ends the
\* repairs.
Judge(f) ==
  LET stuck == f # None /\ f.layer # None /\ repairs > 0 /\ prints[f.layer] = f.print
      g == IF stuck THEN [f EXCEPT !.repairable = FALSE] ELSE f
  IN /\ finding' = g
     /\ prints' = IF f # None /\ f.layer # None THEN [prints EXCEPT ![f.layer] = f.print] ELSE prints
     /\ Enter(AfterValidation(g))

\* validate_lesson_author_blueprint(forbid_provider_fact_ownership=True): facts in the
\* candidate are taken for the provider's, also those the server put there.
Forbidden == blueprint = "allocated"

\* validate_blueprint_layers: schema, evidence, coherence, allocation, depth.  The candidate
\* is rewritten in place; with its allocation only in the last stage.
ValidateBlueprint ==
  /\ node = "validate_blueprint" /\ Running
  /\ IF Forbidden
       THEN \E p \in Prints :
              /\ Judge([layer |-> None, repairable |-> FALSE, print |-> p, stage |-> "draft"])
              /\ UNCHANGED blueprint
       ELSE \E f \in Findings \cup {None} :
              /\ Judge(f)
              /\ blueprint' = IF f = None \/ f.stage = "allocated" THEN "allocated" ELSE "semantic"
  /\ UNCHANGED <<ledger, tries, repairs, targets, todo, errors>>
-----------------------------------------------------------------------------
\* Mutant of Affordable: the calls a repair will take are not looked at.
AffordableNow(l, p) == attempts[l] < MaxPerLayer /\ calls < MaxCalls

Affordable(l, p) == attempts[l] < MaxPerLayer /\ calls + Planned(p) <= MaxCalls

\* classify_repair: targets that are found, prepared without a conflict of authority, and
\* within the two bounds.
ClassifyRepair ==
  /\ node = "classify_repair" /\ Running
  /\ \/ \E p \in PlansFor(finding.layer) :
          /\ targets' = p
          /\ IF Affordable(finding.layer, p) THEN Enter("scoped_repair") /\ UNCHANGED errors
                                             ELSE Enter("fail") /\ errors' = "EXHAUSTED"
     \/ targets' = None /\ Enter("fail") /\ errors' \in {"VALIDATION", "INVALID"}
  /\ UNCHANGED <<ledger, tries, blueprint, finding, prints, repairs, todo>>

\* Only a first repair and the setting are ever asked for: the count stops above both.
Another(n) == IF n > MaxAttempts THEN n ELSE n + 1

\* Mutant of Repaired: the allocation of the blueprint that was repaired stays.
RepairedAsIs(b) == b

\* apply_course_architecture_repair_patches: only the semantic part is kept.
Repaired(b) == "semantic"

ServerRepair ==
  /\ node = "scoped_repair" /\ Running /\ ByServer(finding.layer, targets)
  /\ \/ /\ blueprint' = Repaired(blueprint) /\ repairs' = Another(repairs)
        /\ Enter("validate_blueprint") /\ UNCHANGED errors
     \/ Enter("fail") /\ errors' = "INVALID" /\ UNCHANGED <<blueprint, repairs>>
  /\ UNCHANGED <<ledger, tries, finding, prints, targets, todo>>

\* repair_course: one call after another, one for each operation.
BeginRepair ==
  /\ node = "scoped_repair" /\ Running /\ ~ByServer(finding.layer, targets)
  /\ node' = "repairing" /\ sent' = 0
  /\ todo' = IF targets.mixed /\ ~targets.whole THEN 0 ELSE Groups(targets)
  /\ UNCHANGED <<steps, tries, blueprint, finding, prints, attempts, calls, repairs, targets,
                 executed, errors, reply>>

\* "Count the provider boundary before awaiting it": the call leaves.
RepairCall ==
  /\ node = "repairing" /\ Running /\ todo > 0
  /\ todo' = todo - 1 /\ sent' = sent + 1 /\ executed' = executed + 1
  /\ UNCHANGED <<node, steps, tries, blueprint, finding, prints, attempts, calls, repairs,
                 targets, errors, reply>>

\* The counters after a repair of n calls; a repair without a call is no attempt.
Charge(n) == /\ calls' = calls + n
             /\ attempts' = [attempts EXCEPT ![finding.layer] = IF n > 0 THEN @ + 1 ELSE @]
             /\ sent' = 0

\* Mutant of RepairFails: a call that brought no usable answer is not counted.
RepairFailsUncounted ==
  /\ node = "repairing" /\ Running
  /\ Enter("fail") /\ errors' = "INVALID" /\ todo' = 0
  /\ Charge(IF sent > 0 THEN sent - 1 ELSE 0)
  /\ UNCHANGED <<tries, blueprint, finding, prints, repairs, targets, executed>>

\* A provider error, a cut or unreadable answer, a conflict of operations, a patch set a
\* guard rejects: the blueprint stays, the calls that left are counted.
RepairFails ==
  /\ node = "repairing" /\ Running
  /\ Enter("fail") /\ errors' = "INVALID" /\ todo' = 0
  /\ Charge(sent)
  /\ UNCHANGED <<tries, blueprint, finding, prints, repairs, targets, executed>>

\* Mutant of AfterRepair: the repaired blueprint is taken as it is.
AfterRepairFinalize == "finalize"

AfterRepair == "validate_blueprint"

RepairSucceeds ==
  /\ node = "repairing" /\ Running /\ todo = 0 /\ sent > 0
  /\ blueprint' = Repaired(blueprint) /\ repairs' = Another(repairs)
  /\ Charge(sent)
  /\ Enter(AfterRepair)
  /\ UNCHANGED <<tries, finding, prints, targets, todo, executed, errors>>
-----------------------------------------------------------------------------
\* _failure_code: what the failed run is called.
FailureCode ==
  IF errors = "SOURCE" \/ (finding # None /\ ~finding.repairable) THEN "NON_REPAIRABLE"
  ELSE IF IF blueprint # "none" THEN \/ calls >= MaxCalls
                                     \/ /\ finding # None /\ finding.layer # None
                                        /\ attempts[finding.layer] >= MaxPerLayer
                                ELSE repairs >= MaxAttempts
    THEN "EXHAUSTED"
  ELSE IF errors \in {"PROVIDER", "INVALID"} THEN errors ELSE "VALIDATION"

\* A failed run ends in a ServiceError that carries the code and the counted calls.
Fail == /\ node = "fail" /\ Running
        /\ node' = "end" /\ steps' = steps + 1
        /\ answer' = FailureCode /\ reported' = calls
        /\ UNCHANGED <<ledger, tries, blueprint, finding, prints, repairs, targets, todo, errors>>

\* The graph is done; the coverage of the blueprint and its chapters are checked once more.
Finalize ==
  /\ node = "finalize" /\ Running
  /\ node' = "end" /\ steps' = steps + 1
  /\ \/ answer' = "blueprint" /\ reported' = calls
     \/ answer' = "error" /\ UNCHANGED reported
  /\ UNCHANGED <<ledger, tries, blueprint, finding, prints, repairs, targets, todo, errors>>

\* run_with_deadline: the request ends wherever it is.
Expire == /\ Running /\ node' = "end" /\ answer' = "error"
          /\ UNCHANGED <<ledger, steps, tries, blueprint, finding, prints, repairs, targets,
                         todo, errors, reported>>

Work == \/ ValidateSourceScope \/ BuildSourceMap \/ Architect \/ ArchitectGivesUp
        \/ ValidateBlueprint \/ ClassifyRepair \/ ServerRepair \/ BeginRepair \/ RepairCall
        \/ RepairFails \/ RepairSucceeds \/ Fail \/ Finalize

Next == Work \/ Expire

Spec == Init /\ [][Next]_vars

\* A provider call ends (the transport has its own timeouts), and nothing else waits.
FairSpec == Spec /\ WF_vars(Work)
-----------------------------------------------------------------------------
\* Every variable keeps its type.
TypeOK ==
  /\ node \in Nodes /\ steps \in Nat /\ tries \in 0..MaxTries
  /\ blueprint \in {"none", "semantic", "allocated"} /\ finding \in Findings \cup {None}
  /\ prints \in [Layers -> Prints \cup {None}] /\ attempts \in [Layers -> Nat]
  /\ calls \in Nat /\ repairs \in Nat /\ targets \in Plans \cup {None}
  /\ todo \in Nat /\ sent \in Nat /\ executed \in Nat
  /\ errors \in {None, "SOURCE", "PROVIDER", "EXHAUSTED", "VALIDATION", "INVALID"}
  /\ answer \in {"none", "blueprint", "error", "NON_REPAIRABLE", "EXHAUSTED", "PROVIDER",
                 "INVALID", "VALIDATION"}
  /\ reported \in Nat \cup {None}

\* "An HTTP failure, parser failure or mutation-guard rejection must still be visible as an
\* executed call in terminal state" (repair_course): an answer that names a number of repair
\* calls names the number the provider received, wherever the repair broke off.
ExecutedCallsAreVisible == reported # None => reported = executed

\* "A layer gets one scoped provider repair", and the workflow three provider calls in all,
\* although one repair may take several calls and is stopped between them.
ProviderRepairsAreBounded ==
  /\ executed <= MaxCalls
  /\ \A l \in Layers : attempts[l] <= MaxPerLayer

\* The caller gets only a blueprint that passed its last validation as it is, with the
\* server's allocation in it, after any sequence of repairs.
OnlyValidatedBlueprintIsAnswered ==
  answer = "blueprint" => finding = None /\ blueprint = "allocated"

\* A validation never takes the facts the server allocated in an earlier round for facts the
\* provider claims, which would end the repair of a layer that comes after the allocation.
AllocationIsNotHeldAgainstIt == node = "validate_blueprint" => blueprint # "allocated"

\* Every request is answered: the repairs the server makes by itself count against neither
\* bound, and a finding that comes back after another one is not taken for the same.
EveryRequestEnds == <>(answer # "none")
-----------------------------------------------------------------------------
\* Why the accounting and the bounds hold: the inductive invariant.

\* What the provider received is what was counted and what is under way.
Accounted ==
  /\ executed = calls + sent
  /\ node \notin {"repairing", "end"} => sent = 0
  /\ reported # None => node = "end" /\ reported = executed

\* From the classification on there is room for the calls of the repair.
WithinBounds ==
  /\ calls + sent <= MaxCalls
  /\ \A l \in Layers : attempts[l] <= MaxPerLayer
  /\ node \in {"classify_repair", "scoped_repair", "repairing"} =>
       finding # None /\ finding.layer # None
  /\ node \in {"scoped_repair", "repairing"} => attempts[finding.layer] < MaxPerLayer
  /\ node = "scoped_repair" => IsFiniteSet(targets.ops) /\ calls + Planned(targets) <= MaxCalls
  /\ node = "repairing" => calls + sent + todo <= MaxCalls

\* What leaves the last validation.
Checked ==
  node = "finalize" \/ answer = "blueprint" => finding = None /\ blueprint = "allocated"

IInv == TypeOK /\ Accounted /\ WithinBounds /\ Checked /\ AllocationIsNotHeldAgainstIt
=============================================================================
