----------------------- MODULE CourseArchitecture_proofs -----------------------
(***************************************************************************)
(* The accounting and the bounds of CourseArchitecture, for any layers,    *)
(* operations and caps.  IInv is inductive: the lemmas below take the      *)
(* actions one by one, each for all the conjuncts of IInv.                 *)
(***************************************************************************)
EXTENDS CourseArchitecture, FiniteSetTheorems, TLAPS

Codes == {None, "SOURCE", "PROVIDER", "EXHAUSTED", "VALIDATION", "INVALID"}
Answers == {"none", "blueprint", "error", "NON_REPAIRABLE", "EXHAUSTED", "PROVIDER",
            "INVALID", "VALIDATION"}

(* A layer has finitely many operations, and so has a plan for it. *)
LEMMA PlanIsFinite ==
  ASSUME NEW l \in Layers, NEW p \in PlansFor(l)
  PROVE  /\ p \in Plans /\ IsFiniteSet(p.ops)
         /\ Planned(p) \in Nat /\ Groups(p) \in Nat
         /\ ~p.mixed \/ p.whole => Groups(p) = Planned(p)
<1>1. p \in Plans /\ p.ops \subseteq Operations[l]
  BY DEF PlansFor
<1>2. IsFiniteSet(p.ops)
  BY <1>1, OperationsAssumption, FS_Subset
<1>3. Cardinality(p.ops) \in Nat
  BY <1>2, FS_CardinalityType
<1> QED
  BY <1>1, <1>2, <1>3 DEF Planned, Groups, Plans

(* The invariant at the start. *)
LEMMA InitHolds == Init => IInv
<1> SUFFICES ASSUME Init PROVE IInv
  OBVIOUS
<1> USE BoundsAssumption, LayersAssumption
<1>1. TypeOK
  BY DEF Init, TypeOK, Nodes
<1>2. Accounted /\ Checked
  BY DEF Init, Accounted, Checked
<1>3. WithinBounds
  BY DEF Init, WithinBounds
<1>4. AllocationIsNotHeldAgainstIt
  BY DEF Init, AllocationIsNotHeldAgainstIt
<1> QED
  BY <1>1, <1>2, <1>3, <1>4 DEF IInv

(* The end of a superstep leads to the next node or ends the request. *)
LEMMA EnterLeads ==
  ASSUME TypeOK, NEW n \in Nodes, Enter(n)
  PROVE  /\ steps' \in Nat /\ node' \in {n, "end"} /\ node' \in Nodes
         /\ answer' \in {answer, "error"} /\ answer' \in Answers
         /\ reported' = reported
<1>1. steps \in Nat /\ answer \in Answers
  BY DEF TypeOK, Answers
<1> QED
  BY <1>1 DEF Enter, reply, Nodes, Answers

(* A step between two nodes before the repairs. *)
LEMMA EarlySteps ==
  ASSUME IInv, ValidateSourceScope \/ BuildSourceMap \/ Architect \/ ArchitectGivesUp
  PROVE  IInv'
<1>0. TypeOK /\ Accounted /\ WithinBounds /\ Checked /\ AllocationIsNotHeldAgainstIt
  BY DEF IInv
<1>1. /\ node \in {"validate_source_scope", "build_source_map", "course_architect"}
      /\ answer = "none" /\ sent = 0 /\ reported = None
  BY <1>0 DEF ValidateSourceScope, BuildSourceMap, Architect, ArchitectGivesUp, Running, Accounted
<1>2. /\ UNCHANGED <<attempts, calls, sent, executed, finding, prints, repairs, targets, todo>>
      /\ tries' \in 0..MaxTries /\ errors' \in Codes
      /\ blueprint' \in {"none", "semantic", "allocated"}
  BY <1>0, BoundsAssumption DEF ValidateSourceScope, BuildSourceMap, Architect, ArchitectGivesUp, ledger, TypeOK, Codes
<1>3. /\ steps' \in Nat
      /\ node' \in {"build_source_map", "course_architect", "validate_blueprint", "fail", "end"}
      /\ answer' \in {"none", "error"} /\ answer' \in Answers
      /\ reported' # None => node' = "end" /\ reported' = calls
      /\ node' = "validate_blueprint" => blueprint' = "semantic"
  <2>1. CASE ValidateSourceScope
    <3>1. CASE \E n \in {"build_source_map", "fail"} : Enter(n)
      BY <1>0, <1>1, <2>1, <3>1, EnterLeads DEF Nodes
    <3>2. CASE node' = "end" /\ answer' = "error" /\ reported' = calls /\ UNCHANGED steps
      BY <1>0, <3>2 DEF TypeOK, Answers
    <3> QED
      BY <2>1, <3>1, <3>2 DEF ValidateSourceScope
  <2>2. CASE BuildSourceMap
    <3>1. \E n \in {"course_architect", "fail"} : Enter(n)
      BY <2>2 DEF BuildSourceMap
    <3> QED
      BY <1>0, <1>1, <3>1, EnterLeads DEF Nodes
  <2>3. CASE Architect
    <3>1. CASE Enter("validate_blueprint") /\ blueprint' = "semantic"
      BY <1>0, <1>1, <3>1, EnterLeads DEF Nodes
    <3>2. CASE Enter("fail")
      BY <1>0, <1>1, <3>2, EnterLeads DEF Nodes
    <3>3. CASE UNCHANGED <<node, steps, blueprint, reply>>
      BY <1>0, <1>1, <2>3, <3>3 DEF Architect, TypeOK, reply, Answers
    <3> QED
      BY <2>3, <3>1, <3>2, <3>3 DEF Architect
  <2>4. CASE ArchitectGivesUp
    <3>1. Enter("fail")
      BY <2>4 DEF ArchitectGivesUp
    <3> QED
      BY <1>0, <1>1, <3>1, EnterLeads DEF Nodes
  <2> QED
    BY <2>1, <2>2, <2>3, <2>4
<1>4. TypeOK'
  BY <1>0, <1>2, <1>3 DEF TypeOK, Nodes, Codes, Answers
<1>5. Accounted'
  BY <1>0, <1>1, <1>2, <1>3 DEF Accounted, TypeOK
<1>6. WithinBounds'
  BY <1>0, <1>2, <1>3 DEF WithinBounds
<1>7. Checked' /\ AllocationIsNotHeldAgainstIt'
  BY <1>3 DEF Checked, AllocationIsNotHeldAgainstIt
<1> QED
  BY <1>4, <1>5, <1>6, <1>7 DEF IInv

(* What a validation does with one finding f, or with none. *)
LEMMA JudgeLeads ==
  ASSUME TypeOK, node = "validate_blueprint", NEW f \in Findings \cup {None}, Judge(f)
  PROVE  /\ finding' \in Findings \cup {None}
         /\ prints' \in [Layers -> Prints \cup {None}]
         /\ steps' \in Nat /\ node' \in {"finalize", "classify_repair", "fail", "end"}
         /\ answer' \in {answer, "error"} /\ answer' \in Answers /\ reported' = reported
         /\ node' = "finalize" => f = None /\ finding' = None
         /\ node' = "classify_repair" => finding' # None /\ finding'.layer # None
<1> DEFINE stuck == f # None /\ f.layer # None /\ repairs > 0 /\ prints[f.layer] = f.print
           g == IF stuck THEN [f EXCEPT !.repairable = FALSE] ELSE f
<1>1. finding' = g /\ Enter(AfterValidation(g))
  BY DEF Judge
<1>2. g \in Findings \cup {None} /\ (g = None <=> f = None)
  <2>1. CASE f = None
    BY <2>1
  <2>2. CASE f \in Findings
    BY <2>2, FindingsAssumption DEF Findings
  <2> QED
    BY <2>1, <2>2
<1>3. prints' \in [Layers -> Prints \cup {None}]
  <2>1. CASE f # None /\ f.layer # None
    <3>1. f.layer \in Layers /\ f.print \in Prints
      BY <2>1 DEF Findings
    <3>2. prints' = [prints EXCEPT ![f.layer] = f.print]
      BY <2>1 DEF Judge
    <3> QED
      BY <3>1, <3>2 DEF TypeOK
  <2>2. CASE ~(f # None /\ f.layer # None)
    BY <2>2 DEF Judge, TypeOK
  <2> QED
    BY <2>1, <2>2
<1>4. /\ AfterValidation(g) \in {"finalize", "classify_repair", "fail"}
      /\ AfterValidation(g) = "finalize" => g = None
      /\ AfterValidation(g) = "classify_repair" => g # None /\ g.layer # None
  BY DEF AfterValidation
<1>5. AfterValidation(g) \in Nodes
  BY <1>4 DEF Nodes
<1>6. /\ steps' \in Nat /\ node' \in {AfterValidation(g), "end"}
      /\ answer' \in {answer, "error"} /\ answer' \in Answers /\ reported' = reported
  BY <1>1, <1>5, EnterLeads
<1> HIDE DEF g, stuck
<1> QED
  BY <1>1, <1>2, <1>3, <1>4, <1>6

(* The validation. *)
LEMMA ValidateStep == ASSUME IInv, ValidateBlueprint PROVE IInv'
<1>0. TypeOK /\ Accounted /\ WithinBounds /\ Checked /\ AllocationIsNotHeldAgainstIt
  BY DEF IInv
<1>1. node = "validate_blueprint" /\ answer = "none" /\ sent = 0 /\ reported = None
  BY <1>0 DEF ValidateBlueprint, Running, Accounted
<1>2. ~Forbidden
  BY <1>0, <1>1 DEF Forbidden, AllocationIsNotHeldAgainstIt
<1>3. PICK f \in Findings \cup {None} :
        /\ Judge(f)
        /\ blueprint' = IF f = None \/ f.stage = "allocated" THEN "allocated" ELSE "semantic"
  BY <1>2 DEF ValidateBlueprint
<1>4. UNCHANGED <<attempts, calls, sent, executed, tries, repairs, targets, todo, errors>>
  BY DEF ValidateBlueprint, ledger
<1>5. /\ finding' \in Findings \cup {None} /\ prints' \in [Layers -> Prints \cup {None}]
      /\ steps' \in Nat /\ node' \in {"finalize", "classify_repair", "fail", "end"}
      /\ answer' \in {"none", "error"} /\ answer' \in Answers /\ reported' = None
      /\ node' = "finalize" => f = None /\ finding' = None
      /\ node' = "classify_repair" => finding' # None /\ finding'.layer # None
  BY <1>0, <1>1, <1>3, JudgeLeads
<1>6. TypeOK'
  BY <1>0, <1>3, <1>4, <1>5 DEF TypeOK, Nodes, Answers
<1>7. Accounted'
  BY <1>0, <1>1, <1>4, <1>5 DEF Accounted
<1>8. WithinBounds'
  BY <1>0, <1>4, <1>5 DEF WithinBounds
<1>9. Checked' /\ AllocationIsNotHeldAgainstIt'
  BY <1>3, <1>5 DEF Checked, AllocationIsNotHeldAgainstIt
<1> QED
  BY <1>6, <1>7, <1>8, <1>9 DEF IInv

(* The classification: a repair is begun only with room for its calls. *)
LEMMA ClassifyStep == ASSUME IInv, ClassifyRepair PROVE IInv'
<1>0. TypeOK /\ Accounted /\ WithinBounds /\ Checked /\ AllocationIsNotHeldAgainstIt
  BY DEF IInv
<1>1. node = "classify_repair" /\ answer = "none" /\ sent = 0 /\ reported = None
  BY <1>0 DEF ClassifyRepair, Running, Accounted
<1>2. UNCHANGED <<attempts, calls, sent, executed, tries, blueprint, finding, prints, repairs, todo>>
  BY DEF ClassifyRepair, ledger
<1>3. finding # None /\ finding.layer # None /\ finding.layer \in Layers
  BY <1>0, <1>1 DEF WithinBounds, TypeOK, Findings
<1> DEFINE Led == /\ steps' \in Nat /\ node' \in {"scoped_repair", "fail", "end"}
                  /\ answer' \in {"none", "error"} /\ answer' \in Answers /\ reported' = None
                  /\ targets' \in Plans \cup {None} /\ errors' \in Codes
                  /\ node' = "scoped_repair" =>
                       /\ attempts[finding.layer] < MaxPerLayer
                       /\ IsFiniteSet(targets'.ops) /\ calls + Planned(targets') <= MaxCalls
<1>4. Led
  <2>1. CASE targets' = None /\ Enter("fail") /\ errors' \in {"VALIDATION", "INVALID"}
    BY <1>0, <1>1, <2>1, EnterLeads DEF Nodes, Codes
  <2>2. ASSUME NEW p \in PlansFor(finding.layer), targets' = p,
               Enter("scoped_repair"), Affordable(finding.layer, p), UNCHANGED errors
        PROVE  Led
    <3>1. p \in Plans /\ IsFiniteSet(p.ops)
      BY <1>3, <2>2, PlanIsFinite
    <3>2. errors' \in Codes
      BY <1>0, <2>2 DEF TypeOK, Codes
    <3> QED
      BY <1>0, <1>1, <2>2, <3>1, <3>2, EnterLeads DEF Nodes, Affordable
  <2>3. ASSUME NEW p \in PlansFor(finding.layer), targets' = p, Enter("fail"), errors' = "EXHAUSTED"
        PROVE  Led
    <3>1. p \in Plans
      BY <1>3, <2>3, PlanIsFinite
    <3> QED
      BY <1>0, <1>1, <2>3, <3>1, EnterLeads DEF Nodes, Codes
  <2> QED
    BY <2>1, <2>2, <2>3 DEF ClassifyRepair
<1>5. TypeOK'
  BY <1>0, <1>2, <1>4 DEF TypeOK, Nodes, Codes, Answers
<1>6. Accounted'
  BY <1>0, <1>1, <1>2, <1>4 DEF Accounted
<1>7. WithinBounds'
  BY <1>0, <1>2, <1>3, <1>4 DEF WithinBounds, Planned
<1>8. Checked' /\ AllocationIsNotHeldAgainstIt'
  BY <1>4 DEF Checked, AllocationIsNotHeldAgainstIt
<1> QED
  BY <1>5, <1>6, <1>7, <1>8 DEF IInv

(* A repair the server makes without the provider. *)
LEMMA ServerRepairStep == ASSUME IInv, ServerRepair PROVE IInv'
<1>0. TypeOK /\ Accounted /\ WithinBounds /\ Checked /\ AllocationIsNotHeldAgainstIt
  BY DEF IInv
<1>1. node = "scoped_repair" /\ answer = "none" /\ sent = 0 /\ reported = None
  BY <1>0 DEF ServerRepair, Running, Accounted
<1>2. UNCHANGED <<attempts, calls, sent, executed, tries, finding, prints, targets, todo>>
  BY DEF ServerRepair, ledger
<1> DEFINE Led == /\ steps' \in Nat /\ node' \in {"validate_blueprint", "fail", "end"}
                  /\ answer' \in {"none", "error"} /\ answer' \in Answers /\ reported' = None
                  /\ errors' \in Codes /\ repairs' \in Nat
                  /\ blueprint' \in {"none", "semantic", "allocated"}
                  /\ node' = "validate_blueprint" => blueprint' = "semantic"
<1>3. Led
  <2>1. CASE /\ blueprint' = Repaired(blueprint) /\ repairs' = Another(repairs)
             /\ Enter("validate_blueprint") /\ UNCHANGED errors
    <3>1. repairs' \in Nat /\ errors' \in Codes
      BY <1>0, <2>1 DEF TypeOK, Another, Codes
    <3> QED
      BY <1>0, <1>1, <2>1, <3>1, EnterLeads DEF Nodes, Repaired
  <2>2. CASE Enter("fail") /\ errors' = "INVALID" /\ UNCHANGED <<blueprint, repairs>>
    <3>1. repairs' \in Nat /\ blueprint' \in {"none", "semantic", "allocated"}
      BY <1>0, <2>2 DEF TypeOK
    <3> QED
      BY <1>0, <1>1, <2>2, <3>1, EnterLeads DEF Nodes, Codes
  <2> QED
    BY <2>1, <2>2 DEF ServerRepair
<1>4. TypeOK'
  BY <1>0, <1>2, <1>3 DEF TypeOK, Nodes, Codes, Answers
<1>5. Accounted'
  BY <1>0, <1>1, <1>2, <1>3 DEF Accounted
<1>6. WithinBounds'
  BY <1>0, <1>2, <1>3 DEF WithinBounds
<1>7. Checked' /\ AllocationIsNotHeldAgainstIt'
  BY <1>3 DEF Checked, AllocationIsNotHeldAgainstIt
<1> QED
  BY <1>4, <1>5, <1>6, <1>7 DEF IInv

(* The calls of a repair are no more than were planned for it. *)
LEMMA BeginRepairStep == ASSUME IInv, BeginRepair PROVE IInv'
<1>0. TypeOK /\ Accounted /\ WithinBounds /\ Checked /\ AllocationIsNotHeldAgainstIt
  BY DEF IInv
<1>1. node = "scoped_repair" /\ answer = "none" /\ sent = 0 /\ reported = None
  BY <1>0 DEF BeginRepair, Running, Accounted
<1>2. /\ UNCHANGED <<steps, tries, blueprint, finding, prints, attempts, calls, repairs, targets,
                     executed, errors, answer, reported>>
      /\ node' = "repairing" /\ sent' = 0
  BY DEF BeginRepair, reply
<1>3. todo' \in Nat /\ calls + todo' <= MaxCalls
  <2>1. Cardinality(targets.ops) \in Nat
    BY <1>0, <1>1, FS_CardinalityType DEF WithinBounds
  <2>2. calls \in Nat /\ calls <= MaxCalls /\ calls + Planned(targets) <= MaxCalls
    BY <1>0, <1>1, BoundsAssumption DEF WithinBounds, TypeOK
  <2>3. CASE targets.mixed /\ ~targets.whole
    BY <2>2, <2>3, BoundsAssumption DEF BeginRepair
  <2>4. CASE ~(targets.mixed /\ ~targets.whole)
    <3>1. todo' = Groups(targets) /\ Groups(targets) = Planned(targets)
      BY <2>4 DEF BeginRepair, Groups, Planned
    <3>2. Groups(targets) \in Nat
      BY <2>1 DEF Groups
    <3> QED
      BY <2>2, <3>1, <3>2
  <2> QED
    BY <2>3, <2>4
<1>4. TypeOK'
  BY <1>0, <1>2, <1>3 DEF TypeOK, Nodes
<1>5. Accounted'
  BY <1>0, <1>1, <1>2 DEF Accounted
<1>6. WithinBounds'
  BY <1>0, <1>1, <1>2, <1>3 DEF WithinBounds, TypeOK
<1>7. Checked' /\ AllocationIsNotHeldAgainstIt'
  BY <1>0, <1>1, <1>2 DEF Checked, AllocationIsNotHeldAgainstIt
<1> QED
  BY <1>4, <1>5, <1>6, <1>7 DEF IInv

(* A call that leaves moves from the plan to the calls under way. *)
LEMMA RepairCallStep == ASSUME IInv, RepairCall PROVE IInv'
<1>0. TypeOK /\ Accounted /\ WithinBounds /\ Checked /\ AllocationIsNotHeldAgainstIt
  BY DEF IInv
<1>1. /\ node = "repairing" /\ answer = "none" /\ todo > 0 /\ reported = None
      /\ todo' = todo - 1 /\ sent' = sent + 1 /\ executed' = executed + 1
  BY <1>0 DEF RepairCall, Running, Accounted
<1>2. UNCHANGED <<node, steps, tries, blueprint, finding, prints, attempts, calls, repairs,
                  targets, errors, answer, reported>>
  BY DEF RepairCall, reply
<1>3. TypeOK'
  BY <1>0, <1>1, <1>2 DEF TypeOK
<1>4. Accounted'
  BY <1>0, <1>1, <1>2 DEF Accounted, TypeOK
<1>5. WithinBounds'
  BY <1>0, <1>1, <1>2, BoundsAssumption DEF WithinBounds, TypeOK
<1>6. Checked' /\ AllocationIsNotHeldAgainstIt'
  BY <1>0, <1>1, <1>2 DEF Checked, AllocationIsNotHeldAgainstIt
<1> QED
  BY <1>3, <1>4, <1>5, <1>6 DEF IInv

(* The end of a repair, well or badly: its calls are charged. *)
LEMMA ChargeKeeps ==
  ASSUME IInv, node = "repairing", Charge(sent), UNCHANGED <<executed, finding>>
  PROVE  /\ calls' \in Nat /\ sent' = 0 /\ attempts' \in [Layers -> Nat]
         /\ executed' = calls' + sent' /\ calls' + sent' <= MaxCalls
         /\ \A l \in Layers : attempts'[l] <= MaxPerLayer
<1>0. TypeOK /\ Accounted /\ WithinBounds
  BY DEF IInv
<1>1. finding.layer \in Layers /\ attempts[finding.layer] < MaxPerLayer
  BY <1>0 DEF WithinBounds, TypeOK, Findings
<1>2. calls' = calls + sent /\ sent' = 0
  BY DEF Charge
<1>3. attempts' = [attempts EXCEPT ![finding.layer] = IF sent > 0 THEN @ + 1 ELSE @]
  BY DEF Charge
<1>4. attempts \in [Layers -> Nat] /\ calls \in Nat /\ sent \in Nat
  BY <1>0 DEF TypeOK
<1>5. attempts' \in [Layers -> Nat]
  BY <1>1, <1>3, <1>4
<1>6. ASSUME NEW l \in Layers PROVE attempts'[l] <= MaxPerLayer
  BY <1>0, <1>1, <1>3, <1>4, BoundsAssumption DEF WithinBounds
<1>7. executed' = calls' + sent' /\ calls' + sent' <= MaxCalls /\ calls' \in Nat
  BY <1>0, <1>2, <1>4, BoundsAssumption DEF Accounted, WithinBounds, TypeOK
<1> QED
  BY <1>2, <1>5, <1>6, <1>7

(* A repair that ends. *)
LEMMA RepairEndStep == ASSUME IInv, RepairFails \/ RepairSucceeds PROVE IInv'
<1>0. TypeOK /\ Accounted /\ WithinBounds /\ Checked /\ AllocationIsNotHeldAgainstIt
  BY DEF IInv
<1>1. /\ node = "repairing" /\ answer = "none" /\ reported = None
      /\ Charge(sent) /\ UNCHANGED <<tries, finding, prints, targets, executed>>
  BY <1>0 DEF RepairFails, RepairSucceeds, Running, Accounted
<1>2. /\ calls' \in Nat /\ sent' = 0 /\ attempts' \in [Layers -> Nat]
      /\ executed' = calls' + sent' /\ calls' + sent' <= MaxCalls
      /\ \A l \in Layers : attempts'[l] <= MaxPerLayer
  BY <1>1, ChargeKeeps
<1> DEFINE Led == /\ steps' \in Nat /\ node' \in {"validate_blueprint", "fail", "end"}
                  /\ answer' \in {"none", "error"} /\ answer' \in Answers /\ reported' = None
                  /\ errors' \in Codes /\ repairs' \in Nat /\ todo' \in Nat
                  /\ blueprint' \in {"none", "semantic", "allocated"}
                  /\ node' = "validate_blueprint" => blueprint' = "semantic"
<1>3. Led
  <2>1. CASE RepairFails
    <3>1. /\ Enter("fail") /\ errors' = "INVALID" /\ todo' = 0 /\ UNCHANGED <<blueprint, repairs>>
      BY <2>1 DEF RepairFails
    <3>2. repairs' \in Nat /\ blueprint' \in {"none", "semantic", "allocated"}
      BY <1>0, <3>1 DEF TypeOK
    <3> QED
      BY <1>0, <1>1, <3>1, <3>2, EnterLeads DEF Nodes, Codes
  <2>2. CASE RepairSucceeds
    <3>1. /\ Enter("validate_blueprint") /\ blueprint' = "semantic"
          /\ repairs' = Another(repairs) /\ UNCHANGED <<todo, errors>>
      BY <2>2 DEF RepairSucceeds, AfterRepair, Repaired
    <3>2. repairs' \in Nat /\ todo' \in Nat /\ errors' \in Codes
      BY <1>0, <3>1 DEF TypeOK, Another, Codes
    <3> QED
      BY <1>0, <1>1, <3>1, <3>2, EnterLeads DEF Nodes
  <2> QED
    BY <2>1, <2>2
<1>4. TypeOK'
  BY <1>0, <1>1, <1>2, <1>3 DEF TypeOK, Nodes, Codes, Answers
<1>5. Accounted'
  BY <1>2, <1>3 DEF Accounted
<1>6. WithinBounds'
  BY <1>2, <1>3 DEF WithinBounds
<1>7. Checked' /\ AllocationIsNotHeldAgainstIt'
  BY <1>3 DEF Checked, AllocationIsNotHeldAgainstIt
<1> QED
  BY <1>4, <1>5, <1>6, <1>7 DEF IInv

(* The request ends: at the failure, with the blueprint, or at the deadline. *)
LEMMA EndStep == ASSUME IInv, Fail \/ Finalize \/ Expire PROVE IInv'
<1>0. TypeOK /\ Accounted /\ WithinBounds /\ Checked /\ AllocationIsNotHeldAgainstIt
  BY DEF IInv
<1>1. /\ node' = "end" /\ answer = "none"
      /\ UNCHANGED <<attempts, calls, sent, executed, tries, blueprint, finding, prints, repairs,
                     targets, todo, errors>>
  BY DEF Fail, Finalize, Expire, ledger, Running
<1>2. /\ steps' \in Nat /\ answer' \in Answers
      /\ answer' = "blueprint" => node = "finalize"
  <2>1. FailureCode \in {"NON_REPAIRABLE", "EXHAUSTED", "PROVIDER", "INVALID", "VALIDATION"}
    BY DEF FailureCode
  <2>2. steps \in Nat
    BY <1>0 DEF TypeOK
  <2>3. CASE Fail
    BY <2>1, <2>2, <2>3 DEF Fail, Answers
  <2>4. CASE Finalize
    BY <2>2, <2>4 DEF Finalize, Answers
  <2>5. CASE Expire
    BY <2>2, <2>5 DEF Expire, Answers
  <2> QED
    BY <2>3, <2>4, <2>5
<1>3. reported' \in {reported, calls} /\ (reported' # reported => node \in {"fail", "finalize"})
  BY DEF Fail, Finalize, Expire
<1>4. reported = None \/ (node = "end" /\ reported = executed)
  BY <1>0 DEF Accounted
<1>5. TypeOK'
  BY <1>0, <1>1, <1>2, <1>3 DEF TypeOK, Nodes, Answers
<1>6. Accounted'
  BY <1>0, <1>1, <1>3, <1>4 DEF Accounted, TypeOK
<1>7. WithinBounds'
  BY <1>0, <1>1 DEF WithinBounds
<1>8. Checked' /\ AllocationIsNotHeldAgainstIt'
  BY <1>0, <1>1, <1>2 DEF Checked, AllocationIsNotHeldAgainstIt
<1> QED
  BY <1>5, <1>6, <1>7, <1>8 DEF IInv

(* Every step keeps the invariant. *)
LEMMA StepHolds == IInv /\ [Next]_vars => IInv'
<1> SUFFICES ASSUME IInv, [Next]_vars PROVE IInv'
  OBVIOUS
<1>1. CASE Next
  BY <1>1, EarlySteps, ValidateStep, ClassifyStep, ServerRepairStep, BeginRepairStep,
     RepairCallStep, RepairEndStep, EndStep DEF Next, Work
<1>2. CASE UNCHANGED vars
  BY <1>2 DEF IInv, TypeOK, Accounted, WithinBounds, Checked, AllocationIsNotHeldAgainstIt,
     vars, Planned
<1> QED
  BY <1>1, <1>2

(* IInv holds in every state of every request. *)
THEOREM Inductive == Spec => []IInv
<1> QED
  BY InitHolds, StepHolds, PTL DEF Spec

(* Every variable keeps its type. *)
THEOREM TypeCorrect == Spec => []TypeOK
<1>1. IInv => TypeOK
  BY DEF IInv
<1> QED
  BY <1>1, Inductive, PTL

(* Wherever a repair breaks off, the number of calls the caller is told is the number the *)
(* provider received.                                                                    *)
THEOREM CallsAreAccounted == Spec => []ExecutedCallsAreVisible
<1>1. IInv => ExecutedCallsAreVisible
  BY DEF IInv, Accounted, ExecutedCallsAreVisible
<1> QED
  BY <1>1, Inductive, PTL

(* No sequence of findings and repairs makes more than MaxCalls provider repair calls, or *)
(* more than MaxPerLayer provider repairs of a layer.                                     *)
THEOREM RepairsStayBounded == Spec => []ProviderRepairsAreBounded
<1>1. IInv => ProviderRepairsAreBounded
  BY DEF IInv, Accounted, WithinBounds, ProviderRepairsAreBounded
<1> QED
  BY <1>1, Inductive, PTL

(* A blueprint is answered only as its last validation left it. *)
THEOREM AnswerIsValidated == Spec => []OnlyValidatedBlueprintIsAnswered
<1>1. IInv => OnlyValidatedBlueprintIsAnswered
  BY DEF IInv, Checked, OnlyValidatedBlueprintIsAnswered
<1> QED
  BY <1>1, Inductive, PTL

(* No validation meets the allocation of an earlier one. *)
THEOREM AllocationIsServers == Spec => []AllocationIsNotHeldAgainstIt
<1>1. IInv => AllocationIsNotHeldAgainstIt
  BY DEF IInv
<1> QED
  BY <1>1, Inductive, PTL
================================================================================
