----------------------------- MODULE UnitWriter -----------------------------
(***************************************************************************)
(* One unit of the storyboard (W5): app/idm/storyboard.py with its repair  *)
(* decisions (storyboard_repair.py), its deterministic steps               *)
(* (storyboard_steps.py) and the judge (storyboard_judge.py).  The         *)
(* provider writes the unit, may repair it twice and judges it; the server *)
(* decides what of each answer it keeps, what it replaces by the source    *)
(* text and what the author is asked to review.                            *)
(* A draft is the set of what its validators find in it.  The checks of a  *)
(* slot read other slots too, so that an edit of one may give a finding to *)
(* another, or take one from it.  Worksheet slots, which have one more     *)
(* deterministic step, are not modelled.                                   *)
(***************************************************************************)
EXTENDS Integers, Sequences, FiniteSetsExt

CONSTANTS Kinds,       \* the type of each component slot: a sequence
          MaxFindings, \* findings of one provider answer
          MaxEchoes,   \* findings one edit gives to, or takes from, other slots
          MaxBlocking, \* major findings of one judgement
          JudgeMode,   \* "off", "observe" or "repair"
          Plenty       \* the time the request starts with (below)

ASSUME KindsAssumption == Kinds \in Seq({"html", "problem", "la_faq"})
ASSUME BoundsAssumption == {MaxFindings, MaxBlocking, MaxEchoes} \subseteq Nat /\ Plenty \in 0..2 /\ JudgeMode \in {"off", "observe", "repair"}

VARIABLES pc,        \* the await or the synchronous step the request is at
          left,      \* the time left, as what still fits in it
          tries,     \* calls of the writer
          unit,      \* the draft
          written,   \* what the writer's answer, and no repair, is found with: the findings
                     \* of the answer and those the server's own edits made (no variable)
          fallback,  \* draft.fallback_slots
          review,    \* draft.review_slots with draft.reasons: a set of findings
          again,     \* the repair call under way is the second one of its step
          failure,   \* runtime.provider_failure_code is set
          complete, saved, \* runtime.usage.complete, and before the repair step
          passes,    \* passes of settle_slots
          judge,     \* JudgeOutcome: its status and its blocking findings
          aim, second, \* the slots a judge repair rewrites; the draft it made
          handed,    \* the draft as the judge and its repair left it (no variable)
          bills,     \* the least the usage tells of any call: "known", "guessed" (an estimate,
                     \* or not the attempts before the last) or "missing" (no variable)
          answer     \* the reply: "none", "provider", "whole", "error"

vars == <<pc, left, tries, unit, written, fallback, review, again, failure, complete, saved,
          passes, judge, aim, second, handed, bills, answer>>
draft == <<unit, fallback, review>>
judging == <<judge, aim, second>>
provider == <<left, failure, complete, bills>>

Slots == DOMAIN Kinds
UnitLevel == 0

\* What still fits in the time left: nothing, a call, or any step the server asks the time
\* for first (each has its own threshold, so that one may fit where another does not).
Call == 1
Step == 2
-----------------------------------------------------------------------------
\* The codes of a finding.  "shared" is any rule of the shared validator, "form" and
\* "repeat" rules of Node, the others checks of the W5 quality rules: a new fact, a callout
\* without a source, a framework not listed; a key the text above gives away or contests; an
\* FAQ answer that repeats that text, or is of no value; the rest together.
NodeCodes == {"form", "repeat"}
Style == {"soft", "cue", "faq"}
Soft == {"soft"}
ReviewFirst == {"fact", "leak", "value", "soft", "callout", "framework", "faq"}
ReviewOnly == {"fact", "value", "soft"}
CodesOf(kind) ==
  CASE kind = "html" -> {"shared", "form", "callout", "framework", "fact"}
    [] kind = "problem" -> {"shared", "form", "check", "leak", "soft", "cue"}
    [] kind = "la_faq" -> {"shared", "form", "repeat", "faq", "value", "soft"}

Findings == {<<UnitLevel, "shared">>} \cup UNION {{i} \X CodesOf(Kinds[i]) : i \in Slots}
SlotsOf(d) == {f[1] : f \in d}
CodesAt(d, i) == {f[2] : f \in {g \in d : g[1] = i}}
On(i, codes) == {i} \X codes

\* The drafts a provider may answer with.
Answers == {{}} \cup {{g[k] : k \in 1..MaxFindings} : g \in [1..MaxFindings -> Findings]}

\* problems(): the shared validator stops at its first finding; only a draft it passes is
\* read with Node's rules.
Rules(d) ==
  LET shared == {f \in d : f[2] = "shared"}
  IN IF shared # {} THEN {f \in shared : f[1] = Min(SlotsOf(shared))}
     ELSE {f \in d : f[2] \in NodeCodes}
Checks(d) == {f \in d : f[2] \notin NodeCodes \cup {"shared"}}
Idm(d, exempt) == {f \in Checks(d) : f[2] # "cue" /\ f[1] \notin exempt}
Cues(d, exempt) == {f \in d : f[2] = "cue" /\ f[1] \notin exempt}
-----------------------------------------------------------------------------
\* worse(): codes were added, none of which only wording, or none was fixed.
Worse(old, new) == new \ old # {} /\ (old \subseteq new \/ ~(new \ old \subseteq Style))

\* The slots `after` makes worse than `before`.  A rule counts only where the repair changed
\* the slot and `before` was read with every rule, wording only on a changed slot.
WorseSlots(before, after, changed, exempt) ==
  LET ruled == IF "shared" \in {f[2] : f \in Rules(before)} THEN {} ELSE changed
      counted(d) == {f \in Checks(d) \cup {r \in Rules(d) : r[1] \in ruled} :
                       f[1] \notin exempt \cup {UnitLevel}
                         /\ f[2] \notin IF f[1] \in changed THEN Soft ELSE Style}
      old == counted(before)
      new == counted(after)
  IN {i \in SlotsOf(new \ old) : Worse(CodesAt(old, i), CodesAt(new, i))}

At(d, slots) == {f \in d : f[1] \in slots}

\* The slots whose text the checks of a slot read: a question is compared with the html above
\* it and with every FAQ, a FAQ with the html above and its title with the whole unit, and
\* the first html, which has the findings of a framework, is read with the other html.
Reads(i) ==
  CASE Kinds[i] = "problem" -> {j \in Slots : Kinds[j] = "la_faq" \/ (Kinds[j] = "html" /\ j < i)}
    [] Kinds[i] = "la_faq" -> Slots \ {i}
    [] OTHER -> {j \in Slots \ {i} : Kinds[j] = "html" /\ \A h \in Slots : Kinds[h] = "html" => i <= h}
Heard(kind) == CASE kind = "problem" -> {"leak", "soft"} [] kind = "la_faq" -> {"faq"} [] OTHER -> {"framework"}

\* The findings a draft may gain or lose by what its slots read, where some of the changed
\* slots (`kept`) are of another version than the slots that read them, or they are read by.
Echoes(changed, kept) ==
  UNION {On(i, Heard(Kinds[i])) : i \in {j \in Slots : \E r \in Reads(j) \cap changed : (j \in kept) # (r \in kept)}}

Few(found) == {{}} \cup {{g[k] : k \in 1..MaxEchoes} : g \in [1..MaxEchoes -> found]}
Stirred(d, gains, losses) == {d \cup e : e \in Few(gains)} \cup {d \ e : e \in Few(losses)}
Reread(d, changed, kept) == Stirred(d, Echoes(changed, kept), Echoes(changed, kept))

\* merge_repair: the slots of a repair are rewritten, the others stay as they are.
Rewritten == [slots \in SUBSET Slots |-> {a \in Answers : SlotsOf(a) \subseteq slots \cup {UnitLevel}}]
Repairs(d, changed) ==
  {a \cup h : a \in Rewritten[changed], h \in Reread(d \ At(d, changed), changed, changed)}

\* with_slots_of: the slots a repair made worse get their old version back beside the
\* others of the repair, and every slot is read again with what is now around it.
Mixed(before, after, changed, bad) ==
  Reread(At(before, Slots \ (changed \ bad)) \cup At(after, (changed \ bad) \cup {UnitLevel}),
         changed, changed \ bad)

\* Mutant of Guarded: the mixed draft is not looked at again.
GuardedOnce(before, after, changed, exempt) ==
  LET bad == WorseSlots(before, after, changed, exempt)
  IN IF bad = {} THEN {after} ELSE Mixed(before, after, changed, bad)

\* guard_repair: each slot made worse gets its old version; the repair is dropped when
\* nothing is left of it or the mix of both still makes a slot worse.
Guarded(before, after, changed, exempt) ==
  LET bad == WorseSlots(before, after, changed, exempt)
  IN IF bad = {} THEN {after}
     ELSE {IF changed \subseteq bad \/ WorseSlots(before, m, changed \ bad, exempt) # {} THEN before
           ELSE m : m \in Mixed(before, after, changed, bad)}

\* What a repair of these slots leaves: the provider may give one back as it was, and a
\* question that was cut short keeps its old version (keep_whole_questions).
AfterRepair(slots, exempt) ==
  {unit} \cup UNION {UNION {Guarded(unit, a, c, exempt) : a \in Repairs(unit, c)} :
                        c \in (SUBSET slots) \ {{}}}
-----------------------------------------------------------------------------
Init == /\ pc \in {"write", "fall_back"}  \* fallback_only: no provider call at all
        /\ left = Plenty /\ tries = 0
        /\ unit = {} /\ written = {} /\ fallback = {} /\ review = {}
        /\ again = FALSE /\ failure = FALSE /\ complete = TRUE /\ saved = TRUE
        /\ passes = 0 /\ judge = [status |-> "not_run", blocking |-> 0, of |-> {}]
        /\ aim = {} /\ second = {} /\ handed = {} /\ bills = "known" /\ answer = "none"

\* What becomes of a call (idm_generate): an answer, or one that does not parse; refused
\* before it is sent, for the time or the tokens left, or for an earlier failure; a failure
\* that ends the request, or one that only stops later calls, of a call that was sent or
\* ("busy") was not; or cut by the deadline of the step.
Outcomes == {"answer", "invalid", "refused", "stopped", "busy", "transient", "terminal", "cut"}

\* What the usage tells of a call: nothing where the provider was reached and gave no answer;
\* of an answer a count that may be an estimate, and misses attempts that failed before it.
Told(o) ==
  IF o \in {"transient", "terminal", "cut"} \/ bills = "missing" THEN {"missing"}
  ELSE IF o \in {"answer", "invalid"} THEN {bills, "guessed"} ELSE {bills}

Provider(o) ==
  /\ (o = "stopped") = failure
  /\ ~failure /\ left < Call => o = "refused"
  /\ left' \in IF o \in {"refused", "stopped"} THEN {left} ELSE 0..left
  /\ bills' \in Told(o)

Fails(o) == o \in {"busy", "transient"}
UsageBooked(o) == o \in {"answer", "invalid", "refused", "stopped"}
Booked(o) == failure' = (failure \/ Fails(o)) /\ complete' = (complete /\ UsageBooked(o))

Raise == pc' = "end" /\ answer' = "error"
Go(where) == pc' = where /\ UNCHANGED answer

\* The writer: an answer that does not parse is asked for once more.
Write ==
  /\ pc = "write"
  /\ \E o \in Outcomes :
       /\ Provider(o) /\ Booked(o)
       /\ \/ o = "answer" /\ Go("written")
             /\ \E a \in Answers : unit' = a /\ written' = a
             /\ UNCHANGED tries
          \/ o = "invalid" /\ tries' = tries + 1
             /\ Go(IF tries' < 2 THEN "write" ELSE "fall_back") /\ UNCHANGED <<unit, written>>
          \/ o = "terminal" /\ Raise /\ UNCHANGED <<tries, unit, written>>
          \/ o \notin {"answer", "invalid", "terminal"} /\ Go("fall_back")
             /\ UNCHANGED <<tries, unit, written>>
  /\ UNCHANGED <<fallback, review, again, saved, passes, judging, handed>>
-----------------------------------------------------------------------------
\* The findings of the first repair: not those of a FAQ that is only worded badly, and with
\* a finding of the shared validator only the first one.
Issues ==
  {f \in Idm(unit, {}) \cup Cues(unit, {}) :
     Kinds[f[1]] = "la_faq" => ~(CodesAt(Checks(unit), f[1]) \subseteq Style)} \cup Rules(unit)

\* settle, up to the first repair: nothing to settle, a finding of no slot, a repair that
\* fits the time left, or none.
Settle ==
  /\ pc = "written"
  /\ \/ Go(IF unit = {} THEN "judge"
           ELSE IF UnitLevel \in SlotsOf(Rules(unit)) THEN "fall_back" ELSE "settle")
     \/ Issues # {} /\ UnitLevel \notin SlotsOf(Rules(unit)) /\ left = Step /\ Go("repair")
  /\ again' = FALSE /\ saved' = complete
  /\ UNCHANGED <<draft, provider, tries, written, passes, judging, handed>>

\* repair_with_retry: one more call after a transient failure of this very call, which then
\* no longer stops the calls after it.
Retried(o) == o = "transient" /\ ~again /\ left' = Step
Retry(o) == /\ Retried(o) /\ again' = TRUE /\ failure' = FALSE /\ complete' = FALSE
            /\ UNCHANGED <<pc, answer, unit>>

\* Mutant of RepairFailed: what the busy service did with an earlier attempt is forgotten.
RepairFailedForgetful(o, issues) ==
  /\ failure' = IF {f[2] : f \in issues} \subseteq Soft THEN failure ELSE failure \/ Fails(o)
  /\ complete' = IF {f[2] : f \in issues} \subseteq Soft /\ o = "busy" THEN TRUE
                 ELSE complete /\ UsageBooked(o)

\* repair_failed: a failed repair of soft findings does not stop the later calls, and is as
\* if it never was when nothing of it was sent.
RepairFailed(o, issues) ==
  /\ failure' = IF {f[2] : f \in issues} \subseteq Soft THEN failure ELSE failure \/ Fails(o)
  /\ complete' = IF {f[2] : f \in issues} \subseteq Soft /\ o = "busy" /\ ~again THEN saved
                 ELSE complete /\ UsageBooked(o)

\* A repair of wording notes, or of findings that end as review notes, is dropped when it
\* breaks more than that.
Repaired(r) ==
  LET notes == Rules(unit) = {} /\ Idm(unit, {}) = {}
      noted == Rules(unit) = {} /\ ~notes /\ {f[2] : f \in Idm(unit, {})} \subseteq ReviewOnly
      breaks == Rules(r) # {} \/ (notes /\ ~({f[2] : f \in Idm(r, {})} \subseteq Soft))
  IN IF (notes \/ noted) /\ breaks THEN unit ELSE r

FirstRepair ==
  /\ pc = "repair"
  /\ LET repaired == {Repaired(r) : r \in AfterRepair(SlotsOf(Issues), {})}
     IN \E o \in Outcomes :
       /\ Provider(o)
       /\ \/ o = "answer" /\ Go("second") /\ Booked(o)
             /\ unit' \in repaired /\ again' = FALSE
          \/ Retry(o)
          \/ ~Retried(o) /\ o \notin {"answer", "terminal", "cut"} /\ Go("settle")
             /\ RepairFailed(o, Issues) /\ UNCHANGED <<again, unit>>
          \/ o \in {"terminal", "cut"} /\ (IF o = "cut" THEN Go("fall_back") ELSE Raise)
             /\ Booked(o) /\ UNCHANGED <<again, unit>>
  /\ UNCHANGED <<fallback, review, tries, written, saved, passes, judging, handed>>

\* A leak, a new fact or a contested key is repaired once more, where no rule is broken.
Again == {f \in Idm(unit, {}) : f[2] \in {"fact", "leak"} /\ (Rules(unit) # {} => f[1] # Min(SlotsOf(Rules(unit))))}

SecondRepair ==
  /\ pc = "second"
  /\ \/ ~again /\ Go("settle") /\ UNCHANGED <<provider, unit, again>>
     \/ /\ Again # {} /\ left = Step
        /\ LET repaired == AfterRepair(SlotsOf(Again), {})
           IN \E o \in Outcomes :
                /\ Provider(o)
                /\ \/ o = "answer" /\ Go("settle") /\ Booked(o)
                      /\ unit' \in repaired /\ UNCHANGED again
                   \/ Retry(o)
                   \/ ~Retried(o) /\ o # "answer" /\ Booked(o) /\ UNCHANGED <<again, unit>>
                      /\ CASE o = "terminal" -> Raise
                           [] o = "cut" -> Go("fall_back")
                           [] OTHER -> Go("settle")
  /\ UNCHANGED <<fallback, review, tries, written, saved, passes, judging, handed>>
-----------------------------------------------------------------------------
\* refresh_review_marks: a slot kept for review keeps the codes it still has.
Refreshed(d, slots) == {f \in Rules(d) \cup Checks(d) : f[1] \in slots /\ f[2] # "cue"}

Exempt == fallback \cup SlotsOf(review)
Open == Rules(unit) \cup Idm(unit, Exempt)

\* The slot the next pass settles: that of the first rule broken, or of the first check, where
\* those of a framework and of new facts come last.
Bad ==
  LET slotwise == {f \in Open : f[2] \notin {"framework", "fact"}}
  IN Min(SlotsOf(IF Rules(unit) # {} THEN Rules(unit) ELSE IF slotwise # {} THEN slotwise ELSE Open))

\* What a deterministic step of the slot may take away: the FAQ items Node rejects, those
\* that say nothing new or too much, callouts that become prose, a list that is inserted.
Mends(i) ==
  LET codes == CodesAt(Open, i)
      node == codes \cap NodeCodes
  IN IF Rules(unit) # {}
       THEN IF Kinds[i] # "la_faq" \/ node = {} THEN {}
            ELSE {On(i, {IF "form" \in node THEN "form" ELSE "repeat"})}
       ELSE IF Kinds[i] = "la_faq"
         THEN {On(i, codes \cap {"faq", "value"})} \ {{}}
         ELSE {On(i, {c}) : c \in codes \cap {"callout", "framework"}}

\* What an edit of the server makes is no harm of a repair.
Edits == written' = written \cup (unit' \ unit)

\* A callout or a list that is now prose of the html may be a finding there, which the next
\* pass settles.
Mend(i) ==
  /\ \E m \in Mends(i) :
       LET own == IF Kinds[i] = "html" THEN On(i, {"fact"}) ELSE {}
       IN unit' \in Stirred(unit \ m, Echoes({i}, {i}) \cup own, Echoes({i}, {i}))
  /\ Edits /\ UNCHANGED <<fallback, review>> /\ Go("settle")

KeepForReview(i) == /\ review' = review \cup On(i, CodesAt(Open, i))
                    /\ UNCHANGED <<unit, fallback, written>> /\ Go("settle")

\* fallback_slot: the source text in place of the slot, which may break a rule itself.
FallBackSlot(i) ==
  \E d \in {{}, On(i, {"form"})}, h \in Reread(unit \ At(unit, {i}), {i}, {i}) :
    /\ unit' = h \cup d /\ Edits
    /\ fallback' = fallback \cup {i} /\ review' = {f \in review : f[1] # i} /\ Go("settle")

\* One pass of settle_slots.
SettleSlot ==
  /\ pc = "settle" /\ passes <= 3 * Len(Kinds) /\ Open # {}
  /\ passes' = passes + 1
  /\ IF Bad = UnitLevel \/ Bad \in fallback
       THEN Go("fall_back") /\ UNCHANGED <<draft, written>>
       ELSE \/ Mend(Bad)
            \/ /\ Rules(unit) = {} /\ CodesAt(Open, Bad) \subseteq ReviewFirst
               /\ KeepForReview(Bad)
            \/ /\ Rules(unit) # {} \/ ~(CodesAt(Open, Bad) \subseteq ReviewFirst)
               /\ \/ FallBackSlot(Bad)
                  \/ Rules(unit) = {} /\ KeepForReview(Bad)
                  \/ Rules(unit) # {} /\ Go("fall_back") /\ UNCHANGED <<draft, written>>
  /\ UNCHANGED <<provider, tries, again, saved, judging, handed>>

\* Nothing is left to settle, or no pass.
Settled ==
  /\ pc = "settle"
  /\ \/ /\ passes <= 3 * Len(Kinds) /\ Open = {}
        /\ review' = Refreshed(unit, SlotsOf(review)) /\ Go("judge")
     \/ passes > 3 * Len(Kinds) /\ Go("fall_back") /\ UNCHANGED review
  /\ passes' = 0
  /\ UNCHANGED <<provider, unit, fallback, tries, written, again, saved, judging, handed>>
-----------------------------------------------------------------------------
NotJudged(status) == judge' = [status |-> status, blocking |-> 0, of |-> {}]
Judged(d) == judge' \in [status : {"judged"}, blocking : 0..MaxBlocking, of : {d}]

\* judge_and_repair: the judge's major findings on slots of the provider are repaired when
\* that and a second judgement fit.  No failure of the judge discards the unit.
Judge ==
  /\ pc = "judge"
  /\ \/ /\ JudgeMode = "off" \/ left < Step
        /\ NotJudged(IF JudgeMode = "off" THEN "not_run" ELSE "skipped") /\ Go("explain")
        /\ UNCHANGED <<provider, aim>>
     \/ /\ JudgeMode # "off" /\ left = Step
        /\ \E o \in Outcomes :
             /\ Provider(o) /\ Booked(o)
             /\ \/ /\ o = "answer" /\ Judged(unit)
                   /\ \/ Go("explain") /\ UNCHANGED aim
                      \/ /\ JudgeMode = "repair" /\ left' = Step /\ Go("judge_repair")
                         /\ aim' \in {s \in SUBSET (Slots \ fallback) \ {{}} :
                                     Cardinality(s) <= judge'.blocking}
                \/ o # "answer" /\ Go("explain") /\ UNCHANGED aim
                   /\ NotJudged(IF o \in {"refused", "cut"} THEN "skipped" ELSE "failed")
  /\ again' = FALSE
  /\ UNCHANGED <<draft, tries, written, saved, passes, second, handed>>

\* Mutant of Acceptable: only the slots of the draft are looked at.
AcceptableSlots(r) == {f \in Rules(r) : f[1] # UnitLevel} = {} /\ {f[2] : f \in Idm(r, Exempt)} \subseteq Soft

Acceptable(r) == Rules(r) = {} /\ {f[2] : f \in Idm(r, Exempt)} \subseteq Soft

JudgeRepair ==
  /\ pc = "judge_repair"
  /\ LET repaired == AfterRepair(aim, fallback)
     IN \E o \in Outcomes :
       /\ Provider(o)
       /\ \/ o = "answer" /\ Booked(o) /\ UNCHANGED <<again, judge>>
             /\ \E r \in repaired :
                  \/ Acceptable(r) /\ second' = r /\ Go("rejudge") /\ UNCHANGED aim
                  \/ (~Acceptable(r) \/ r = unit) /\ Go("explain") /\ aim' = {} /\ UNCHANGED second
          \/ Retry(o) /\ UNCHANGED <<judging>>
          \/ ~Retried(o) /\ o # "answer" /\ Booked(o) /\ Go("explain") /\ UNCHANGED <<again, second>>
             /\ aim' = {}
             /\ IF o = "cut" THEN NotJudged("skipped") ELSE UNCHANGED judge
  /\ UNCHANGED <<draft, tries, written, saved, passes, handed>>

\* Mutant of Adopt: what the second judge says is told of the unit the first one read.
AdoptJudgement == UNCHANGED <<unit, review>>

\* The judge's repair takes the place of the draft.
Adopt == /\ unit' = second
         /\ review' = Refreshed(second, SlotsOf(review \cup Idm(second, Exempt)))

\* The repair stays only when the second judge finds less than the first.
Rejudge ==
  /\ pc = "rejudge" /\ Go("explain")
  /\ \/ left < Step /\ UNCHANGED <<provider, unit, review, judge>>
     \/ /\ left = Step
        /\ \E o \in Outcomes :
             /\ Provider(o) /\ Booked(o)
             /\ \/ /\ o = "answer" /\ Judged(second) /\ judge'.blocking < judge.blocking
                   /\ Adopt
                \/ o = "cut" /\ NotJudged("skipped") /\ UNCHANGED <<unit, review>>
                \/ o # "cut" /\ UNCHANGED <<unit, review, judge>>
  /\ aim' = {} /\ second' = {}
  /\ UNCHANGED <<fallback, again, tries, written, saved, passes, handed>>
-----------------------------------------------------------------------------
\* explain_acronyms: full forms put into html of the provider, which the judge does not read
\* again.  keeps_findings asks that the draft breaks no rule and that the edited slot has no
\* new finding; it does not see one of another slot, nor one of a slot kept for review.
Explain ==
  /\ pc = "explain" /\ Go("final") /\ handed' = unit
  /\ \E edited \in SUBSET {i \in Slots \ fallback : Kinds[i] = "html"} :
       LET around == Echoes(edited, edited)
           unseen == UNION {On(i, {"callout", "framework", "fact"}) : i \in edited \cap SlotsOf(review)}
       IN unit' \in Stirred(unit, around \cup unseen, around \cup At(Checks(unit), edited))
  /\ UNCHANGED <<fallback, review, provider, tries, written, again, saved, passes, judging>>

\* run_idm_unit: a unit Node would reject is not handed out.
Final ==
  /\ pc = "final"
  /\ IF {f \in unit : f[2] \in NodeCodes} # {} THEN Go("fall_back") ELSE pc' = "end" /\ answer' = "provider"
  /\ UNCHANGED <<draft, provider, tries, written, again, saved, passes, judging, handed>>

\* _whole_fallback, whose own text may be refused.
FallBack ==
  /\ pc = "fall_back"
  /\ pc' = "end" /\ answer' \in {"whole", "error"}
  /\ UNCHANGED <<draft, provider, tries, written, again, saved, passes, judging, handed>>

Next == \/ Write \/ Settle \/ FirstRepair \/ SecondRepair \/ SettleSlot \/ Settled
        \/ Judge \/ JudgeRepair \/ Rejudge \/ Explain \/ Final \/ FallBack

Spec == Init /\ [][Next]_vars
-----------------------------------------------------------------------------
\* Every variable keeps its type.
TypeOK ==
  /\ pc \in {"write", "written", "repair", "second", "settle", "judge", "judge_repair", "rejudge",
             "explain", "final", "fall_back", "end"}
  /\ left \in 0..2 /\ tries \in Nat /\ bills \in {"known", "guessed", "missing"} /\ passes \in 0..3 * Len(Kinds) + 1
  /\ unit \subseteq Findings /\ written \subseteq Findings
  /\ review \subseteq Findings /\ second \subseteq Findings /\ handed \subseteq Findings
  /\ fallback \subseteq Slots /\ aim \subseteq Slots
  /\ again \in BOOLEAN /\ failure \in BOOLEAN /\ complete \in BOOLEAN /\ saved \in BOOLEAN
  /\ judge \in [status : {"not_run", "skipped", "failed", "judged"},
                blocking : 0..MaxBlocking, of : SUBSET Findings]
  /\ answer \in {"none", "provider", "whole", "error"}

\* What the reply says of the unit: provider_lane, and quality_state.  Reasons for a review
\* that do not come from the draft only make fewer units validated.
ProviderLane == answer = "provider" /\ complete /\ ~failure /\ fallback = {}
Validated == ProviderLane /\ judge.blocking = 0 /\ {f[2] : f \in review} \subseteq Style

\* "Unreachable while settle() applies the same rules": whatever the repairs, the settlement
\* and the judge's repair did, the draft that reaches the last check passes it.
LastCheckPasses == pc = "final" => Rules(unit) = {}

\* "Repairs that left a slot with a review-level finding the writer's answer did not have"
\* are what guard_repair is for: after up to three repairs of any slots, each of which may
\* be read differently beside the slots it changes, no provider slot of the draft that is
\* settled and judged has such a finding that neither the writer's own text had nor an edit
\* of the server made.
RepairsNeverHurt ==
  answer = "provider" =>
    \A f \in Checks(handed) : f[1] \notin fallback /\ f[2] \notin Style => f \in written

\* "Node admits the validated lane only for provider-accounted content": a unit is called
\* validated only when of every call that reached the provider something is counted, and
\* nothing but wording was left to find in any slot when the judge was done with it.
ValidatedIsEarned ==
  Validated => /\ bills # "missing"
               /\ {f[2] : f \in handed} \subseteq Style

\* The judgement in the reply is one of the unit in the reply, as it was before the server
\* explained its acronyms.
JudgementIsOfTheUnit == answer = "provider" /\ judge.status = "judged" => judge.of = handed

\* What the code does not keep.  Usage that is partly an estimate is called the provider's,
\* and an explained acronym may give another slot a finding that makes no validated unit one
\* to review.
ValidatedUsageIsReported == Validated => bills = "known"
ValidatedUnitIsClean == Validated => {f[2] : f \in unit} \subseteq Style

\* "Each pass settles one step of one slot ..., so the bound never limits" (settle_slots).
BoundNeverLimits == pc = "settle" => passes <= 3 * Len(Kinds)
=============================================================================
