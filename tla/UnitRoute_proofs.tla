--------------------------- MODULE UnitRoute_proofs ---------------------------
(***************************************************************************)
(* Theorems about the two writers of a unit: the staged lane (StagedUnit), *)
(* for any number of components, attempts, repairs and findings, and the   *)
(* storyboard lane (UnitWriter), for any components, any findings of an    *)
(* answer, any judgement and any time.                                     *)
(***************************************************************************)
EXTENDS UnitRoute, WellFoundedInduction, TLAPS

(***************************************************************************)
(* I. The staged lane.  The invariant says at each stage which unit has    *)
(* been checked, what the reviews left standing and where a lost bill      *)
(* shows.                                                                  *)
(***************************************************************************)
\* From here on the text is a unit the server's checks have passed.
Checked == {"written", "review", "rewrite", "rereview", "finish"}

\* The unit at hand has been checked, the rewritten one before it is reviewed.
ChecksHold ==
  /\ stage \in Checked => Sound(text)
  /\ stage = "rereview" => Sound(rewritten)
  /\ stage # "done" => ~Replied
  /\ AnsweredUnitIsSound

\* Until the lane concludes nothing was adopted, and it concludes that a unit is validated
\* only with clean reviews.
ReviewsHold ==
  /\ stage \notin {"finish", "whole", "done"} => verdict = "none"
  /\ stage \notin {"finish", "done"} => ~adopted
  /\ verdict = "validated" => \A q \in Places : Standing(q) = {NoFindings}
  /\ ValidatedWasReviewed

\* Every attempt of the writer's calls is known, and the answer of every call of the review.
Accounted == billed.writer = "all" /\ billed.review # "not all"

\* Where the loss of a bill shows: in a usage flag, in components of the server, or in the
\* way to them.
BillsHold ==
  /\ stage \in {"arrived", "author"} => Accounted
  /\ stage = "recover" => (known => Accounted)
  /\ stage \in {"recover", "soften"} => RepairTargets(text) # {}
  /\ stage \in Checked => (softened = {} /\ known /\ sknown => Accounted)
  /\ ask.only => stage \in {"whole", "done"} /\ Accounted
  /\ ValidatedUsageIsTruthful

StagedInv == STypeOK /\ ChecksHold /\ ReviewsHold /\ BillsHold
-----------------------------------------------------------------------------
\* A review without serious findings says nothing of any place.
LEMMA NothingSerious ==
  ASSUME NEW r \in Reviews, NEW q \in Places, q \notin Serious(r)
  PROVE  r[q] = NoFindings
BY DEF Serious

LEMMA Places0 == Parts \subseteq Places /\ Whole \in Places /\ Whole \notin Parts
BY StagedAssumption DEF Parts, Places, Whole

LEMMA Silence == Silent \in Reviews /\ Spotless \in Units /\ Sound(Spotless)
BY StagedAssumption DEF Silent, Reviews, NoFindings, Spotless, Units, Sound

LEMMA StagedInitially == SInit => StagedInv
<1> SUFFICES ASSUME SInit PROVE StagedInv OBVIOUS
<1> USE DEF SInit
<1>1. STypeOK
  <2>1. billed \in Bills BY DEF Bills
  <2> QED BY <2>1, Silence DEF STypeOK, NoReply
<1>2. ChecksHold BY DEF ChecksHold, Checked, AnsweredUnitIsSound, Replied, NoReply
<1>3. ReviewsHold BY DEF ReviewsHold, ValidatedWasReviewed, Replied, NoReply
<1>4. BillsHold BY DEF BillsHold, Accounted, Checked, ValidatedUsageIsTruthful, Replied, NoReply
<1> QED BY <1>1, <1>2, <1>3, <1>4 DEF StagedInv

\* What a call leaves known of the bills.
LEMMA SentTyped ==
  ASSUME STypeOK, NEW o \in Calls, NEW l \in {"writer", "review"}, Sent(o, l)
  PROVE  attempts' \in Nat /\ billed' \in Bills
<1>1. attempts' \in Nat
  <2>1. o.tries \in 0..CallAttempts BY DEF Calls
  <2>2. o.tries \in Nat BY <2>1, StagedAssumption
  <2>3. attempts \in Nat /\ attempts' = attempts + o.tries BY DEF Sent, STypeOK
  <2> QED BY <2>2, <2>3
<1>2. Together(billed[l], Bill(o)) \in {"all", "answers", "not all"} BY DEF Together
<1>3. billed \in Bills BY DEF STypeOK
<1> QED BY <1>1, <1>2, <1>3 DEF Sent, Bills

LEMMA WriterBill ==
  ASSUME STypeOK, NEW o \in Calls, WriterCall(o), o.what \in Answered, known', known => Accounted
  PROVE  Accounted'
<1>1. known /\ o.usage = "known" /\ Sent(o, "writer") BY DEF WriterCall, STypeOK
<1>2. Bill(o) = "all" BY <1>1 DEF Bill, Answered
<1>3. Together(billed.writer, Bill(o)) = "all" BY <1>1, <1>2 DEF Together, Accounted
<1> QED BY <1>1, <1>3 DEF Sent, Accounted, STypeOK, Bills

LEMMA ReviewBill ==
  ASSUME STypeOK, NEW o \in Calls, Sent(o, "review"), Capture(o)
  PROVE  (sknown' => sknown) /\ (sknown' /\ Accounted => Accounted')
<1>1. sknown' => sknown BY DEF Capture
<1>2. ASSUME sknown', Accounted PROVE Accounted'
  <2>1. o.tries > 0 => o.usage \in {"known", "retried"} BY <1>2 DEF Capture
  <2>2. Bill(o) # "not all"
    <3>1. CASE o.tries > 0 BY <2>1, <3>1 DEF Bill, Calls, Answered
    <3>2. CASE ~(o.tries > 0) BY <3>2 DEF Bill, Calls, Answered
    <3> QED BY <3>1, <3>2
  <2>3. Together(billed.review, Bill(o)) # "not all" BY <1>2, <2>2 DEF Together, Accounted
  <2> QED BY <1>2, <2>3 DEF Sent, Accounted, STypeOK, Bills
<1> QED BY <1>1, <1>2

\* Every variable keeps its type.
LEMMA StagedTypeStep == STypeOK /\ [SNext]_svars => STypeOK'
<1> SUFFICES ASSUME STypeOK, [SNext]_svars PROVE STypeOK' OBVIOUS
<1> USE StagedAssumption DEF STypeOK
<1>1. CASE Receive
  <2>1. ask' \in [only : BOOLEAN, doubtful : BOOLEAN, mode : {"off", "observe", "repair"}]
    BY <1>1 DEF Receive
  <2>2. locked' \in Units BY <1>1 DEF Receive, Units
  <2>3. stage' \in {"whole", "author"} BY <1>1 DEF Receive
  <2> QED BY <1>1, <2>1, <2>2, <2>3 DEF Receive, writing, reviewing
<1>2. CASE Author
  <2> PICK o \in Calls : WriterCall(o) BY <1>2 DEF Author
  <2>1. /\ attempts' \in Nat /\ known' \in BOOLEAN
        /\ billed' \in Bills
    BY SentTyped DEF WriterCall
  <2>2. text' \in Units /\ (reply' = reply \/ reply' = ErrorReply) BY <1>2 DEF Author
  <2>4. reply' \in [origin : {"none", "error", "provider_validated", "structured_fallback"},
                   quality : {"none", "validated", "review_required"}, complete : BOOLEAN]
    <3>1. CASE reply' = reply BY <3>1
    <3>2. CASE reply' = ErrorReply BY <3>2 DEF ErrorReply
    <3> QED BY <2>2, <3>1, <3>2
  <2>3. stage' \in {"written", "recover", "whole", "done"} BY <1>2 DEF Author
  <2> QED BY <1>2, <2>1, <2>2, <2>3, <2>4 DEF Author, request, reviewing
<1>3. CASE Recover
  <2> PICK o \in Calls : WriterCall(o) BY <1>3 DEF Recover
  <2>1. /\ attempts' \in Nat /\ known' \in BOOLEAN
        /\ billed' \in Bills
    BY SentTyped DEF WriterCall
  <2>2. text' \in Units /\ stage' \in {"written", "soften", "whole"}
    BY <1>3 DEF Recover, Edited
  <2> QED BY <1>3, <2>1, <2>2 DEF Recover, request, reviewing
<1>4. CASE Soften
  BY <1>4 DEF Soften, Merged, RepairTargets, request, reviewing
<1>5. CASE HandOver
  BY <1>5 DEF HandOver, request, writing, reviewing
<1>6. CASE Review
  <2> PICK o \in Calls : SemanticCall(o) BY <1>6 DEF Review
  <2>1. /\ attempts' \in Nat /\ sknown' \in BOOLEAN
        /\ billed' \in Bills
    BY SentTyped DEF SemanticCall, Capture
  <2>2. first' \in Reviews BY <1>6 DEF Review
  <2>3. targets' \subseteq Parts
    <3>1. Serious(first') \ {Whole} \subseteq Parts BY Places0 DEF Serious, Parts, Places, Whole
    <3> QED BY <1>6, <3>1 DEF Review
  <2>4. stage' \in {"finish", "rewrite"} /\ verdict' \in {"none", "validated", "review_required"}
    BY <1>6 DEF Review, Conclude
  <2> QED BY <1>6, <2>1, <2>2, <2>3, <2>4 DEF Review, request, writing
<1>7. CASE Rewrite
  <2> PICK o \in Calls : SemanticCall(o) BY <1>7 DEF Rewrite
  <2>1. /\ attempts' \in Nat /\ sknown' \in BOOLEAN
        /\ billed' \in Bills
    BY SentTyped DEF SemanticCall, Capture
  <2>2. rewritten' \in Units /\ stage' \in {"finish", "rereview"}
        /\ verdict' \in {"none", "validated", "review_required"}
    BY <1>7 DEF Rewrite, Edited, Conclude
  <2> QED BY <1>7, <2>1, <2>2 DEF Rewrite, request, writing
<1>8. CASE Rereview
  <2> PICK o \in Calls : SemanticCall(o) BY <1>8 DEF Rereview
  <2>1. /\ attempts' \in Nat /\ sknown' \in BOOLEAN
        /\ billed' \in Bills
    BY SentTyped DEF SemanticCall, Capture
  <2>2. scoped' \in Reviews /\ text' \in Units /\ adopted' \in BOOLEAN /\ stage' = "finish"
        /\ verdict' \in {"validated", "review_required"}
    BY <1>8 DEF Rereview, Conclude
  <2> QED BY <1>8, <2>1, <2>2 DEF Rereview, request
<1>9. CASE Finish
  BY <1>9 DEF Finish, request, writing, reviewing
<1>10. CASE WholeFallback
  BY <1>10 DEF WholeFallback, request, reviewing, ErrorReply
<1>11. CASE UNCHANGED svars
  BY <1>11 DEF svars
<1> QED BY <1>1, <1>2, <1>3, <1>4, <1>5, <1>6, <1>7, <1>8, <1>9, <1>10, <1>11 DEF SNext

\* Every variable of the staged lane keeps its type, for any number of components.
THEOREM StagedTypeCorrect == SSpec => []STypeOK
<1>1. SInit => STypeOK BY StagedInitially DEF StagedInv
<1> QED BY <1>1, StagedTypeStep, PTL DEF SSpec
-----------------------------------------------------------------------------
\* Until its last step a request has no answer.
LEMMA Quiet ==
  ASSUME STypeOK, stage # "done" => ~Replied,
         Receive \/ Author \/ Recover \/ Soften \/ HandOver \/ Review \/ Rewrite \/ Rereview
  PROVE  ~Replied'
<1>1. stage # "done" /\ (reply' = reply \/ reply' = ErrorReply)
  BY DEF Receive, Author, Recover, Soften, HandOver, Review, Rewrite, Rereview
<1> QED BY <1>1 DEF Replied, ErrorReply

LEMMA ChecksStep == StagedInv /\ [SNext]_svars => ChecksHold'
<1> SUFFICES ASSUME StagedInv, [SNext]_svars PROVE ChecksHold' OBVIOUS
<1> USE DEF StagedInv, ChecksHold, Checked, AnsweredUnitIsSound
<1>1. CASE Receive BY <1>1, Quiet DEF Receive
<1>2. CASE Author
  <2>1. stage' \in {"written", "recover", "whole", "done"} /\ (stage' = "written" => Sound(text'))
    BY <1>2 DEF Author
  <2> QED BY <1>2, <2>1, Quiet DEF Sound
<1>3. CASE Recover
  <2>1. stage' \in {"written", "soften", "whole"} /\ (stage' = "written" => Sound(text'))
    BY <1>3 DEF Recover
  <2> QED BY <1>3, <2>1, Quiet DEF Sound
<1>4. CASE Soften
  <2>1. stage' \in {"written", "whole"} /\ (stage' = "written" => Sound(text'))
    BY <1>4 DEF Soften
  <2> QED BY <1>4, <2>1, Quiet DEF Sound
<1>5. CASE HandOver
  <2>1. stage' \in {"whole", "finish", "review"} /\ text' = text /\ Sound(text)
    BY <1>5 DEF HandOver, writing
  <2> QED BY <1>5, <2>1, Quiet DEF Sound
<1>6. CASE Review
  <2>1. stage' \in {"finish", "rewrite"} /\ text' = text /\ Sound(text)
    BY <1>6 DEF Review, Conclude, writing
  <2> QED BY <1>6, <2>1, Quiet DEF Sound
<1>7. CASE Rewrite
  <2>1. /\ stage' \in {"finish", "rereview"} /\ text' = text /\ Sound(text)
        /\ stage' = "rereview" => Sound(rewritten')
    BY <1>7 DEF Rewrite, Conclude, writing, Accepted
  <2> QED BY <1>7, <2>1, Quiet DEF Sound
<1>8. CASE Rereview
  <2>1. stage' = "finish" /\ text' \in {text, rewritten} /\ Sound(text) /\ Sound(rewritten)
    BY <1>8 DEF Rereview, Conclude
  <2> QED BY <1>8, <2>1, Quiet DEF Sound
<1>9. CASE Finish BY <1>9 DEF Finish, writing, Sound
<1>10. CASE WholeFallback
  <2>1. stage' = "done" /\ text' = locked /\ (Sound(locked) \/ reply' = ErrorReply)
    BY <1>10 DEF WholeFallback
  <2> QED BY <2>1 DEF ErrorReply, Replied, Sound
<1>11. CASE UNCHANGED svars BY <1>11 DEF svars, Sound, Replied
<1> QED BY <1>1, <1>2, <1>3, <1>4, <1>5, <1>6, <1>7, <1>8, <1>9, <1>10, <1>11 DEF SNext

LEMMA ReviewsStep == StagedInv /\ [SNext]_svars => ReviewsHold'
<1> SUFFICES ASSUME StagedInv, [SNext]_svars PROVE ReviewsHold' OBVIOUS
<1> USE DEF StagedInv, ChecksHold, ReviewsHold, ValidatedWasReviewed
<1>1. CASE Receive \/ Author \/ Recover \/ Soften \/ HandOver
  <2>1. verdict' = "none" /\ ~adopted'
    BY <1>1 DEF Receive, Author, Recover, Soften, HandOver, reviewing
  <2> QED BY <1>1, <2>1, Quiet
<1>2. CASE Review
  <2>1. verdict' = "validated" => first' \in Reviews /\ Serious(first') = {}
    BY <1>2 DEF Review, Conclude
  <2>2. ~adopted' /\ stage' \in {"finish", "rewrite"} /\ (stage' = "rewrite" => verdict' = "none")
    BY <1>2 DEF Review, Conclude
  <2>3. verdict' = "validated" => \A q \in Places : Standing(q)' = {NoFindings}
    BY <2>1, <2>2, NothingSerious DEF Standing
  <2> QED BY <1>2, <2>2, <2>3, Quiet
<1>3. CASE Rewrite
  <2>1. /\ ~adopted' /\ stage' \in {"finish", "rereview"} /\ verdict' \in {"none", "review_required"}
        /\ stage' = "rereview" => verdict' = "none"
    BY <1>3 DEF Rewrite, Conclude
  <2> QED BY <1>3, <2>1, Quiet
<1>4. CASE Rereview
  <2>1. first' = first /\ targets' = targets /\ stage' = "finish"
    BY <1>4 DEF Rereview, Conclude
  <2>2. verdict' = "validated" =>
          adopted' = TRUE /\ scoped' \in Reviews /\ Cleared(first, scoped', targets)
    BY <1>4 DEF Rereview, Conclude
  <2>3. ASSUME verdict' = "validated", NEW q \in Places PROVE Standing(q)' = {NoFindings}
    <3>1. scoped'[q] = NoFindings BY <2>2, <2>3, NothingSerious DEF Cleared
    <3>2. q \in targets \/ first[q] = NoFindings BY <2>2, <2>3, NothingSerious DEF Cleared, STypeOK
    <3> QED BY <2>1, <2>2, <2>3, <3>1, <3>2 DEF Standing
  <2> QED BY <1>4, <2>1, <2>3, Quiet
<1>5. CASE Finish
  <2>1. /\ stage' = "done" /\ verdict' = verdict /\ ask' = ask
        /\ \A q : Standing(q)' = Standing(q)
    BY <1>5 DEF Finish, reviewing, request, Standing
  <2>2. reply'.quality = "validated" /\ ask.mode = "repair" => verdict = "validated"
    BY <1>5 DEF Finish
  <2> QED BY <2>1, <2>2
<1>6. CASE WholeFallback
  <2>1. stage' = "done" /\ verdict' = verdict /\ \A q : Standing(q)' = Standing(q)
    BY <1>6 DEF WholeFallback, reviewing, Standing
  <2>2. reply'.quality # "validated" BY <1>6 DEF WholeFallback, ErrorReply
  <2> QED BY <2>1, <2>2
<1>7. CASE UNCHANGED svars BY <1>7 DEF svars, Replied, Standing
<1> QED BY <1>1, <1>2, <1>3, <1>4, <1>5, <1>6, <1>7 DEF SNext

LEMMA BillsStep == StagedInv /\ [SNext]_svars => BillsHold'
<1> SUFFICES ASSUME StagedInv, [SNext]_svars PROVE BillsHold' OBVIOUS
<1> USE DEF StagedInv, ChecksHold, BillsHold, Checked, ValidatedUsageIsTruthful
<1>1. CASE Receive
  <2>1. Accounted' /\ stage' \in {"author", "whole"} /\ (ask'.only => stage' = "whole")
    BY <1>1 DEF Receive, Accounted
  <2> QED BY <1>1, <2>1, Quiet
<1>2. CASE Author
  <2> PICK o \in Calls : WriterCall(o) /\ (o.what # "answer" => stage' \in {"whole", "done"})
    BY <1>2 DEF Author
  <2>1. ~ask.only /\ ask' = ask BY <1>2 DEF Author, request
  <2>2. stage' \in {"recover", "written"} => (known' => Accounted')
    <3> SUFFICES ASSUME stage' \in {"recover", "written"}, known' PROVE Accounted' OBVIOUS
    <3>1. o.what \in Answered /\ Accounted BY <1>2 DEF Author, Answered
    <3> QED BY <3>1, WriterBill
  <2>3. stage' = "recover" => RepairTargets(text') # {} BY <1>2 DEF Author
  <2>4. stage' \in {"written", "recover", "whole", "done"} BY <1>2 DEF Author
  <2> QED BY <1>2, <2>1, <2>2, <2>3, <2>4, Quiet DEF RepairTargets
<1>3. CASE Recover
  <2> PICK o \in Calls : WriterCall(o) /\ (stage' = "written" => o.what = "answer")
    BY <1>3 DEF Recover
  <2>1. ~ask.only /\ ask' = ask BY <1>3 DEF Recover, request
  <2>2. stage' = "written" => (known' => Accounted')
    <3> SUFFICES ASSUME stage' = "written", known' PROVE Accounted' OBVIOUS
    <3>1. o.what \in Answered /\ (known => Accounted) BY <1>3 DEF Recover, Answered
    <3> QED BY <3>1, WriterBill
  <2>3. stage' = "soften" => RepairTargets(text') # {} BY <1>3 DEF Recover, RepairTargets
  <2>4. stage' \in {"written", "soften", "whole"} BY <1>3 DEF Recover
  <2> QED BY <1>3, <2>1, <2>2, <2>3, <2>4, Quiet DEF RepairTargets
<1>4. CASE Soften
  <2>1. ~ask.only /\ ask' = ask /\ stage' \in {"written", "whole"} BY <1>4 DEF Soften, request
  <2>2. stage' = "written" => softened' # {} BY <1>4 DEF Soften
  <2> QED BY <1>4, <2>1, <2>2, Quiet DEF RepairTargets
<1>5. CASE HandOver
  <2>1. /\ ~ask.only /\ ask' = ask /\ stage' \in {"whole", "finish", "review"}
        /\ softened' = softened /\ known' = known /\ sknown' = sknown /\ (Accounted' <=> Accounted)
    BY <1>5 DEF Accounted, HandOver, request, writing, reviewing
  <2>2. softened = {} /\ known /\ sknown => Accounted BY <1>5 DEF HandOver
  <2>3. softened' = {} /\ known' /\ sknown' => Accounted' BY <2>1, <2>2
  <2> QED BY <1>5, <2>1, <2>3, Quiet DEF RepairTargets
<1>6. CASE Review \/ Rewrite \/ Rereview
  <2> PICK o \in Calls : SemanticCall(o) BY <1>6 DEF Review, Rewrite, Rereview
  <2>1. (sknown' => sknown) /\ (sknown' /\ Accounted => Accounted')
    BY ReviewBill DEF SemanticCall
  <2>2. /\ ~ask.only /\ ask' = ask /\ stage' \in {"finish", "rewrite", "rereview"}
        /\ softened' = softened /\ known' = known
    BY <1>6 DEF Review, Rewrite, Rereview, Conclude, request, writing
  <2>3. softened = {} /\ known /\ sknown => Accounted BY <1>6 DEF Review, Rewrite, Rereview
  <2>4. softened' = {} /\ known' /\ sknown' => Accounted' BY <2>1, <2>2, <2>3
  <2> QED BY <1>6, <2>2, <2>4, Quiet DEF RepairTargets
<1>7. CASE Finish
  <2>1. /\ ~ask.only /\ ask' = ask /\ stage' = "done" /\ softened' = softened
        /\ (Accounted' <=> Accounted) /\ (reply'.complete => known /\ sknown)
    BY <1>7 DEF Accounted, Finish, request, writing
  <2>2. softened = {} /\ known /\ sknown => Accounted BY <1>7 DEF Finish
  <2>3. reply'.complete /\ (softened' = {} \/ ask'.only) => Accounted' BY <2>1, <2>2
  <2> QED BY <2>1, <2>3 DEF RepairTargets, Accounted
<1>8. CASE WholeFallback
  <2>1. stage' = "done" /\ ask' = ask /\ (Accounted' <=> Accounted) /\ (reply'.complete => ask.only)
    BY <1>8 DEF Accounted, WholeFallback, request, ErrorReply
  <2>2. ask.only => Accounted OBVIOUS
  <2>3. reply'.complete => Accounted' BY <2>1, <2>2
  <2> QED BY <2>1, <2>2, <2>3 DEF RepairTargets, Accounted
<1>9. CASE UNCHANGED svars BY <1>9 DEF svars, RepairTargets, Replied, Accounted
<1> QED BY <1>1, <1>2, <1>3, <1>4, <1>5, <1>6, <1>7, <1>8, <1>9 DEF SNext

LEMMA StagedInvariant == SSpec => []StagedInv
<1>1. StagedInv /\ [SNext]_svars => StagedInv'
  BY StagedTypeStep, ChecksStep, ReviewsStep, BillsStep DEF StagedInv
<1> QED BY <1>1, StagedInitially, PTL DEF SSpec
-----------------------------------------------------------------------------
\* Whoever wrote the components of a unit last, it is answered only if it passes the
\* server's checks as it is answered.
THEOREM AnswersAreChecked == SSpec => []AnsweredUnitIsSound
<1>1. StagedInv => AnsweredUnitIsSound BY DEF StagedInv, ChecksHold
<1> QED BY <1>1, StagedInvariant, PTL

\* In repair mode a unit is validated only when neither review left a serious finding
\* against any text in it, for any bound on the components of one repair.
THEOREM ReviewIsComplete == SSpec => []ValidatedWasReviewed
<1>1. StagedInv => ValidatedWasReviewed BY DEF StagedInv, ReviewsHold
<1> QED BY <1>1, StagedInvariant, PTL

\* A unit without text of the server calls its usage complete only when every attempt of the
\* writer and of its repair is billed as known, and every call of both reviews that was sent
\* came back with the provider's own count.
THEOREM UsageIsAccounted == SSpec => []ValidatedUsageIsTruthful
<1>1. StagedInv => ValidatedUsageIsTruthful BY DEF StagedInv, BillsHold
<1> QED BY <1>1, StagedInvariant, PTL

(***************************************************************************)
(* II. The storyboard lane.                                                *)
(***************************************************************************)
\* The draft has passed the last validators, or was handed out.
Late == pc \in {"judge", "judge_repair", "rejudge", "explain", "final"} \/ answer = "provider"

\* Its acronyms were explained; before that it is the unit at hand that is settled and judged.
Explained == pc = "final" \/ answer = "provider"
Subject == IF Explained THEN handed ELSE unit

\* What the writer's answer and the server's own edits did not have: no finding of a draft
\* that is more than wording.
Harmless(d) == \A f \in Checks(d) : f[1] \notin fallback /\ f[2] \notin Style => f \in written

HarmHold == /\ pc \notin {"fall_back", "end"} \/ answer = "provider" => Harmless(Subject)
            /\ pc = "rejudge" => Harmless(second)

\* The draft breaks no rule, and every check it fails in a slot of the provider is noted.
RulesHold ==
  /\ Late => Rules(unit) = {} /\ Rules(Subject) = {}
  /\ pc = "rejudge" => Rules(second) = {}
  /\ pc = "repair" => UnitLevel \notin SlotsOf(Rules(unit))
NotesHold ==
  Late => \A f \in Checks(Subject) : f[2] # "cue" /\ f[1] \notin fallback => f \in review

\* Complete usage, as it is and as it may be put back, misses no call.
UsageHold ==
  /\ complete => bills # "missing"
  /\ pc = "repair" /\ ~again /\ saved => bills # "missing"

JudgementHold ==
  /\ pc \in {"judge_repair", "rejudge", "explain", "final"} \/ answer = "provider" =>
       (judge.status = "judged" => judge.of = Subject)
  /\ answer # "none" <=> pc = "end"

WriterInv == TypeOK /\ HarmHold /\ RulesHold /\ NotesHold /\ UsageHold /\ JudgementHold
-----------------------------------------------------------------------------
(* The least of some slots is one of them. *)
Smaller == {p \in Nat \X Nat : p[1] < p[2]}

LEMMA LeastOf ==
  ASSUME NEW S, S \subseteq Nat, S # {}
  PROVE  Min(S) \in S
<1>1. IsWellFoundedOn(Smaller, Nat)
  <2>1. OpToRel(<, Nat) = Smaller
    BY DEF OpToRel, Smaller
  <2>2. QED BY <2>1, NatLessThanWellFounded
<1>2. PICK n \in S : \A m \in S : <<m, n>> \notin Smaller
  BY <1>1, WFMin, Zenon
<1>3. \A m \in S : n <= m
  <2> TAKE m \in S
  <2>1. <<m, n>>[1] = m /\ <<m, n>>[2] = n /\ <<m, n>> \in Nat \X Nat
    OBVIOUS
  <2>2. ~(m < n)
    BY <1>2, <2>1 DEF Smaller
  <2>3. QED BY <2>2
<1>4. QED BY <1>3 DEF Min

(* A finding is of a slot and one of the codes of its kind, or is of the *)
(* unit and a rule of the shared validator.                              *)
LEMMA SlotsAre == Slots \subseteq Nat \ {0} /\ \A i \in Slots : Kinds[i] \in {"html", "problem", "la_faq"}
  BY KindsAssumption DEF Slots

LEMMA FindingsAre ==
  /\ \A f \in Findings : /\ f = <<f[1], f[2]>> /\ f[1] \in Slots \cup {UnitLevel}
                         /\ f[1] = UnitLevel => f[2] = "shared"
  /\ \A i \in Slots : \A c \in CodesOf(Kinds[i]) : <<i, c>> \in Findings
<1>1. ASSUME NEW f \in Findings
      PROVE  /\ f = <<f[1], f[2]>> /\ f[1] \in Slots \cup {UnitLevel}
             /\ f[1] = UnitLevel => f[2] = "shared"
  <2>1. CASE f = <<UnitLevel, "shared">>
    BY <2>1
  <2>2. CASE f # <<UnitLevel, "shared">>
    <3>1. PICK i \in Slots : f \in {i} \X CodesOf(Kinds[i])
      BY <2>2 DEF Findings
    <3>2. QED BY <3>1, SlotsAre DEF UnitLevel
  <2>3. QED BY <2>1, <2>2
<1>2. ASSUME NEW i \in Slots, NEW c \in CodesOf(Kinds[i]) PROVE <<i, c>> \in Findings
  <2>1. <<i, c>> \in {i} \X CodesOf(Kinds[i])
    OBVIOUS
  <2>2. QED BY <2>1 DEF Findings
<1>3. QED BY <1>1, <1>2

LEMMA AnswersAre == \A a \in Answers : a \subseteq Findings
  BY BoundsAssumption DEF Answers

LEMMA RulesAre == \A d : Rules(d) \subseteq d /\ Checks(d) \subseteq d
  BY DEF Rules, Checks

LEMMA EchoesAre ==
  ASSUME NEW changed, NEW kept
  PROVE  /\ Echoes(changed, kept) \subseteq Findings
         /\ \A f \in Echoes(changed, kept) : f[2] \notin NodeCodes \cup {"shared"}
<1> SUFFICES ASSUME NEW f \in Echoes(changed, kept)
             PROVE  f \in Findings /\ f[2] \notin NodeCodes \cup {"shared"}
  OBVIOUS
<1>1. PICK i \in Slots : f \in On(i, Heard(Kinds[i]))
  BY DEF Echoes
<1>2. PICK c \in Heard(Kinds[i]) : f = <<i, c>>
  BY <1>1 DEF On
<1>3. c \in CodesOf(Kinds[i]) /\ c \notin NodeCodes \cup {"shared"}
  BY <1>2, SlotsAre DEF Heard, CodesOf, NodeCodes
<1>4. QED BY <1>2, <1>3, FindingsAre

\* An edit gives and takes only what it may.
LEMMA StirredAre ==
  ASSUME NEW d, NEW gains, NEW losses, NEW x \in Stirred(d, gains, losses)
  PROVE  x \subseteq d \cup gains
<1>1. \A e \in Few(gains) : e \subseteq gains
  BY BoundsAssumption DEF Few
<1>2. CASE \E e \in Few(gains) : x = d \cup e
  BY <1>1, <1>2
<1>3. CASE \E e \in Few(losses) : x = d \ e
  BY <1>3
<1>4. QED BY <1>2, <1>3 DEF Stirred

LEMMA RereadAre ==
  ASSUME NEW d, d \subseteq Findings, NEW changed, NEW kept, NEW x \in Reread(d, changed, kept)
  PROVE  x \subseteq Findings
<1>1. x \subseteq d \cup Echoes(changed, kept)
  BY StirredAre DEF Reread
<1>2. QED BY <1>1, EchoesAre

(* When no slot is worse, what is new in a slot that counts is wording. *)
LEMMA NotWorse ==
  ASSUME NEW before, before \subseteq Findings, NEW after, after \subseteq Findings,
         NEW changed, NEW exempt, WorseSlots(before, after, changed, exempt) = {}
  PROVE  \A f \in Checks(after) : f[1] \notin exempt /\ f[2] \notin Style => f \in before
<1> SUFFICES ASSUME NEW f \in Checks(after), f[1] \notin exempt, f[2] \notin Style, f \notin before
             PROVE  FALSE
  OBVIOUS
<1> DEFINE ruled == IF "shared" \in {g[2] : g \in Rules(before)} THEN {} ELSE changed
           counted(d) == {g \in Checks(d) \cup {r \in Rules(d) : r[1] \in ruled} :
                            g[1] \notin exempt \cup {UnitLevel}
                              /\ g[2] \notin IF g[1] \in changed THEN Soft ELSE Style}
           old == counted(before)
           new == counted(after)
<1>1. WorseSlots(before, after, changed, exempt)
        = {i \in SlotsOf(new \ old) : Worse(CodesAt(old, i), CodesAt(new, i))}
  BY DEF WorseSlots
<1>2. f \in Findings /\ f[1] # UnitLevel
  BY FindingsAre DEF Checks
<1>3. f \in new
  BY <1>2 DEF Style, Soft
<1>4. old \subseteq before
  BY RulesAre
<1> HIDE DEF new, old
<1>5. f[1] \in SlotsOf(new \ old)
  BY <1>3, <1>4 DEF SlotsOf
<1>6. f[2] \in CodesAt(new, f[1])
  BY <1>3 DEF CodesAt
<1>7. f[2] \notin CodesAt(old, f[1])
  <2>1. SUFFICES ASSUME NEW g \in old, g[1] = f[1], g[2] = f[2] PROVE FALSE
    BY DEF CodesAt
  <2>2. g \in Findings
    BY <1>4
  <2>3. g = f
    BY <1>2, <2>1, <2>2, FindingsAre
  <2>4. QED BY <1>4, <2>3
<1>8. Worse(CodesAt(old, f[1]), CodesAt(new, f[1]))
  BY <1>6, <1>7 DEF Worse
<1>9. QED BY <1>1, <1>5, <1>8

LEMMA RepairsShape ==
  ASSUME NEW d, NEW t, NEW x \in Repairs(d, t)
  PROVE  \E a \in Rewritten[t] : \E h \in Reread(d \ At(d, t), t, t) : x = a \cup h
<1> DEFINE A == Rewritten[t]
           H == Reread(d \ At(d, t), t, t)
<1>1. x \in {a \cup h : a \in A, h \in H}
  BY Z3 DEF Repairs
<1> HIDE DEF A, H
<1>2. \E a \in A : \E h \in H : x = a \cup h
  BY <1>1
<1>3. QED BY <1>2 DEF A, H

LEMMA RepairsTyped ==
  ASSUME NEW d, d \subseteq Findings, NEW t \in SUBSET Slots, NEW x \in Repairs(d, t)
  PROVE  x \subseteq Findings
<1>1. PICK a \in Rewritten[t] : \E h \in Reread(d \ At(d, t), t, t) : x = a \cup h
  BY RepairsShape, SMTT(30)
<1>0. PICK h \in Reread(d \ At(d, t), t, t) : x = a \cup h
  BY <1>1
<1>2. a \subseteq Findings
  BY AnswersAre DEF Rewritten
<1>3. d \ At(d, t) \subseteq Findings
  OBVIOUS
<1>4. h \subseteq Findings
  BY <1>3, RereadAre
<1>5. QED BY <1>0, <1>2, <1>4

(* What a guarded repair leaves: findings, and no harm to a slot that counts. *)
LEMMA GuardedAre ==
  ASSUME unit \subseteq Findings, NEW changed \in SUBSET Slots, NEW exempt,
         NEW raw \in Repairs(unit, changed), NEW r \in Guarded(unit, raw, changed, exempt)
  PROVE  /\ r \subseteq Findings
         /\ \A f \in Checks(r) : f[1] \notin exempt /\ f[2] \notin Style => f \in unit
<1>2. raw \subseteq Findings
  BY RepairsTyped
<1> DEFINE bad == WorseSlots(unit, raw, changed, exempt)
<1>3. CASE bad = {}
  <2>1. r = raw
    BY <1>3 DEF Guarded
  <2>2. QED BY <1>2, <1>3, <2>1, NotWorse
<1>4. CASE bad # {}
  <2>1. PICK m \in Mixed(unit, raw, changed, bad) :
          r = IF changed \subseteq bad \/ WorseSlots(unit, m, changed \ bad, exempt) # {} THEN unit ELSE m
    BY <1>4 DEF Guarded
  <2>2. CASE r = unit
    BY <2>2, RulesAre
  <2>3. CASE r # unit
    <3>1. r = m /\ WorseSlots(unit, m, changed \ bad, exempt) = {}
      BY <2>1, <2>3
    <3>2. At(unit, Slots \ (changed \ bad)) \cup At(raw, (changed \ bad) \cup {UnitLevel}) \subseteq Findings
      BY <1>2 DEF At
    <3>3. m \subseteq Findings
      BY <3>2, RereadAre DEF Mixed
    <3>4. QED BY <3>1, <3>3, NotWorse
  <2>4. QED BY <2>2, <2>3
<1>5. QED BY <1>3, <1>4

LEMMA RepairsAre ==
  ASSUME unit \subseteq Findings, NEW slots \in SUBSET Slots, NEW exempt, NEW r \in AfterRepair(slots, exempt)
  PROVE  /\ r \subseteq Findings
         /\ \A f \in Checks(r) : f[1] \notin exempt /\ f[2] \notin Style => f \in unit
<1>1. CASE r = unit
  BY <1>1, RulesAre
<1>2. CASE r # unit
  <2>1. PICK changed \in (SUBSET slots) \ {{}} :
          \E raw \in Repairs(unit, changed) : r \in Guarded(unit, raw, changed, exempt)
    BY <1>2 DEF AfterRepair
  <2>2. changed \in SUBSET Slots
    OBVIOUS
  <2>3. QED BY <2>1, <2>2, GuardedAre
<1>3. QED BY <1>1, <1>2
-----------------------------------------------------------------------------
\* The slot the next pass settles is one that some finding is of.
LEMMA BadIs ==
  ASSUME unit \subseteq Findings, Open # {}
  PROVE  Bad \in SlotsOf(Open) /\ Bad \in Slots \cup {UnitLevel}
<1>1. Open \subseteq Findings
  BY RulesAre DEF Open, Idm
<1>2. SlotsOf(Open) \subseteq Slots \cup {UnitLevel} /\ Slots \cup {UnitLevel} \subseteq Nat
  BY <1>1, FindingsAre, SlotsAre DEF SlotsOf, UnitLevel
<1>3. CASE Rules(unit) # {}
  <2>1. SlotsOf(Rules(unit)) \subseteq SlotsOf(Open) /\ SlotsOf(Rules(unit)) # {}
    BY <1>3 DEF SlotsOf, Open
  <2>2. Min(SlotsOf(Rules(unit))) \in SlotsOf(Rules(unit))
    BY <1>2, <2>1, LeastOf
  <2>3. QED BY <1>2, <1>3, <2>1, <2>2 DEF Bad
<1>4. CASE Rules(unit) = {}
  <2> DEFINE slotwise == {f \in Open : f[2] \notin {"framework", "fact"}}
             read == IF slotwise # {} THEN slotwise ELSE Open
  <2>1. SlotsOf(read) \subseteq SlotsOf(Open) /\ SlotsOf(read) # {}
    BY DEF SlotsOf
  <2>2. Min(SlotsOf(read)) \in SlotsOf(read)
    BY <1>2, <2>1, LeastOf
  <2>3. Bad = Min(SlotsOf(read))
    BY <1>4 DEF Bad
  <2>4. QED BY <1>2, <2>1, <2>2, <2>3
<1>5. QED BY <1>3, <1>4

\* The codes of a slot, put back on it, are findings of it.
LEMMA CodesAre ==
  ASSUME NEW d, d \subseteq Findings, NEW i
  PROVE  On(i, CodesAt(d, i)) \subseteq d
<1>1. ASSUME NEW f \in On(i, CodesAt(d, i)) PROVE f \in d
  <2>1. PICK c \in CodesAt(d, i) : f = <<i, c>>
    BY DEF On
  <2>2. PICK g \in d : g[1] = i /\ g[2] = c
    BY <2>1 DEF CodesAt
  <2>3. QED BY <2>1, <2>2, FindingsAre
<1>2. QED BY <1>1

Counted == {"known", "guessed", "missing"}

\* A call takes time and may go uncounted, whatever is done with its outcome.
LEMMA CallIs ==
  ASSUME TypeOK, NEW o, Provider(o)
  PROVE  /\ left' \in 0..2 /\ bills' \in Counted
         /\ Booked(o) => failure' \in BOOLEAN /\ complete' \in BOOLEAN
<1>1. left' \in 0..2
  BY DEF TypeOK, Provider
<1>2. bills' \in Counted
  BY DEF TypeOK, Provider, Told, Counted
<1>3. Booked(o) => failure' \in BOOLEAN /\ complete' \in BOOLEAN
  BY DEF TypeOK, Booked, UsageBooked, Fails
<1>4. QED BY <1>1, <1>2, <1>3

\* The verdicts of the judge.
LEMMA JudgeIs ==
  /\ \A d \in SUBSET Findings : Judged(d) =>
       /\ judge' \in [status : {"not_run", "skipped", "failed", "judged"}, blocking : 0..MaxBlocking,
                      of : SUBSET Findings]
       /\ judge'.of = d /\ judge'.status = "judged"
  /\ \A v \in {"not_run", "skipped", "failed"} : NotJudged(v) =>
       /\ judge' \in [status : {"not_run", "skipped", "failed", "judged"}, blocking : 0..MaxBlocking,
                      of : SUBSET Findings]
       /\ judge'.status # "judged"
  BY BoundsAssumption DEF Judged, NotJudged

\* The slots a repair is asked for.
LEMMA AskedFor ==
  ASSUME TypeOK, RulesHold
  PROVE  /\ pc = "repair" => SlotsOf(Issues) \in SUBSET Slots
         /\ SlotsOf(Again) \in SUBSET Slots
<1>1. ASSUME pc = "repair" PROVE SlotsOf(Issues) \in SUBSET Slots
  <2>1. Issues \subseteq Findings /\ \A f \in Issues : f[1] # UnitLevel
    BY <1>1, RulesAre, FindingsAre DEF Issues, Idm, Cues, Checks, RulesHold, SlotsOf, TypeOK
  <2>2. QED BY <2>1, FindingsAre DEF SlotsOf
<1>2. SlotsOf(Again) \in SUBSET Slots
  <2>1. Again \subseteq Findings /\ \A f \in Again : f[1] # UnitLevel
    BY RulesAre, FindingsAre DEF Again, Idm, Checks, TypeOK
  <2>2. QED BY <2>1, FindingsAre DEF SlotsOf
<1>3. QED BY <1>1, <1>2

\* What the server's edits of a slot leave are findings.
LEMMA MendedAre ==
  ASSUME unit \subseteq Findings, NEW i \in Slots, Mend(i)
  PROVE  unit' \subseteq Findings
<1>1. PICK m \in Mends(i) :
        unit' \in Stirred(unit \ m, Echoes({i}, {i}) \cup (IF Kinds[i] = "html" THEN On(i, {"fact"}) ELSE {}),
                          Echoes({i}, {i}))
  BY DEF Mend
<1>2. PICK around, own : /\ around = Echoes({i}, {i})
                         /\ own = IF Kinds[i] = "html" THEN On(i, {"fact"}) ELSE {}
                         /\ unit' \in Stirred(unit \ m, around \cup own, around)
  BY <1>1
<1>3. own \subseteq Findings
  <2>1. CASE Kinds[i] = "html"
    <3>1. "fact" \in CodesOf(Kinds[i])
      BY <2>1 DEF CodesOf
    <3>2. QED BY <1>2, <2>1, <3>1, FindingsAre DEF On
  <2>2. CASE Kinds[i] # "html"
    BY <1>2, <2>2
  <2>3. QED BY <2>1, <2>2
<1>4. around \subseteq Findings
  BY <1>2, EchoesAre
<1>5. unit' \in Stirred(unit \ m, around \cup own, around)
  BY <1>2
<1>6. unit' \subseteq (unit \ m) \cup (around \cup own)
  BY <1>5, StirredAre
<1>7. QED BY <1>3, <1>4, <1>6

LEMMA FellBackAre ==
  ASSUME unit \subseteq Findings, NEW i \in Slots, FallBackSlot(i)
  PROVE  unit' \subseteq Findings
<1>1. PICK d \in {{}, On(i, {"form"})}, h \in Reread(unit \ At(unit, {i}), {i}, {i}) : unit' = h \cup d
  BY DEF FallBackSlot
<1>2. unit \ At(unit, {i}) \subseteq Findings
  OBVIOUS
<1>3. h \subseteq Findings
  BY <1>2, RereadAre
<1>4. "form" \in CodesOf(Kinds[i])
  BY SlotsAre DEF CodesOf
<1>5. On(i, {"form"}) \subseteq Findings
  BY <1>4, FindingsAre DEF On
<1>6. QED BY <1>1, <1>3, <1>5

\* Explained acronyms break no rule.
LEMMA ExplainedAre ==
  ASSUME TypeOK, Explain
  PROVE  /\ unit' \subseteq Findings
         /\ \A f \in unit' : f \in unit \/ f[2] \notin NodeCodes \cup {"shared"}
<1> DEFINE unseen(e) == UNION {On(i, {"callout", "framework", "fact"}) : i \in e \cap SlotsOf(review)}
<1>1. PICK e \in SUBSET {i \in Slots \ fallback : Kinds[i] = "html"} :
        unit' \in Stirred(unit, Echoes(e, e) \cup unseen(e), Echoes(e, e) \cup At(Checks(unit), e))
  BY DEF Explain
<1>2. ASSUME NEW f \in unseen(e) PROVE f \in Findings /\ f[2] \notin NodeCodes \cup {"shared"}
  <2>1. PICK i \in e : f \in On(i, {"callout", "framework", "fact"})
    BY <1>2
  <2>2. PICK c \in {"callout", "framework", "fact"} : f = <<i, c>>
    BY <2>1 DEF On
  <2>3. i \in Slots /\ c \in CodesOf(Kinds[i])
    BY <1>1, <2>2 DEF CodesOf
  <2>4. QED BY <2>2, <2>3, FindingsAre DEF NodeCodes
<1>3. unit' \subseteq unit \cup (Echoes(e, e) \cup unseen(e))
  BY <1>1, StirredAre
<1>4. unit \subseteq Findings
  BY DEF TypeOK
<1> HIDE DEF unseen
<1>5. QED BY <1>2, <1>3, <1>4, EchoesAre

LEMMA WriterTypeStep == TypeOK /\ RulesHold /\ [Next]_vars => TypeOK'
<1> SUFFICES ASSUME TypeOK, RulesHold, [Next]_vars PROVE TypeOK'
  OBVIOUS
<1> USE DEF TypeOK, Go, Raise, draft, judging, provider, Counted
<1>1. CASE Write
  <2>1. PICK o \in Outcomes : Provider(o) /\ Booked(o)
    BY <1>1 DEF Write
  <2>2. left' \in 0..2 /\ bills' \in Counted /\ failure' \in BOOLEAN /\ complete' \in BOOLEAN
    BY <2>1, CallIs
  <2>3. unit' \subseteq Findings /\ written' \subseteq Findings
    BY <1>1, AnswersAre DEF Write
  <2>4. tries' \in Nat /\ pc' \in {"write", "written", "fall_back", "end"} /\ answer' \in {answer, "error"}
    BY <1>1 DEF Write
  <2>5. QED BY <1>1, <2>2, <2>3, <2>4 DEF Write
<1>2. CASE Settle
  BY <1>2 DEF Settle
<1>3. CASE FirstRepair
  <2>1. PICK o \in Outcomes : Provider(o)
    BY <1>3 DEF FirstRepair
  <2>2. left' \in 0..2 /\ bills' \in Counted
    BY <2>1, CallIs
  <2>3. failure' \in BOOLEAN /\ complete' \in BOOLEAN
    BY <1>3 DEF FirstRepair, Booked, Retry, RepairFailed, UsageBooked, Fails
  <2>4. unit' \subseteq Findings
    <3>1. CASE unit' = unit
      BY <3>1
    <3>2. CASE unit' # unit
      <4>1. PICK r \in AfterRepair(SlotsOf(Issues), {}) : unit' = Repaired(r)
        BY <1>3, <3>2 DEF FirstRepair, Retry
      <4>2. SlotsOf(Issues) \in SUBSET Slots
        BY <1>3, AskedFor DEF FirstRepair
      <4>3. r \subseteq Findings
        BY <4>2, RepairsAre
      <4>4. QED BY <4>1, <4>3 DEF Repaired
    <3>3. QED BY <3>1, <3>2
  <2>5. /\ pc' \in {"second", "repair", "settle", "fall_back", "end"} /\ answer' \in {answer, "error"}
        /\ again' \in BOOLEAN
    BY <1>3 DEF FirstRepair, Retry
  <2>6. QED BY <1>3, <2>2, <2>3, <2>4, <2>5 DEF FirstRepair
<1>4. CASE SecondRepair
  <2>1. left' \in 0..2 /\ bills' \in Counted
    BY <1>4, CallIs DEF SecondRepair
  <2>2. failure' \in BOOLEAN /\ complete' \in BOOLEAN
    BY <1>4 DEF SecondRepair, Booked, Retry, UsageBooked, Fails
  <2>3. unit' \subseteq Findings
    <3>1. CASE unit' = unit
      BY <3>1
    <3>2. CASE unit' # unit
      <4>1. unit' \in AfterRepair(SlotsOf(Again), {})
        BY <1>4, <3>2 DEF SecondRepair, Retry
      <4>2. SlotsOf(Again) \in SUBSET Slots
        BY AskedFor
      <4>3. QED BY <4>1, <4>2, RepairsAre
    <3>3. QED BY <3>1, <3>2
  <2>4. /\ pc' \in {"second", "settle", "fall_back", "end"} /\ answer' \in {answer, "error"}
        /\ again' \in BOOLEAN
    BY <1>4 DEF SecondRepair, Retry
  <2>5. QED BY <1>4, <2>1, <2>2, <2>3, <2>4 DEF SecondRepair
<1>5. CASE SettleSlot
  <2>1. Bad \in Slots \cup {UnitLevel} /\ Open \subseteq Findings
    BY <1>5, BadIs, RulesAre DEF SettleSlot, Open, Idm
  <2>2. passes' \in 0..3 * Len(Kinds) + 1
    BY <1>5 DEF SettleSlot
  <2>3. /\ unit' \subseteq Findings /\ review' \subseteq Findings /\ fallback' \subseteq Slots
        /\ pc' \in {"settle", "fall_back"} /\ answer' = answer /\ written' \subseteq Findings
    <3>1. CASE UNCHANGED <<draft, written>> /\ Go("fall_back")
      BY <3>1
    <3>2. CASE Bad # UnitLevel /\ Mend(Bad)
      <4>1. Bad \in Slots
        BY <2>1, <3>2
      <4>2. unit' \subseteq Findings
        BY <3>2, <4>1, MendedAre DEF Mend
      <4>3. QED BY <3>2, <4>2 DEF Mend, Edits
    <3>3. CASE Bad # UnitLevel /\ KeepForReview(Bad)
      BY <2>1, <3>3, CodesAre DEF KeepForReview
    <3>4. CASE Bad # UnitLevel /\ FallBackSlot(Bad)
      <4>1. Bad \in Slots
        BY <2>1, <3>4
      <4>2. unit' \subseteq Findings
        BY <3>4, <4>1, FellBackAre DEF FallBackSlot
      <4>3. QED BY <3>4, <4>1, <4>2 DEF FallBackSlot, Edits
    <3>5. QED BY <1>5, <3>1, <3>2, <3>3, <3>4 DEF SettleSlot
  <2>4. QED BY <1>5, <2>2, <2>3 DEF SettleSlot
<1>6. CASE Settled
  <2>1. review' \subseteq Findings
    BY <1>6, RulesAre DEF Settled, Refreshed
  <2>2. QED BY <1>6, <2>1 DEF Settled
<1>7. CASE Judge
  <2>1. left' \in 0..2 /\ bills' \in Counted /\ failure' \in BOOLEAN /\ complete' \in BOOLEAN
    BY <1>7, CallIs DEF Judge
  <2>2. judge' \in [status : {"not_run", "skipped", "failed", "judged"}, blocking : 0..MaxBlocking,
                    of : SUBSET Findings]
    BY <1>7, JudgeIs DEF Judge
  <2>3. aim' \subseteq Slots /\ pc' \in {"explain", "judge_repair"} /\ answer' = answer
    BY <1>7 DEF Judge
  <2>4. QED BY <1>7, <2>1, <2>2, <2>3 DEF Judge
<1>8. CASE JudgeRepair
  <2>1. PICK o \in Outcomes : Provider(o)
    BY <1>8 DEF JudgeRepair
  <2>2. left' \in 0..2 /\ bills' \in Counted
    BY <2>1, CallIs
  <2>3. failure' \in BOOLEAN /\ complete' \in BOOLEAN /\ again' \in BOOLEAN
    BY <1>8 DEF JudgeRepair, Booked, Retry, UsageBooked, Fails
  <2>4. second' \subseteq Findings
    BY <1>8, RepairsAre DEF JudgeRepair, Retry
  <2>5. judge' \in [status : {"not_run", "skipped", "failed", "judged"}, blocking : 0..MaxBlocking,
                    of : SUBSET Findings]
    BY <1>8, JudgeIs DEF JudgeRepair
  <2>6. aim' \subseteq Slots /\ pc' \in {"judge_repair", "rejudge", "explain"} /\ answer' = answer
    BY <1>8 DEF JudgeRepair, Retry
  <2>7. QED BY <1>8, <2>2, <2>3, <2>4, <2>5, <2>6 DEF JudgeRepair
<1>9. CASE Rejudge
  <2>1. left' \in 0..2 /\ bills' \in Counted /\ failure' \in BOOLEAN /\ complete' \in BOOLEAN
    BY <1>9, CallIs DEF Rejudge
  <2>2. judge' \in [status : {"not_run", "skipped", "failed", "judged"}, blocking : 0..MaxBlocking,
                    of : SUBSET Findings]
    BY <1>9, JudgeIs DEF Rejudge
  <2>3. unit' \subseteq Findings /\ review' \subseteq Findings
    BY <1>9, RulesAre DEF Rejudge, Adopt, Refreshed
  <2>4. QED BY <1>9, <2>1, <2>2, <2>3 DEF Rejudge
<1>10. CASE Final
  BY <1>10 DEF Final
<1>11. CASE FallBack
  BY <1>11 DEF FallBack
<1>12. CASE Explain
  BY <1>12, ExplainedAre DEF Explain
<1>13. CASE UNCHANGED vars
  BY <1>13 DEF vars
<1>14. QED
  BY <1>1, <1>2, <1>3, <1>4, <1>5, <1>6, <1>7, <1>8, <1>9, <1>10, <1>11, <1>12, <1>13 DEF Next

LEMMA WriterInitially == Init => WriterInv
<1> SUFFICES ASSUME Init PROVE WriterInv
  OBVIOUS
<1>1. 3 * Len(Kinds) + 1 \in Nat
  BY KindsAssumption
<1>2. TypeOK
  <2>1. judge \in [status : {"not_run", "skipped", "failed", "judged"}, blocking : 0..MaxBlocking,
                   of : SUBSET Findings]
    BY BoundsAssumption DEF Init
  <2>2. passes \in 0..3 * Len(Kinds) + 1
    BY <1>1 DEF Init
  <2>3. QED BY <2>1, <2>2, BoundsAssumption DEF Init, TypeOK
<1>3. HarmHold /\ RulesHold /\ NotesHold /\ UsageHold /\ JudgementHold
  BY DEF Init, HarmHold, Harmless, Checks, RulesHold, NotesHold, Late, Explained, Subject, UsageHold, JudgementHold
<1>4. QED BY <1>2, <1>3 DEF WriterInv

-----------------------------------------------------------------------------
\* A repair harms no draft: what guard_repair lets through was there before.
LEMMA RepairHarmless ==
  ASSUME unit \subseteq Findings, Harmless(unit), NEW slots \in SUBSET Slots, NEW exempt, exempt \subseteq fallback,
         NEW r \in AfterRepair(slots, exempt)
  PROVE  Harmless(r)
<1> SUFFICES ASSUME NEW f \in Checks(r), f[1] \notin fallback, f[2] \notin Style PROVE f \in written
  BY DEF Harmless
<1>1. f \in unit
  BY RepairsAre
<1>2. f \in Checks(unit)
  BY <1>1 DEF Checks
<1>3. QED BY <1>2 DEF Harmless

\* An edit of the server's own adds to what is no harm of a repair.
LEMMA EditHarmless ==
  ASSUME Harmless(unit), Edits, fallback \subseteq fallback'
  PROVE  Harmless(unit)'
<1> SUFFICES ASSUME NEW f \in Checks(unit)', f[1] \notin fallback', f[2] \notin Style PROVE f \in written'
  BY DEF Harmless
<1>1. f \in unit'
  BY DEF Checks
<1>2. CASE f \in unit
  <2>1. f \in Checks(unit)
    BY <1>2 DEF Checks
  <2>2. QED BY <2>1 DEF Harmless, Edits
<1>3. CASE f \notin unit
  BY <1>1, <1>3 DEF Edits
<1>4. QED BY <1>2, <1>3

LEMMA HarmStep == WriterInv /\ [Next]_vars => HarmHold'
<1> SUFFICES ASSUME WriterInv, [Next]_vars PROVE HarmHold'
  OBVIOUS
<1> USE DEF WriterInv, Explained, Subject, Go, Raise, draft, judging
<1>0. /\ TypeOK /\ RulesHold
      /\ pc # "end" => answer = "none"
      /\ pc \notin {"final", "fall_back", "end"} => ~Explained /\ Harmless(unit)
  BY DEF JudgementHold, HarmHold
\* Most steps leave the draft and what it is compared with as they are.
<1> DEFINE Same == /\ UNCHANGED <<unit, written, fallback>> /\ pc' # "rejudge" /\ ~Explained'
                   /\ Harmless(unit)
<1>a. ASSUME Same PROVE HarmHold'
  BY <1>a DEF HarmHold, Harmless
<1>b. ASSUME UNCHANGED <<written, fallback>>, Harmless(unit'), pc' # "rejudge", ~Explained' PROVE HarmHold'
  BY <1>b DEF HarmHold, Harmless
<1>1. CASE Write
  <2>1. CASE unit' = written' /\ pc' = "written"
    BY <1>0, <1>1, <2>1 DEF Write, HarmHold, Harmless, Checks
  <2>2. CASE Same
    BY <2>2, <1>a
  <2>3. QED BY <1>0, <1>1, <2>1, <2>2 DEF Write
<1>2. CASE Settle \/ Settled \/ Judge
  <2>1. Same
    BY <1>0, <1>2 DEF Settle, Settled, Judge
  <2>2. QED BY <2>1, <1>a
<1>3. CASE FirstRepair
  <2>1. UNCHANGED <<written, fallback>> /\ pc' # "rejudge" /\ ~Explained' /\ Harmless(unit)
    BY <1>0, <1>3 DEF FirstRepair, Retry
  <2>2. CASE unit' = unit
    BY <2>1, <2>2, <1>a
  <2>3. CASE unit' # unit
    <3>1. PICK r \in AfterRepair(SlotsOf(Issues), {}) : unit' = Repaired(r)
      BY <1>3, <2>3 DEF FirstRepair, Retry
    <3>2. SlotsOf(Issues) \in SUBSET Slots
      BY <1>0, <1>3, AskedFor DEF FirstRepair
    <3>3. Harmless(r)
      BY <2>1, <3>2, RepairHarmless DEF TypeOK
    <3>4. Harmless(unit')
      BY <2>1, <3>1, <3>3 DEF Repaired
    <3>5. QED BY <2>1, <3>4, <1>b
  <2>4. QED BY <2>2, <2>3
<1>4. CASE SecondRepair
  <2>1. UNCHANGED <<written, fallback>> /\ pc' # "rejudge" /\ ~Explained' /\ Harmless(unit)
    <3>1. pc' \in {"second", "settle", "fall_back", "end"} /\ answer' \in {answer, "error"}
      BY <1>4 DEF SecondRepair, Retry
    <3>2. QED BY <1>0, <1>4, <3>1 DEF SecondRepair
  <2>2. CASE unit' = unit
    BY <2>1, <2>2, <1>a
  <2>3. CASE unit' # unit
    <3>1. unit' \in AfterRepair(SlotsOf(Again), {})
      BY <1>4, <2>3 DEF SecondRepair, Retry
    <3>2. SlotsOf(Again) \in SUBSET Slots
      BY <1>0, AskedFor
    <3>3. Harmless(unit')
      BY <2>1, <3>1, <3>2, RepairHarmless DEF TypeOK
    <3>4. QED BY <2>1, <3>3, <1>b
  <2>4. QED BY <2>2, <2>3
<1>5. CASE SettleSlot
  <2>0. Harmless(unit) /\ answer' = answer /\ pc' \in {"settle", "fall_back"}
    BY <1>0, <1>5 DEF SettleSlot, Mend, KeepForReview, FallBackSlot
  <2>1. CASE UNCHANGED <<unit, written, fallback>>
    BY <1>0, <1>5, <2>0, <2>1, <1>a DEF SettleSlot
  <2>2. CASE Edits /\ fallback \subseteq fallback'
    <3>1. Harmless(unit)'
      BY <2>0, <2>2, EditHarmless
    <3>2. QED BY <1>0, <1>5, <2>0, <3>1 DEF SettleSlot, HarmHold
  <2>3. QED BY <1>5, <2>1, <2>2 DEF SettleSlot, Mend, KeepForReview, FallBackSlot
<1>6. CASE JudgeRepair
  <2>1. /\ UNCHANGED <<unit, written, fallback>> /\ ~Explained' /\ Harmless(unit)
        /\ pc' \in {"judge_repair", "rejudge", "explain"}
    BY <1>0, <1>6 DEF JudgeRepair, Retry
  <2>2. CASE pc' # "rejudge"
    BY <2>1, <2>2, <1>a
  <2>3. CASE pc' = "rejudge"
    <3>1. second' \in AfterRepair(aim, fallback) /\ aim \in SUBSET Slots
      BY <1>6, <2>3 DEF JudgeRepair, Retry, TypeOK
    <3>2. Harmless(second')
      BY <2>1, <3>1, RepairHarmless DEF TypeOK
    <3>3. QED BY <2>1, <2>3, <3>2 DEF HarmHold, Harmless
  <2>4. QED BY <2>2, <2>3
<1>7. CASE Rejudge
  <2>1. UNCHANGED <<written, fallback>> /\ pc' = "explain" /\ ~Explained' /\ unit' \in {unit, second}
    BY <1>0, <1>7 DEF Rejudge, Adopt
  <2>2. Harmless(unit')
    BY <1>0, <1>7, <2>1 DEF Rejudge, HarmHold
  <2>3. QED BY <2>1, <2>2, <1>b
<1>8. CASE Explain
  <2>1. handed' = unit /\ UNCHANGED <<written, fallback>> /\ pc' = "final" /\ Harmless(unit)
    BY <1>0, <1>8 DEF Explain
  <2>2. QED BY <2>1 DEF HarmHold, Harmless
<1>9. CASE Final
  <2>1. /\ UNCHANGED <<handed, written, fallback>> /\ pc = "final"
        /\ (pc' = "fall_back" /\ answer' = "none") \/ pc' = "end"
    BY <1>0, <1>9 DEF Final
  <2>2. Harmless(handed)
    BY <2>1 DEF HarmHold
  <2>3. QED BY <2>1, <2>2 DEF HarmHold, Harmless
<1>10. CASE FallBack
  BY <1>10 DEF FallBack, HarmHold
<1>11. CASE UNCHANGED vars
  BY <1>11 DEF vars, HarmHold, Harmless
<1>12. QED BY <1>1, <1>2, <1>3, <1>4, <1>5, <1>6, <1>7, <1>8, <1>9, <1>10, <1>11 DEF Next

-----------------------------------------------------------------------------
\* A draft that breaks no rule has no finding but those of the checks.
LEMMA OnlyChecks ==
  ASSUME NEW d, d \subseteq Findings, Rules(d) = {}
  PROVE  d = Checks(d)
<1> DEFINE shared == {f \in d : f[2] = "shared"}
<1>1. shared = {}
  <2> SUFFICES ASSUME shared # {} PROVE FALSE
    OBVIOUS
  <2>1. SlotsOf(shared) \subseteq Nat /\ SlotsOf(shared) # {}
    BY FindingsAre, SlotsAre DEF SlotsOf, UnitLevel
  <2>2. Min(SlotsOf(shared)) \in SlotsOf(shared)
    BY <2>1, LeastOf
  <2>3. PICK f \in shared : f[1] = Min(SlotsOf(shared))
    BY <2>2 DEF SlotsOf
  <2>4. f \in Rules(d)
    BY <2>3 DEF Rules
  <2>5. QED BY <2>4
<1>2. {f \in d : f[2] \in NodeCodes} = {}
  BY <1>1 DEF Rules
<1>3. QED BY <1>1, <1>2 DEF Checks

\* And one with no other finding breaks no rule.
LEMMA NoRules ==
  ASSUME NEW d, \A f \in d : f[2] \notin NodeCodes \cup {"shared"}
  PROVE  Rules(d) = {}
BY DEF Rules

\* The last validators passed the draft, whatever became of it since.
LEMMA RulesStep == WriterInv /\ [Next]_vars => RulesHold'
<1> SUFFICES ASSUME WriterInv, [Next]_vars PROVE RulesHold'
  OBVIOUS
<1> USE DEF WriterInv, RulesHold, Late, Explained, Subject, JudgementHold, Go, Raise, draft, judging
<1>1. CASE Write
  BY <1>1 DEF Write
<1>2. CASE Settle
  <2>1. CASE unit = {}
    <3>1. Rules(unit') = {}
      BY <1>2, <2>1, RulesAre DEF Settle
    <3>2. QED BY <1>2, <2>1, <3>1 DEF Settle, SlotsOf
  <2>2. CASE unit # {}
    BY <1>2, <2>2 DEF Settle
  <2>3. QED BY <2>1, <2>2
<1>3. CASE FirstRepair
  BY <1>3 DEF FirstRepair, Retry
<1>4. CASE SecondRepair
  BY <1>4 DEF SecondRepair, Retry
<1>5. CASE SettleSlot
  BY <1>5 DEF SettleSlot, Mend, KeepForReview, FallBackSlot
<1>6. CASE Settled
  BY <1>6 DEF Settled, Open
<1>7. CASE Judge
  BY <1>7 DEF Judge
<1>8. CASE JudgeRepair
  BY <1>8 DEF JudgeRepair, Retry, Acceptable
<1>9. CASE Rejudge
  BY <1>9 DEF Rejudge, Adopt
<1>10. CASE Final \/ FallBack
  BY <1>10 DEF Final, FallBack
<1>11. CASE Explain
  <2>1. Rules(unit) = {} /\ handed' = unit /\ pc' = "final"
    BY <1>11 DEF Explain
  <2>2. unit = Checks(unit)
    BY <2>1, OnlyChecks DEF TypeOK
  <2>3. \A f \in unit' : f[2] \notin NodeCodes \cup {"shared"}
    BY <1>11, <2>2, ExplainedAre DEF Checks
  <2>4. Rules(unit') = {}
    BY <2>3, NoRules
  <2>5. QED BY <2>1, <2>4
<1>12. CASE UNCHANGED vars
  BY <1>12 DEF vars
<1>13. QED
  BY <1>1, <1>2, <1>3, <1>4, <1>5, <1>6, <1>7, <1>8, <1>9, <1>10, <1>11, <1>12 DEF Next

\* What the author is asked to review is up to date whenever the draft is handed on.
LEMMA NotesStep == WriterInv /\ [Next]_vars => NotesHold'
<1> SUFFICES ASSUME WriterInv, [Next]_vars PROVE NotesHold'
  OBVIOUS
<1> USE DEF WriterInv, NotesHold, Late, Explained, Subject, JudgementHold, Go, Raise, draft, judging
\* A refreshed review names every finding of the slots it is kept for.
<1>0. ASSUME NEW d, NEW slots, NEW f \in Checks(d), f[2] # "cue", f[1] \in slots
      PROVE  f \in Refreshed(d, slots)
  BY <1>0 DEF Refreshed
<1>1. CASE Write
  BY <1>1 DEF Write
<1>2. CASE Settle
  BY <1>2 DEF Settle, Checks
<1>3. CASE FirstRepair
  BY <1>3 DEF FirstRepair, Retry
<1>4. CASE SecondRepair
  BY <1>4 DEF SecondRepair, Retry
<1>5. CASE SettleSlot
  BY <1>5 DEF SettleSlot, Mend, KeepForReview, FallBackSlot
<1>6. CASE Settled
  <2>1. CASE pc' = "judge"
    <3>1. SUFFICES ASSUME NEW f \in Checks(unit), f[2] # "cue", f[1] \notin fallback
                   PROVE  f \in Refreshed(unit, SlotsOf(review))
      BY <1>6, <2>1 DEF Settled
    <3>2. f[1] \in SlotsOf(review)
      BY <1>6, <2>1, <3>1 DEF Settled, Open, Idm, Exempt
    <3>3. QED BY <1>0, <3>1, <3>2
  <2>2. CASE pc' # "judge"
    BY <1>6, <2>2 DEF Settled
  <2>3. QED BY <2>1, <2>2
<1>7. CASE Judge
  BY <1>7 DEF Judge
<1>8. CASE JudgeRepair
  BY <1>8 DEF JudgeRepair, Retry
<1>9. CASE Rejudge
  <2>1. CASE Adopt
    <3>1. SUFFICES ASSUME NEW f \in Checks(second), f[2] # "cue", f[1] \notin fallback
                   PROVE  f \in Refreshed(second, SlotsOf(review \cup Idm(second, Exempt)))
      BY <1>9, <2>1 DEF Rejudge, Adopt
    <3>2. f[1] \in SlotsOf(review \cup Idm(second, Exempt))
      BY <3>1 DEF Idm, Exempt, SlotsOf
    <3>3. QED BY <1>0, <3>1, <3>2
  <2>2. CASE UNCHANGED <<unit, review>>
    BY <1>9, <2>2 DEF Rejudge
  <2>3. QED BY <1>9, <2>1, <2>2 DEF Rejudge
<1>10. CASE Final \/ FallBack
  BY <1>10 DEF Final, FallBack
<1>11. CASE Explain
  BY <1>11 DEF Explain
<1>12. CASE UNCHANGED vars
  BY <1>12 DEF vars
<1>13. QED
  BY <1>1, <1>2, <1>3, <1>4, <1>5, <1>6, <1>7, <1>8, <1>9, <1>10, <1>11, <1>12 DEF Next

\* A call that goes uncounted is booked by its own step, and a repair that was not repeated puts
\* back only what was known before it.
LEMMA UsageStep == WriterInv /\ [Next]_vars => UsageHold'
<1> SUFFICES ASSUME WriterInv, [Next]_vars PROVE UsageHold'
  OBVIOUS
<1> USE DEF WriterInv, TypeOK, UsageHold, Go, Raise, draft, judging, provider
<1>0. ASSUME NEW o, Provider(o), Booked(o), pc # "repair" \/ pc' # "repair", pc' # "repair"
      PROVE  UsageHold'
  BY <1>0 DEF Provider, Told, Booked, UsageBooked
<1>1. CASE Write
  BY <1>0, <1>1 DEF Write
<1>2. CASE Settle
  BY <1>2 DEF Settle
<1>3. CASE FirstRepair
  <2>1. PICK o \in Outcomes :
          /\ Provider(o)
          /\ \/ Booked(o) /\ pc' # "repair"
             \/ Retry(o)
             \/ ~Retried(o) /\ o \notin {"answer", "terminal", "cut"} /\ pc' = "settle" /\ RepairFailed(o, Issues)
    BY <1>3 DEF FirstRepair
  <2>2. CASE Booked(o) /\ pc' # "repair"
    BY <1>0, <2>1, <2>2
  <2>3. CASE Retry(o)
    BY <2>3 DEF Retry
  <2>4. CASE ~Retried(o) /\ o \notin {"answer", "terminal", "cut"} /\ pc' = "settle" /\ RepairFailed(o, Issues)
    BY <1>3, <2>1, <2>4 DEF FirstRepair, RepairFailed, Provider, Told, UsageBooked, Outcomes
  <2>5. QED BY <2>1, <2>2, <2>3, <2>4
<1>4. CASE SecondRepair
  <2>1. CASE UNCHANGED provider /\ pc' = "settle"
    BY <2>1
  <2>2. CASE ~UNCHANGED provider \/ pc' # "settle"
    <3>1. PICK o \in Outcomes :
            /\ Provider(o)
            /\ \/ pc' = "settle" /\ Booked(o)
               \/ Retry(o)
               \/ /\ Booked(o)
                  /\ CASE o = "terminal" -> Raise
                       [] o = "cut" -> Go("fall_back")
                       [] OTHER -> Go("settle")
      BY <1>4, <2>2 DEF SecondRepair
    <3>2. CASE Retry(o)
      BY <3>2 DEF Retry
    <3>3. CASE pc' # "repair" /\ Booked(o)
      BY <1>0, <3>1, <3>3
    <3>4. o = "terminal" \/ o = "cut" \/ (o # "terminal" /\ o # "cut")
      OBVIOUS
    <3>5. QED BY <3>1, <3>2, <3>3, <3>4
  <2>3. QED BY <2>1, <2>2
<1>5. CASE SettleSlot
  BY <1>5 DEF SettleSlot, Mend, KeepForReview, FallBackSlot
<1>6. CASE Settled
  BY <1>6 DEF Settled
<1>7. CASE Judge
  BY <1>0, <1>7 DEF Judge
<1>8. CASE JudgeRepair
  <2>1. PICK o \in Outcomes :
          /\ Provider(o)
          /\ \/ /\ Booked(o)
                /\ \E r \in AfterRepair(aim, fallback) : pc' = "rejudge" \/ pc' = "explain"
             \/ Retry(o)
             \/ Booked(o) /\ pc' = "explain"
    BY <1>8, Zenon DEF JudgeRepair
  <2>2. CASE Retry(o)
    BY <1>8, <2>2 DEF JudgeRepair, Retry
  <2>3. CASE Booked(o) /\ pc' \in {"rejudge", "explain"}
    BY <1>0, <2>1, <2>3
  <2>4. QED BY <2>1, <2>2, <2>3
<1>9. CASE Rejudge
  BY <1>0, <1>9 DEF Rejudge
<1>10. CASE Final \/ FallBack
  BY <1>10 DEF Final, FallBack
<1>11. CASE Explain
  BY <1>11 DEF Explain
<1>12. CASE UNCHANGED vars
  BY <1>12 DEF vars
<1>13. QED
  BY <1>1, <1>2, <1>3, <1>4, <1>5, <1>6, <1>7, <1>8, <1>9, <1>10, <1>11, <1>12 DEF Next

\* A judgement is told of the draft it was made of: only the one the second judge read takes
\* the place of the one the first read.
LEMMA JudgementStep == WriterInv /\ [Next]_vars => JudgementHold'
<1> SUFFICES ASSUME WriterInv, [Next]_vars PROVE JudgementHold'
  OBVIOUS
<1> USE DEF WriterInv, TypeOK, JudgementHold, Explained, Subject, Go, Raise, draft, judging
<1>1. CASE Write
  BY <1>1 DEF Write
<1>2. CASE Settle
  BY <1>2 DEF Settle
<1>3. CASE FirstRepair
  BY <1>3 DEF FirstRepair, Retry
<1>4. CASE SecondRepair
  BY <1>4 DEF SecondRepair, Retry
<1>5. CASE SettleSlot
  BY <1>5 DEF SettleSlot, Mend, KeepForReview, FallBackSlot
<1>6. CASE Settled
  BY <1>6 DEF Settled
<1>7. CASE Judge
  <2>1. CASE Judged(unit)
    BY <1>7, <2>1, JudgeIs DEF Judge
  <2>2. CASE \E v \in {"not_run", "skipped", "failed"} : NotJudged(v)
    BY <1>7, <2>2, JudgeIs DEF Judge
  <2>3. QED BY <1>7, <2>1, <2>2 DEF Judge
<1>8. CASE JudgeRepair
  <2>1. CASE NotJudged("skipped")
    BY <1>8, <2>1, JudgeIs DEF JudgeRepair, Retry
  <2>2. CASE UNCHANGED judge
    BY <1>8, <2>2 DEF JudgeRepair, Retry
  <2>3. QED BY <1>8, <2>1, <2>2 DEF JudgeRepair
<1>9. CASE Rejudge
  <2>1. CASE Judged(second) /\ Adopt
    BY <1>9, <2>1, JudgeIs DEF Rejudge, Adopt
  <2>2. CASE NotJudged("skipped")
    BY <1>9, <2>2, JudgeIs DEF Rejudge
  <2>3. CASE UNCHANGED <<unit, judge>>
    BY <1>9, <2>3 DEF Rejudge
  <2>4. QED BY <1>9, <2>1, <2>2, <2>3 DEF Rejudge
<1>10. CASE Final \/ FallBack
  BY <1>10 DEF Final, FallBack
<1>11. CASE Explain
  BY <1>11 DEF Explain
<1>12. CASE UNCHANGED vars
  BY <1>12 DEF vars
<1>13. QED
  BY <1>1, <1>2, <1>3, <1>4, <1>5, <1>6, <1>7, <1>8, <1>9, <1>10, <1>11, <1>12 DEF Next
-----------------------------------------------------------------------------
(* The invariant, and what it says of the reply. *)
LEMMA WriterInvariant == Spec => []WriterInv
<1>1. WriterInv /\ [Next]_vars => WriterInv'
  <2> SUFFICES ASSUME WriterInv, [Next]_vars PROVE WriterInv'
    OBVIOUS
  <2>1. TypeOK'
    BY WriterTypeStep DEF WriterInv
  <2>2. QED
    BY <2>1, HarmStep, RulesStep, NotesStep, UsageStep, JudgementStep DEF WriterInv
<1>2. QED BY <1>1, WriterInitially, PTL DEF Spec

\* Every variable of a storyboard request keeps its type.
THEOREM WriterTypeCorrect == Spec => []TypeOK
<1>1. WriterInv => TypeOK
  BY DEF WriterInv
<1>2. QED BY <1>1, WriterInvariant, PTL

\* Whatever the two repairs of the writer, the settlement of the slots and the judge's repair
\* did, the draft at the last check of run_idm_unit breaks no rule of Node: the check there
\* is unreachable, as its comment says.
THEOREM LastCheckHolds == Spec => []LastCheckPasses
<1>1. WriterInv => LastCheckPasses
  BY DEF WriterInv, RulesHold, Late, LastCheckPasses
<1>2. QED BY <1>1, WriterInvariant, PTL

\* No repair, of whatever slots and however often, leaves a slot of the provider of the judged
\* draft with a finding to review that neither the answer of the writer had nor an edit of the
\* server made, however slots are read beside the ones a repair rewrites or leaves
\* (guard_repair).
THEOREM RepairsDoNoHarm == Spec => []RepairsNeverHurt
<1>1. WriterInv => RepairsNeverHurt
  BY DEF WriterInv, HarmHold, Harmless, Explained, Subject, RepairsNeverHurt
<1>2. QED BY <1>1, WriterInvariant, PTL

\* A unit is called validated only when some usage is counted of every call that reached the
\* provider, and nothing but wording was left to find in any of its slots before its acronyms
\* were explained.
THEOREM ValidationIsEarned == Spec => []ValidatedIsEarned
<1>1. WriterInv => ValidatedIsEarned
  <2> SUFFICES ASSUME WriterInv, Validated
               PROVE  bills # "missing" /\ \A f \in handed : f[2] \in Style
    BY DEF ValidatedIsEarned
  <2>1. answer = "provider" /\ complete /\ fallback = {}
    BY DEF Validated, ProviderLane
  <2>2. bills # "missing"
    BY <2>1 DEF WriterInv, UsageHold
  <2>3. handed = Checks(handed)
    BY <2>1, OnlyChecks DEF WriterInv, TypeOK, RulesHold, Late, Explained, Subject
  <2>4. ASSUME NEW f \in handed PROVE f[2] \in Style
    <3>1. CASE f[2] = "cue"
      BY <3>1 DEF Style
    <3>2. CASE f[2] # "cue"
      <4>1. f \in review
        BY <2>1, <2>3, <3>2 DEF WriterInv, NotesHold, Late, Explained, Subject
      <4>2. QED BY <4>1 DEF Validated
    <3>3. QED BY <3>1, <3>2
  <2>5. QED BY <2>2, <2>4
<1>2. QED BY <1>1, WriterInvariant, PTL

\* The judgement in the reply is one of the draft whose acronyms the server explained in the
\* reply, also after a repair of the judge was dropped or adopted.
THEOREM JudgementIsTold == Spec => []JudgementIsOfTheUnit
<1>1. WriterInv => JudgementIsOfTheUnit
  BY DEF WriterInv, JudgementHold, Explained, Subject, JudgementIsOfTheUnit
<1>2. QED BY <1>1, WriterInvariant, PTL

(***************************************************************************)
(* III. The route.                                                         *)
(***************************************************************************)
\* A request that takes one of three lanes is one of either writer at most: what is proved
\* of each lane alone holds of the route.
THEOREM RouteKeepsTheLanes == RouteSpec => Spec /\ SSpec
<1>1. RouteInit => Init /\ SInit
  BY DEF RouteInit
<1>2. [RouteNext]_<<lane, vars, svars>> => [Next]_vars /\ [SNext]_svars
  BY DEF RouteNext, Preserve, Storyboard, Staged
<1>3. QED BY <1>1, <1>2, PTL DEF RouteSpec, Spec, SSpec
=============================================================================
