----------------------------- MODULE MergeGate -----------------------------
(***************************************************************************)
(* What lets a branch through: the end-of-turn review and its gates, and    *)
(* later, over the archive that review left, the four conditions of an      *)
(* automatic merge.  The reviewer's answer is raw: a verdict on each        *)
(* criterion with a quote that the diff may not carry, or nothing at all.   *)
(* A review that fails, or that has nothing to look at, settles the turn    *)
(* and leaves the archive of an earlier turn where it was.                  *)
(***************************************************************************)
EXTENDS Integers, FiniteSets

CONSTANTS Judged,      \* the criteria the reviewer is asked about
          Mechanical,  \* the criteria decided by a command, the diff or a file
          Late         \* a criterion somebody validates after the review

ParametersAreSound ==
  /\ Judged \intersect Mechanical = {} /\ Late \notin Judged \union Mechanical
  /\ IsFiniteSet(Judged \union Mechanical)

VARIABLES
  stage,     \* "turn", "reviewed", "written", "settled", "shipped", "forge" or "over"
  criteria,  \* taskCriteria(record)
  ended,     \* how this turn's review ended: "none" yet, "archived", "failed" or "empty"
  said,      \* what came back on each criterion of the archive: a word, or the fact
  indexed,   \* the diff of the archive could be indexed
  review,    \* record.review_ref, the last archive: [verdict, findings, criteria]
  checks,    \* the status of the checks run
  verified,  \* whether the mechanical verification, if one ran, passed
  settled,   \* the record: [status, code], and which way it was let through
  step,      \* record.cycle_step is 'ship'
  branch,    \* where the branch stands, and the consent given, at the merge
  outcome    \* of the merge: [kind, code]

vars == <<stage, criteria, ended, said, indexed, review, checks, verified, settled, step, branch,
          outcome>>

Statuses == {"met", "unmet", "unclear"}
Evidence == {"none", "anchored", "lost"}
Words == [status : Statuses, evidence : Evidence]
Silence == [status |-> "none", evidence |-> "none"]

-----------------------------------------------------------------------------
(* The criteria gate *)

\* groundCriterionVerdicts: a claim whose quote is not in the diff, and a 'met'
\* that quotes nothing, fall to 'unclear'.
Grounded(word, legible) == legible /\ word.evidence = "anchored"

Demotes(word, legible) == ~Grounded(word, legible) /\ (word.evidence # "none" \/ word.status = "met")

groundCriterionVerdicts(word, legible) == IF Demotes(word, legible) THEN "unclear" ELSE word.status

\* partitionCriteriaByProof: the criteria that are the reviewer's to judge.
judged == criteria \ Mechanical

\* resolveCriteria: what was left out reads 'unclear'.
resolveCriteria(words, legible) ==
  [c \in judged |->
     IF words[c] = Silence THEN "unclear" ELSE groundCriterionVerdicts(words[c], legible)]

\* combineCriteriaOutcomes: the mechanical half is never grounded.
combineCriteriaOutcomes(words, legible) ==
  [c \in criteria |-> IF c \in judged THEN resolveCriteria(words, legible)[c] ELSE words[c].status]

Satisfied(verdicts) == \A c \in DOMAIN verdicts : verdicts[c] = "met"

criteriaGateWaivable ==
  /\ indexed
  /\ \A c \in criteria : review.criteria[c] # "unmet"
  /\ \E c \in criteria : review.criteria[c] = "unclear"
  /\ \A c \in judged :
       /\ said[c] # Silence /\ ~Demotes(said[c], indexed)
       /\ said[c].evidence # "none" => Grounded(said[c], indexed)

\* What an archived gate is blocked on.
criteriaBlockKind(list, verdicts) ==
  LET of(c) == IF c \in DOMAIN verdicts THEN verdicts[c] ELSE "unmet" IN
  CASE \E c \in list : of(c) = "unmet"   -> "unmet"
    [] \A c \in list : of(c) = "met"     -> "satisfied"
    [] OTHER                             -> "judgment_open"

-----------------------------------------------------------------------------
(* The review *)

Verdicts == {"approve", "comment", "request_changes"}
Findings == {"minor", "major", "critical"}  \* the worst one: a minor reads like none
Blocking == {"major", "critical"}

\* groundReview: no approve over a critical finding, if the diff can be indexed.
groundReview(verdict, worst, legible) ==
  IF legible /\ verdict = "approve" /\ worst = "critical" THEN "request_changes" ELSE verdict

taskReviewVerdict(r) ==
  CASE r.verdict = "approve"         -> "review_ok"
    [] r.verdict = "request_changes" -> "review_ko"
    [] r.verdict = "comment"         -> IF r.findings \in Blocking THEN "review_ko" ELSE "review_ok"

hasBlockingFindings(r) == r.findings \in Blocking

\* A run that passed but for a timeout reads as failed, one under way as none.
Ran == {"none", "error", "unconfigured", "failed", "passed"}
checksBlockReady(run) == run = "failed"

\* D18: a gate that only has doubts left is lifted.
criteriaWaived ==
  criteria # {} /\ ~Satisfied(review.criteria) /\ ~hasBlockingFindings(review) /\ criteriaGateWaivable

\* What an archived review blocks on, if anything.
ReviewBlocks ==
  CASE taskReviewVerdict(review) = "review_ok" /\ hasBlockingFindings(review) -> "review_blocked"
    [] /\ taskReviewVerdict(review) = "review_ok" /\ ~hasBlockingFindings(review)
       /\ ~Satisfied(review.criteria) /\ ~criteriaWaived -> "criteria_unmet"
    [] taskReviewVerdict(review) = "review_ko" /\ ~criteriaWaived -> "review_blocked"
    [] OTHER -> "none"

\* createTaskReviewer's own verdict: nothing to look at is an OK, a failure a KO.
Blocks ==
  CASE ended = "archived" -> ReviewBlocks
    [] ended = "failed"   -> "review_blocked"
    [] ended = "empty"    -> "none"

\* applyChecksGate, then applyVerificationGate: they only turn an OK into a KO.
Gates(code, run, verification) ==
  IF code # "none" THEN code
  ELSE IF checksBlockReady(run) THEN "checks_failed"
  ELSE IF ~verification THEN "verification_failed"
  ELSE "none"

\* decideFixLoop and its write: a block that is only waiting for a judgment is
\* shipped once the rounds are spent, the others are handed back; with no review
\* of this turn to work from, the loop stands down and the KO stays.
Decided(code, spent) ==
  CASE code = "none" -> [status |-> "review_ok", code |-> "none", way |-> "gates"]
    [] code \in {"review_blocked", "criteria_unmet"} /\ spent /\ ended = "archived" ->
         IF code = "criteria_unmet" /\ criteriaBlockKind(criteria, review.criteria) = "judgment_open"
           THEN [status |-> "review_ok", code |-> "none", way |-> "loop"]
           ELSE [status |-> "waiting_for_you", code |-> code, way |-> "none"]
    [] OTHER -> [status |-> "review_ko", code |-> code, way |-> "none"]

Nothing == [verdict |-> "none", findings |-> "none", criteria |-> <<>>]
Unsettled == [status |-> "running", code |-> "none", way |-> "none"]

\* A task has its criteria, or a draft nobody has validated yet.
Init ==
  /\ stage = "turn" /\ criteria \in {{}, Judged \union Mechanical}
  /\ ended = "none" /\ said = <<>> /\ indexed = TRUE /\ review = Nothing /\ checks = "none"
  /\ verified = TRUE /\ settled = Unsettled /\ step = FALSE
  /\ branch = [current |-> FALSE, consent |-> FALSE] /\ outcome = [kind |-> "none", code |-> "none"]

\* The reviewer answers: grounded, normalized, archived.
Reviews(words, verdict, worst, legible) ==
  /\ stage = "turn" /\ stage' = "reviewed" /\ ended' = "archived"
  /\ said' = words /\ indexed' = legible
  /\ review' = [verdict |-> groundReview(verdict, worst, legible), findings |-> worst,
                criteria |-> combineCriteriaOutcomes(words, legible)]
  /\ UNCHANGED <<criteria, checks, verified, settled, step, branch, outcome>>

\* The reviewer fails, or the diff is empty: nothing is archived.
ReviewFails ==
  /\ stage = "turn" /\ stage' = "reviewed" /\ ended' = "failed"
  /\ UNCHANGED <<criteria, said, indexed, review, checks, verified, settled, step, branch, outcome>>

NothingChanged ==
  /\ stage = "turn" /\ stage' = "reviewed" /\ ended' = "empty"
  /\ UNCHANGED <<criteria, said, indexed, review, checks, verified, settled, step, branch, outcome>>

\* The status settles: the reviewer's write, with the gates, the decision of
\* the loop and the marker of the ship folded into it.
Settles(run, verification, spent) ==
  /\ stage = "reviewed" /\ stage' = "written"
  /\ checks' = run /\ verified' = verification
  /\ settled' = Decided(Gates(Blocks, run, verification), spent)
  /\ step' = (settled'.status = "review_ok")
  /\ UNCHANGED <<criteria, ended, said, indexed, review, branch, outcome>>

\* The hook folds the gates in once more, and writes again; the loop and the
\* marker are not decided twice.
Regates ==
  /\ stage = "written" /\ stage' = "settled"
  /\ LET code == Gates(settled.code, checks, verified) IN
     settled' = IF settled.status = "review_ok" /\ code # "none"
                  THEN [status |-> "review_ko", code |-> code, way |-> "none"] ELSE settled
  /\ UNCHANGED <<criteria, ended, said, indexed, review, checks, verified, step, branch, outcome>>

\* Somebody asks for more, or the loop does: another turn, another review; what
\* the last one archived stays the archive, and the next answers on the criteria
\* there are by then.
AnotherTurn ==
  /\ stage = "settled" /\ stage' = "turn"
  /\ settled' = Unsettled /\ ended' = "none" /\ checks' = "none" /\ verified' = TRUE
  /\ step' = FALSE
  /\ UNCHANGED <<criteria, said, indexed, review, branch, outcome>>

\* applyTaskCriteria: a list is validated, or one more criterion is.
Validates ==
  /\ stage \in {"settled", "shipped"}
  /\ criteria' = criteria \union {Late}
  /\ UNCHANGED <<stage, ended, said, indexed, review, checks, verified, settled, step, branch, outcome>>

\* ship takes a review_ok and a review_ko alike; who asks makes the difference.
ShippedBy(way) ==
  /\ stage' = "shipped" /\ step' = FALSE
  /\ settled.status \in {"review_ok", "review_ko"}
  /\ settled' = [settled EXCEPT !.way = IF settled.status = "review_ok" THEN settled.way ELSE way]
  /\ UNCHANGED <<criteria, ended, said, indexed, review, checks, verified, branch, outcome>>

\* The hook ships what it has written review_ok.
AutoShips == stage = "settled" /\ settled.status = "review_ok" /\ ShippedBy("gates")

\* A person may assume a KO.
PersonShips == stage = "settled" /\ ShippedBy("person")

\* The process dies after a write; the next boot resumes the step it marks.
BootShips == stage \in {"written", "settled"} /\ step /\ ShippedBy("boot")

-----------------------------------------------------------------------------
(* The merge *)

\* Each condition is the code it refuses with, or "none".  The review is the
\* last archive, whichever turn it is of.
reviewCondition ==
  IF review = Nothing \/ hasBlockingFindings(review) \/ taskReviewVerdict(review) = "review_ko"
    THEN "review_blocked" ELSE "none"

checksCondition(consent) ==
  CASE checks \in {"none", "error"}         -> "checks_unavailable"
    [] checks = "unconfigured" /\ ~consent -> "checks_unavailable"
    [] checks = "unconfigured" /\ consent  -> "none"
    [] checks = "passed"                   -> "none"
    [] checks = "failed"                   -> "checks_failed"

\* A plausible bug: every criterion of an empty list is met.
VacuouslyMet ==
  LET of(c) == IF c \in DOMAIN review.criteria THEN review.criteria[c] ELSE "unjudged" IN
  CASE \E c \in criteria : of(c) \in {"unmet", "unjudged"} -> "criteria_unmet"
    [] \A c \in criteria : of(c) = "met" -> "none"
    [] OTHER -> "criteria_judgment_open"

criteriaCondition ==
  LET of(c) == IF c \in DOMAIN review.criteria THEN review.criteria[c] ELSE "unjudged" IN
  CASE criteria = {} -> "criteria_missing"
    [] \E c \in criteria : of(c) \in {"unmet", "unjudged"} -> "criteria_unmet"
    [] criteria # {} /\ \A c \in criteria : of(c) = "met" -> "none"
    [] OTHER -> "criteria_judgment_open"

\* The first of the three spellings of the target that is a ref, compared with
\* the branch; a read that answers nothing in time answers no.
branchAncestry(known, here, contains) ==
  CASE ~known \/ ~here  -> "unresolved"
    [] known /\ here    -> IF contains THEN "up_to_date" ELSE "behind"

branchCondition(ancestry) == IF ancestry = "up_to_date" THEN "none" ELSE "branch_diverged"

\* The conditions in their order: the blockers are those that name a code.
mergeReadiness(consent, ancestry) ==
  <<reviewCondition, checksCondition(consent), criteriaCondition, branchCondition(ancestry)>>

Blockers(conditions) == {i \in DOMAIN conditions : conditions[i] # "none"}

\* The refusal takes the first blocker.
Refusal(conditions) ==
  conditions[CHOOSE i \in Blockers(conditions) : \A j \in Blockers(conditions) : i <= j]

effectiveMergePolicyIsAuto(policy, hub, runnerAutoMerge) ==
  policy = "auto" \/ (hub /\ runnerAutoMerge)

Ends(kind, code) == stage' = "over" /\ outcome' = [kind |-> kind, code |-> code]

\* mergeTask up to the forge: the policy, the conditions, the strategy.
MergeTask(auto, strategy, consent, ancestry) ==
  /\ stage = "shipped"
  /\ branch' = [current |-> ancestry = "up_to_date", consent |-> consent]
  /\ LET conditions == mergeReadiness(consent, ancestry)
         ready == Blockers(conditions) = {}
     IN  CASE ~auto                        -> Ends("held", "none")
           [] auto /\ ~ready               -> Ends("refused", Refusal(conditions))
           [] auto /\ ready /\ ~strategy   -> Ends("refused", "merge_strategy_unconfigured")
           [] OTHER                        -> stage' = "forge" /\ UNCHANGED outcome
  /\ UNCHANGED <<criteria, ended, said, indexed, review, checks, verified, settled, step>>

\* The two forge CLIs in turn, unless the remote tells which: one that is
\* missing or fails for its own reason leaves the word to the next, a conflict
\* ends it, and one that refuses what it has merged already has merged it.
Asked(before, answer) ==
  IF before \in {"merged", "merge_conflict"} THEN before
  ELSE CASE answer \in {"ok", "merged_before"} -> "merged"
         [] answer = "conflict"                -> "merge_conflict"
         [] answer \in {"missing", "error"}    -> "forge_unreachable"

Answers == {"missing", "error", "conflict", "merged_before", "ok"}

mergeCandidates(hint, gh, glab) ==
  CASE hint = "github"  -> Asked("forge_unreachable", gh)
    [] hint = "gitlab"  -> Asked("forge_unreachable", glab)
    [] hint = "unknown" -> Asked(Asked("forge_unreachable", gh), glab)

MergeCalls(hint, gh, glab) ==
  /\ stage = "forge"
  /\ LET end == mergeCandidates(hint, gh, glab)
     IN  IF end = "merged" THEN Ends("merged", "none") ELSE Ends("failed", end)
  /\ UNCHANGED <<criteria, ended, said, indexed, review, checks, verified, settled, step,
                 branch>>

-----------------------------------------------------------------------------

\* What may come back on the criteria of the task: the reviewer's word or
\* nothing, or a fact.
Said ==
  {words \in [criteria -> Words \union {Silence}] :
     \A c \in criteria \ judged : words[c].status \in {"met", "unmet"} /\ words[c].evidence = "none"}

Next ==
  \/ stage = "turn" /\ \E words \in Said, verdict \in Verdicts, worst \in Findings, legible \in BOOLEAN :
       Reviews(words, verdict, worst, legible)
  \/ ReviewFails
  \/ NothingChanged
  \/ \E run \in Ran, verification, spent \in BOOLEAN :
       Settles(run, verification, spent)
  \/ Regates
  \/ AnotherTurn
  \/ Validates
  \/ AutoShips
  \/ PersonShips
  \/ BootShips
  \/ \E auto \in {effectiveMergePolicyIsAuto(policy, hub, runnerAutoMerge) :
                   policy \in {"human", "auto"}, hub, runnerAutoMerge \in BOOLEAN},
        ancestry \in {branchAncestry(known, here, contains) : known, here, contains \in BOOLEAN},
        strategy, consent \in BOOLEAN :
       MergeTask(auto, strategy, consent, ancestry)
  \/ \E hint \in {"github", "gitlab", "unknown"}, gh, glab \in Answers : MergeCalls(hint, gh, glab)

Spec == Init /\ [][Next]_vars

-----------------------------------------------------------------------------
(* Properties *)

\* The record, the archive and the merge hold the values of their types.
TypeOK ==
  /\ stage \in {"turn", "reviewed", "written", "settled", "shipped", "forge", "over"}
  /\ criteria \subseteq Judged \union Mechanical \union {Late}
  /\ ended \in {"none", "archived", "failed", "empty"}
  /\ indexed \in BOOLEAN /\ checks \in Ran
  /\ review # Nothing => /\ review.verdict \in Verdicts /\ review.findings \in Findings
                         /\ \A c \in DOMAIN review.criteria : review.criteria[c] \in Statuses
  /\ settled.status \in {"running", "review_ok", "review_ko", "waiting_for_you"}
  /\ settled.way \in {"none", "gates", "loop", "person", "boot"} /\ step \in BOOLEAN
  /\ outcome.kind \in {"none", "held", "refused", "failed", "merged"}

\* What the diff or a fact shows of a criterion.
Shown(c) ==
  /\ c \in DOMAIN said /\ said[c].status = "met"
  /\ c \in Mechanical \/ (indexed /\ said[c].evidence = "anchored")

\* Whatever way the task was shipped - the gates, the waiver, the end of the
\* loop, a person, a boot - an automatic merge lands only what its last archived
\* review was shown: every criterion of a list that is not empty, by a line of
\* the diff or by a fact; no major finding; green checks, or consent where there
\* are none; a branch that holds its target.
MergedIsProven ==
  outcome.kind = "merged" =>
    /\ criteria # {} /\ \A c \in criteria : Shown(c)
    /\ review # Nothing /\ review.verdict # "request_changes" /\ review.findings \notin Blocking
    /\ checks = "passed" \/ (checks = "unconfigured" /\ branch.consent)
    /\ branch.current

\* An automatic merge reads the archive without asking which turn it is of.  That
\* archive is this turn's, unless nothing of the task is left in the diff, or a
\* person has shipped a turn whose review failed.
StaleNeedsAPerson ==
  outcome.kind = "merged" => ended \in {"archived", "empty"} \/ settled.way = "person"

\* What the gates let through with nobody looking had its review, unless there was
\* nothing to look at; it may carry a doubt, never a claim that failed: no
\* criterion passed over, none unmet, no quote that is not in the diff, no major
\* finding, no red check.
LetThroughIsSincere ==
  settled.way = "gates" =>
    /\ checks # "failed"
    /\ ended \in {"archived", "empty"}
    /\ ended = "archived" =>
         /\ review.findings \notin Blocking
         /\ \A c \in DOMAIN said :
              /\ said[c] # Silence /\ said[c].status # "unmet"
              /\ said[c].evidence # "none" => indexed /\ said[c].evidence = "anchored"
              /\ said[c].status = "met" => Shown(c)

\* The merge reads the archive as the review did: what the machine shipped by
\* itself over a review of this turn is refused over its criteria only for a
\* doubt that was let through, or for a criterion that came after the review.
RefusedForCause ==
  (outcome.kind = "refused" /\ settled.way \in {"gates", "loop"} /\ ended = "archived") =>
    /\ outcome.code = "criteria_unmet" => \E c \in criteria : c \notin DOMAIN said
    /\ outcome.code = "criteria_judgment_open" =>
         /\ \E c \in criteria : ~Shown(c)
         /\ criteriaBlockKind(criteria, review.criteria) = "judgment_open"
    /\ outcome.code = "checks_failed" => settled.way = "loop"

\* Whatever shipped the task, an automatic merge lands only what its last archived
\* review was shown, and no review but this turn's unless the diff is empty or a
\* person let it through; what the gates let through with nobody looking carries
\* no claim that failed; and the merge refuses what they let through only over a
\* doubt, or a criterion that came later (task-review.ts, task-merge.ts).
MergeIsEarned ==
  /\ TypeOK /\ MergedIsProven /\ StaleNeedsAPerson
  /\ LetThroughIsSincere /\ RefusedForCause

\* The comment of the fourth condition: merging adds no surprise the review never
\* saw, so what lands was reviewed as it is.
MergedIsOfThisTurn ==
  outcome.kind = "merged" => ended \in {"archived", "empty"}

\* The doc of criteriaBlockKind: an open judgment has nothing unmet and nothing
\* unjudged in it.
OpenIsJudged ==
  settled.way = "loop" => \A c \in DOMAIN said : said[c] # Silence

\* The doc of settle: a red run never becomes review_ok, even for a millisecond.
RedIsNeverOk ==
  settled.status = "review_ok" => ~checksBlockReady(checks)

\* The comment over the marker: it is set on the exact condition ship() chains
\* on, so what a boot ships for it is review_ok.
BootShipsTheApproved ==
  settled.way # "boot"

\* The comment over the waiver: a verdict label must not block again a task
\* the gate has cleared.
ClearedIsNotReblocked ==
  (outcome.kind = "refused" /\ settled.way = "gates") => outcome.code # "review_blocked"

=============================================================================
