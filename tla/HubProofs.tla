------------------------------ MODULE HubProofs ------------------------------
(***************************************************************************)
(* What leaves this machine: an automatic merge is earned, for any criteria *)
(* and any answers of the reviewer; the hub shows what has its proof,       *)
(* whatever is late, lost or replayed; and what its outbox is handed does   *)
(* not vanish.                                                              *)
(***************************************************************************)
EXTENDS MCHub, SelectionProofs

-----------------------------------------------------------------------------
(* The gates before a merge (MergeGate) *)

Stages == {"turn", "reviewed", "written", "settled", "shipped", "forge", "over"}

\* What one criterion of the archive reads: the fact, or the grounded word.
Entry(c) ==
  IF c \in Mechanical THEN said[c].status
  ELSE IF said[c] = Silence THEN "unclear"
  ELSE groundCriterionVerdicts(said[c], indexed)

\* An archive is what came back on the criteria there were, grounded; a criterion
\* may have come since.
Archived ==
  /\ DOMAIN said \subseteq Judged \union Mechanical \union {Late}
  /\ criteria \in {DOMAIN said, DOMAIN said \union {Late}}
  /\ stage \in {"reviewed", "written"} /\ ended = "archived" => criteria = DOMAIN said
  /\ \A c \in DOMAIN said :
       /\ said[c] \in Words \union {Silence}
       /\ c \in Mechanical => said[c].status \in {"met", "unmet"} /\ said[c].evidence = "none"
  /\ review.verdict \in Verdicts /\ review.findings \in Findings
  /\ DOMAIN review.criteria = DOMAIN said
  /\ \A c \in DOMAIN said : review.criteria[c] = Entry(c)

\* What the gates, or the end of the loop, let through.
LetThrough ==
  /\ settled.way = "gates" => checks # "failed" /\ ended \in {"archived", "empty"}
  /\ settled.way = "gates" /\ ended = "archived" =>
       /\ ~hasBlockingFindings(review)
       /\ \/ \A c \in DOMAIN said : review.criteria[c] = "met"
          \/ /\ indexed
             /\ \A c \in DOMAIN said :
                  /\ review.criteria[c] # "unmet"
                  /\ c \notin Mechanical =>
                       /\ said[c] # Silence /\ ~Demotes(said[c], indexed)
                       /\ said[c].evidence # "none" => Grounded(said[c], indexed)
  /\ settled.way = "loop" =>
       ended = "archived" /\ \A c \in DOMAIN said : review.criteria[c] # "unmet"

\* A failed review is a KO with no marker: it takes a person to ship it.
FailedIsKo ==
  /\ ended = "archived" => review # Nothing
  /\ ended \in {"none", "failed"} => ~step /\ settled.status # "review_ok"
  /\ stage \in {"shipped", "forge", "over"} =>
       ended # "none" /\ (ended = "failed" => settled.way = "person")

\* The four conditions hold, over the consent and the branch that were read.
Cleared ==
  /\ reviewCondition = "none" /\ checksCondition(branch.consent) = "none"
  /\ criteriaCondition = "none" /\ branch.current

\* The refusal names a condition that does not hold.
Refused ==
  outcome.code \in {reviewCondition, checksCondition(branch.consent), criteriaCondition,
                    "branch_diverged", "merge_strategy_unconfigured"}

Typed ==
  /\ stage \in Stages /\ ended \in {"none", "archived", "failed", "empty"}
  /\ indexed \in BOOLEAN /\ checks \in Ran /\ step \in BOOLEAN
  /\ criteria \subseteq Judged \union Mechanical \union {Late}
  /\ "way" \in DOMAIN settled
  /\ settled.status \in {"running", "review_ok", "review_ko", "waiting_for_you"}
  /\ settled.way \in {"none", "gates", "loop", "person", "boot"}
  /\ outcome.kind \in {"none", "held", "refused", "failed", "merged"}

IInv ==
  /\ Typed
  /\ stage \in {"turn", "reviewed"} => settled = Unsettled
  /\ stage = "turn" <=> ended = "none"
  /\ review # Nothing => Archived
  /\ LetThrough /\ FailedIsKo
  /\ stage = "forge" \/ outcome.kind = "merged" => Cleared
  /\ stage # "over" => outcome.kind = "none"
  /\ outcome.kind = "refused" => Refused

-----------------------------------------------------------------------------
\* A word is a verdict with a quote, one that is lost, or none.
LEMMA WordsTyped ==
  \A w \in Words \union {Silence} : w # Silence => w.status \in Statuses /\ w.evidence \in Evidence
BY DEF Words, Silence

\* A criterion that reads 'met' was shown; one that reads 'unclear' was not.
LEMMA EntryShows ==
  ASSUME Archived, NEW c \in DOMAIN said
  PROVE  /\ Entry(c) \in Statuses
         /\ Entry(c) = "met" => Shown(c)
         /\ Entry(c) = "unclear" => ~Shown(c)
<1>1. said[c] \in Words \union {Silence}
  BY DEF Archived
<1>2. CASE c \in Mechanical
  BY <1>2 DEF Archived, Entry, Shown, Statuses
<1>3. CASE c \notin Mechanical /\ said[c] = Silence
  BY <1>3 DEF Entry, Shown, Silence, Statuses
<1>4. CASE c \notin Mechanical /\ said[c] # Silence
  <2>1. said[c].status \in Statuses /\ said[c].evidence \in Evidence
    BY <1>1, <1>4, WordsTyped
  <2>2. Entry(c) = groundCriterionVerdicts(said[c], indexed)
    BY <1>4 DEF Entry
  <2> QED
    BY <1>4, <2>1, <2>2 DEF groundCriterionVerdicts, Demotes, Grounded, Shown, Statuses, Evidence
<1> QED
  BY <1>2, <1>3, <1>4

\* Whatever the reviewer and the facts say, it is archived grounded.
LEMMA ReviewArchives ==
  ASSUME IInv, stage = "turn", NEW words \in Said, NEW verdict \in Verdicts,
         NEW worst \in Findings, NEW legible \in BOOLEAN,
         Reviews(words, verdict, worst, legible)
  PROVE  Archived' /\ review' # Nothing
<1>1. /\ stage' = "reviewed" /\ ended' = "archived" /\ said' = words /\ indexed' = legible /\ criteria' = criteria
      /\ review' = [verdict |-> groundReview(verdict, worst, legible), findings |-> worst,
                    criteria |-> combineCriteriaOutcomes(words, legible)]
  BY DEF Reviews
<1>2. /\ words \in [criteria -> Words \union {Silence}]
      /\ \A c \in criteria \cap Mechanical :
           words[c].status \in {"met", "unmet"} /\ words[c].evidence = "none"
  BY DEF Said, judged
<1>3. DOMAIN words = criteria /\ criteria \subseteq Judged \union Mechanical \union {Late}
  BY <1>2 DEF IInv, Typed
<1>4. review'.verdict \in Verdicts /\ review'.findings \in Findings
  BY <1>1 DEF groundReview, Verdicts
<1>5. review'.criteria = combineCriteriaOutcomes(words, legible)
  BY <1>1
<1>6. /\ DOMAIN review'.criteria = criteria
      /\ \A c \in criteria : review'.criteria[c] = Entry(c)'
  BY <1>1, <1>5 DEF combineCriteriaOutcomes, resolveCriteria, judged, Entry
<1>7. review' # Nothing
  BY <1>4 DEF Nothing, Verdicts
<1> QED
  BY <1>1, <1>2, <1>3, <1>4, <1>6, <1>7 DEF Archived

\* What no gate blocks had nothing to look at, or was approved or waived: no major
\* finding, no red check, and each criterion met, or left to a doubt that the
\* reviewer has stated.  A review that failed blocks.
LEMMA GatesSettle ==
  ASSUME IInv, NEW run \in Ran, NEW verification \in BOOLEAN, NEW spent \in BOOLEAN,
         Settles(run, verification, spent)
  PROVE  LetThrough' /\ Typed' /\ FailedIsKo'
<1>1. /\ stage = "reviewed" /\ ended \in {"archived", "failed", "empty"}
      /\ ended = "archived" =>
           Archived /\ criteria = DOMAIN said /\ DOMAIN review.criteria = criteria
      /\ checks' = run /\ stage' = "written"
      /\ settled' = Decided(Gates(Blocks, run, verification), spent)
      /\ step' = (settled'.status = "review_ok")
      /\ UNCHANGED <<criteria, ended, said, indexed, review, branch, outcome>>
  BY DEF IInv, Typed, FailedIsKo, Settles, Archived
<1> DEFINE code == Gates(Blocks, run, verification)
<1>2. /\ (settled'.way = "gates" \/ (settled'.status = "review_ok" /\ settled'.way # "loop"))
           => code = "none"
      /\ settled'.way = "loop" =>
           ended = "archived" /\ criteriaBlockKind(criteria, review.criteria) = "judgment_open"
      /\ "way" \in DOMAIN settled' /\ settled'.way \in {"none", "gates", "loop"}
      /\ settled'.status \in {"review_ok", "review_ko", "waiting_for_you"}
  <2> HIDE DEF code
  <2>1. settled' = Decided(code, spent)
    BY <1>1 DEF code
  <2> QED
    BY <2>1 DEF Decided
<1>3. ASSUME code = "none"
      PROVE  run # "failed" /\ Blocks = "none" /\ ended \in {"archived", "empty"}
  <2>1. Blocks = "none" /\ run # "failed"
    BY <1>3 DEF Gates, checksBlockReady
  <2> QED
    BY <1>1, <2>1 DEF Blocks
<1>4. ASSUME code = "none", ended = "archived"
      PROVE  /\ ~hasBlockingFindings(review)
             /\ Satisfied(review.criteria) \/ criteriaGateWaivable
  <2>1. ReviewBlocks = "none"
    BY <1>3, <1>4 DEF Blocks
  <2>2. taskReviewVerdict(review) \in {"review_ok", "review_ko"}
    BY <1>1, <1>4 DEF Archived, Verdicts, taskReviewVerdict
  <2>3. /\ ~(taskReviewVerdict(review) = "review_ok" /\ hasBlockingFindings(review))
        /\ taskReviewVerdict(review) = "review_ok" => Satisfied(review.criteria) \/ criteriaWaived
        /\ taskReviewVerdict(review) = "review_ko" => criteriaWaived
    BY <2>1 DEF ReviewBlocks
  <2> QED
    BY <2>2, <2>3 DEF criteriaWaived
<1>5. ASSUME ended = "archived", Satisfied(review.criteria)
      PROVE  \A c \in DOMAIN said : review.criteria[c] = "met"
  BY <1>1, <1>5 DEF Satisfied
<1>6. ASSUME ended = "archived", criteriaGateWaivable
      PROVE  /\ indexed
             /\ \A c \in DOMAIN said :
                  /\ review.criteria[c] # "unmet"
                  /\ c \notin Mechanical =>
                       /\ said[c] # Silence /\ ~Demotes(said[c], indexed)
                       /\ said[c].evidence # "none" => Grounded(said[c], indexed)
  BY <1>1, <1>6 DEF criteriaGateWaivable, judged
<1>7. ASSUME ended = "archived", criteriaBlockKind(criteria, review.criteria) = "judgment_open"
      PROVE  \A c \in DOMAIN said : review.criteria[c] # "unmet"
  BY <1>1, <1>7 DEF criteriaBlockKind
<1> HIDE DEF code
<1>8. hasBlockingFindings(review)' = hasBlockingFindings(review)
  BY <1>1 DEF hasBlockingFindings
<1>9. LetThrough'
  <2>1. settled'.way = "gates" => checks' # "failed" /\ ended' \in {"archived", "empty"}
    BY <1>1, <1>2, <1>3
  <2>2. ASSUME settled'.way = "gates", ended' = "archived"
        PROVE  /\ ~hasBlockingFindings(review)'
               /\ Satisfied(review.criteria) \/ criteriaGateWaivable
    BY <1>1, <1>2, <1>4, <1>8, <2>2
  <2>3. settled'.way = "loop" =>
          ended' = "archived" /\ \A c \in DOMAIN said : review.criteria[c] # "unmet"
    BY <1>1, <1>2, <1>7
  <2> QED
    BY <1>1, <1>5, <1>6, <2>1, <2>2, <2>3 DEF LetThrough
<1>10. Typed'
  BY <1>1, <1>2 DEF IInv, Typed, Stages
<1>11. FailedIsKo'
  BY <1>1, <1>2, <1>3 DEF IInv, FailedIsKo
<1> QED
  BY <1>9, <1>10, <1>11

\* The merge is not asked of the forge over a condition that does not hold, and
\* its refusal names one.
LEMMA MergeReads ==
  ASSUME IInv, NEW auto, NEW strategy \in BOOLEAN, NEW consent \in BOOLEAN, NEW ancestry,
         MergeTask(auto, strategy, consent, ancestry)
  PROVE  /\ stage' \in {"forge", "over"} /\ stage = "shipped"
         /\ stage' = "forge" => Cleared' /\ outcome' = outcome
         /\ stage' = "over" => outcome'.kind \in {"held", "refused"}
         /\ outcome'.kind = "refused" => Refused'
<1> DEFINE conditions == mergeReadiness(consent, ancestry)
           ready == Blockers(conditions) = {}
<1>1. /\ stage = "shipped" /\ outcome.kind = "none"
      /\ branch' = [current |-> ancestry = "up_to_date", consent |-> consent]
      /\ UNCHANGED <<criteria, ended, said, indexed, review, checks, verified, settled, step>>
  BY DEF MergeTask, IInv
<1>2. branch'.consent = consent /\ branch'.current = (ancestry = "up_to_date")
  BY <1>1
<1>3. \/ stage' = "over" /\ outcome' = [kind |-> "held", code |-> "none"]
      \/ ~ready /\ stage' = "over" /\ outcome' = [kind |-> "refused", code |-> Refusal(conditions)]
      \/ /\ ready /\ stage' = "over"
         /\ outcome' = [kind |-> "refused", code |-> "merge_strategy_unconfigured"]
      \/ ready /\ stage' = "forge" /\ outcome' = outcome
  BY DEF MergeTask, Ends
<1>4. /\ DOMAIN conditions = 1 .. 4
      /\ conditions[1] = reviewCondition /\ conditions[2] = checksCondition(consent)
      /\ conditions[3] = criteriaCondition /\ conditions[4] = branchCondition(ancestry)
  BY DEF mergeReadiness
<1>5. /\ reviewCondition' = reviewCondition /\ criteriaCondition' = criteriaCondition
      /\ checksCondition(branch.consent)' = checksCondition(consent)
  BY <1>1, <1>2 DEF reviewCondition, criteriaCondition, checksCondition, hasBlockingFindings,
                    taskReviewVerdict
<1> HIDE DEF conditions
<1>6. ready => Cleared'
  <2> SUFFICES ASSUME ready PROVE Cleared'
    OBVIOUS
  <2>1. \A i \in 1 .. 4 : conditions[i] = "none"
    BY <1>4 DEF Blockers
  <2>2. /\ reviewCondition = "none" /\ checksCondition(consent) = "none"
        /\ criteriaCondition = "none" /\ branchCondition(ancestry) = "none"
    BY <1>4, <2>1
  <2>3. branch'.current
    BY <1>2, <2>2 DEF branchCondition
  <2> QED
    BY <1>5, <2>2, <2>3 DEF Cleared
<1>7. ~ready => Refusal(conditions) \in {conditions[1], conditions[2], conditions[3],
                                          "branch_diverged"}
  <2> SUFFICES ASSUME ~ready PROVE Refusal(conditions) \in {conditions[1], conditions[2],
                                     conditions[3], "branch_diverged"}
    OBVIOUS
  <2>1. \E i \in Blockers(conditions) : \A j \in Blockers(conditions) : i <= j
    BY <1>4 DEF Blockers
  <2>2. PICK i \in Blockers(conditions) : Refusal(conditions) = conditions[i]
    BY <2>1 DEF Refusal
  <2>3. i \in 1 .. 4 /\ conditions[i] # "none"
    BY <1>4 DEF Blockers
  <2> QED
    BY <1>4, <2>2, <2>3 DEF branchCondition
<1>8. outcome'.kind = "refused" => Refused'
  BY <1>1, <1>3, <1>4, <1>5, <1>7 DEF Refused
<1> QED
  BY <1>1, <1>3, <1>6, <1>8

\* The steps at which nothing but the stage and the record move.
LEMMA Kept ==
  ASSUME IInv, UNCHANGED <<criteria, ended, said, indexed, review, branch, outcome, checks>>,
         stage' \in {"reviewed", "written"} => stage \in {"reviewed", "written"}
  PROVE  /\ (review # Nothing => Archived)'
         /\ settled'.way \in {settled.way, "none", "person", "boot"} => LetThrough'
         /\ Cleared => Cleared'
         /\ Refused => Refused'
<1>1. (review # Nothing => Archived)'
  BY DEF IInv, Archived, Entry
<1>2. settled'.way \in {settled.way, "none", "person", "boot"} => LetThrough'
  BY DEF IInv, LetThrough, hasBlockingFindings
<1>3. /\ reviewCondition' = reviewCondition /\ criteriaCondition' = criteriaCondition
      /\ checksCondition(branch.consent)' = checksCondition(branch.consent)
  BY DEF reviewCondition, criteriaCondition, checksCondition, hasBlockingFindings,
         taskReviewVerdict
<1> QED
  BY <1>1, <1>2, <1>3 DEF Cleared, Refused

LEMMA InitIInv == Init => IInv
<1> SUFFICES ASSUME Init PROVE IInv
  OBVIOUS
<1>1. /\ stage = "turn" /\ ended = "none" /\ indexed = TRUE /\ checks = "none" /\ step = FALSE
      /\ settled = Unsettled /\ outcome = [kind |-> "none", code |-> "none"]
      /\ review = Nothing
  BY DEF Init
<1>2. criteria \subseteq Judged \union Mechanical \union {Late}
  BY DEF Init
<1>3. /\ "way" \in DOMAIN settled /\ settled.status = "running" /\ settled.way = "none"
      /\ outcome.kind = "none"
  BY <1>1 DEF Unsettled
<1> QED
  BY <1>1, <1>2, <1>3 DEF IInv, Typed, Stages, Ran, LetThrough, FailedIsKo

LEMMA NextIInv ==
  ASSUME IInv, [Next]_vars
  PROVE  IInv'
<1>1. ASSUME NEW words \in Said, NEW verdict \in Verdicts, NEW worst \in Findings,
             NEW legible \in BOOLEAN, stage = "turn", Reviews(words, verdict, worst, legible)
      PROVE  IInv'
  <2>1. Archived' /\ review' # Nothing
    BY <1>1, ReviewArchives
  <2>2. /\ stage' = "reviewed" /\ ended' = "archived" /\ settled' = settled
        /\ settled = Unsettled /\ outcome' = outcome /\ outcome.kind = "none"
        /\ criteria' = criteria /\ indexed' = legible /\ checks' = checks /\ step' = step
    BY <1>1 DEF Reviews, IInv
  <2>3. LetThrough'
    BY <2>2 DEF LetThrough, Unsettled
  <2> QED
    BY <2>1, <2>2, <2>3 DEF IInv, Typed, Stages, FailedIsKo
<1>2. CASE ReviewFails \/ NothingChanged
  <2>1. /\ stage = "turn" /\ stage' = "reviewed" /\ ended = "none"
        /\ ended' = "failed" \/ ended' = "empty"
        /\ settled' = settled /\ settled = Unsettled /\ outcome.kind = "none"
        /\ UNCHANGED <<criteria, said, indexed, review, checks, step, branch, outcome>>
    BY <1>2 DEF ReviewFails, NothingChanged, IInv
  <2>2. ~step
    BY <2>1 DEF IInv, FailedIsKo
  <2>3. (review # Nothing => Archived)'
    BY <2>1 DEF IInv, Archived, Entry
  <2>4. LetThrough' /\ FailedIsKo'
    BY <2>1, <2>2 DEF LetThrough, FailedIsKo, Unsettled
  <2> QED
    BY <2>1, <2>3, <2>4 DEF IInv, Typed, Stages
<1>3. ASSUME NEW run \in Ran, NEW verification \in BOOLEAN, NEW spent \in BOOLEAN,
             Settles(run, verification, spent)
      PROVE  IInv'
  <2>1. LetThrough' /\ Typed' /\ FailedIsKo'
    BY <1>3, GatesSettle
  <2>2. /\ stage = "reviewed" /\ stage' = "written" /\ outcome' = outcome /\ outcome.kind = "none"
        /\ UNCHANGED <<criteria, ended, said, indexed, review>>
    BY <1>3 DEF Settles, IInv
  <2>3. (review # Nothing => Archived)'
    BY <2>2 DEF IInv, Archived, Entry
  <2> QED
    BY <2>1, <2>2, <2>3 DEF IInv
<1>4. CASE Regates
  <2>1. /\ stage = "written" /\ stage' = "settled"
        /\ UNCHANGED <<criteria, ended, said, indexed, review, checks, step, branch, outcome>>
        /\ \/ settled' = settled
           \/ \E code : settled' = [status |-> "review_ko", code |-> code, way |-> "none"]
    BY <1>4 DEF Regates
  <2>2. /\ settled'.way \in {settled.way, "none"}
        /\ settled'.status \in {settled.status, "review_ko"}
    BY <2>1
  <2>3. (review # Nothing => Archived)' /\ LetThrough'
    BY <2>1, <2>2, Kept
  <2>4. FailedIsKo'
    BY <2>1, <2>2 DEF IInv, FailedIsKo
  <2> QED
    BY <2>1, <2>2, <2>3, <2>4 DEF IInv, Typed, Stages
<1>5. CASE AnotherTurn
  <2>1. /\ stage = "settled" /\ stage' = "turn" /\ settled' = Unsettled /\ ended' = "none"
        /\ checks' = "none" /\ step' = FALSE /\ outcome.kind = "none"
        /\ UNCHANGED <<criteria, said, indexed, review, branch, outcome>>
    BY <1>5 DEF AnotherTurn, IInv
  <2>2. (review # Nothing => Archived)'
    BY <2>1 DEF IInv, Archived, Entry
  <2>3. LetThrough' /\ FailedIsKo'
    BY <2>1 DEF LetThrough, FailedIsKo, Unsettled
  <2> QED
    BY <2>1, <2>2, <2>3 DEF IInv, Typed, Stages, Ran, Unsettled
<1>6. CASE Validates
  <2>1. /\ stage \in {"settled", "shipped"} /\ criteria' = criteria \union {Late}
        /\ UNCHANGED <<stage, ended, said, indexed, review, checks, settled, step, branch, outcome>>
        /\ outcome.kind = "none"
    BY <1>6 DEF Validates, IInv
  <2>2. (review # Nothing => Archived)'
    BY <2>1 DEF IInv, Archived, Entry
  <2>3. LetThrough' /\ FailedIsKo'
    BY <2>1 DEF IInv, LetThrough, FailedIsKo, hasBlockingFindings
  <2> QED
    BY <2>1, <2>2, <2>3 DEF IInv, Typed
<1>7. CASE AutoShips \/ PersonShips \/ BootShips
  <2>1. PICK way \in {"gates", "person", "boot"} :
          /\ ShippedBy(way) /\ stage \in {"written", "settled"}
          /\ way = "gates" => settled.status = "review_ok"
          /\ way = "boot" => step
    BY <1>7 DEF AutoShips, PersonShips, BootShips
  <2>2. /\ stage' = "shipped" /\ step' = FALSE
        /\ UNCHANGED <<criteria, ended, said, indexed, review, checks, branch, outcome>>
        /\ settled' = [settled EXCEPT !.way = IF settled.status = "review_ok"
                                                THEN settled.way ELSE way]
    BY <2>1 DEF ShippedBy
  <2>3. /\ settled'.way \in {settled.way, "person", "boot"}
        /\ settled'.status = settled.status
        /\ settled.status # "review_ok" => settled'.way = way
    BY <2>1, <2>2 DEF IInv, Typed
  <2>4. (review # Nothing => Archived)' /\ LetThrough'
    BY <2>1, <2>2, <2>3, Kept
  <2>5. FailedIsKo'
    BY <2>1, <2>2, <2>3 DEF IInv, FailedIsKo
  <2> QED
    BY <2>1, <2>2, <2>3, <2>4, <2>5 DEF IInv, Typed, Stages
<1>8. ASSUME NEW auto, NEW strategy \in BOOLEAN, NEW consent \in BOOLEAN, NEW ancestry,
             MergeTask(auto, strategy, consent, ancestry)
      PROVE  IInv'
  <2>1. /\ stage' \in {"forge", "over"} /\ stage = "shipped"
        /\ stage' = "forge" => Cleared' /\ outcome' = outcome
        /\ stage' = "over" => outcome'.kind \in {"held", "refused"}
        /\ outcome'.kind = "refused" => Refused'
    BY <1>8, MergeReads
  <2>2. UNCHANGED <<criteria, ended, said, indexed, review, checks, verified, settled, step>>
    BY <1>8 DEF MergeTask
  <2>3. (review # Nothing => Archived)'
    BY <2>1, <2>2 DEF IInv, Archived, Entry
  <2>4. LetThrough' /\ FailedIsKo'
    BY <2>1, <2>2 DEF IInv, LetThrough, FailedIsKo, hasBlockingFindings
  <2> QED
    BY <2>1, <2>2, <2>3, <2>4 DEF IInv, Typed, Stages
<1>9. ASSUME NEW hint, NEW gh, NEW glab, MergeCalls(hint, gh, glab)
      PROVE  IInv'
  <2>1. /\ stage = "forge" /\ stage' = "over" /\ outcome'.kind \in {"merged", "failed"}
        /\ UNCHANGED <<criteria, ended, said, indexed, review, checks, verified, settled, step,
                       branch>>
    BY <1>9 DEF MergeCalls, Ends
  <2>2. (review # Nothing => Archived)'
    BY <2>1 DEF IInv, Archived, Entry
  <2>3. LetThrough' /\ FailedIsKo'
    BY <2>1 DEF IInv, LetThrough, FailedIsKo, hasBlockingFindings
  <2>4. Cleared'
    BY <2>1 DEF IInv, Cleared, reviewCondition, criteriaCondition, checksCondition,
                hasBlockingFindings, taskReviewVerdict
  <2> QED
    BY <2>1, <2>2, <2>3, <2>4 DEF IInv, Typed, Stages
<1>10. CASE UNCHANGED vars
  <2>1. UNCHANGED <<stage, criteria, ended, said, indexed, review, checks, settled, step, branch,
                    outcome>>
    BY <1>10 DEF vars
  <2>2. /\ (review # Nothing => Archived)' /\ LetThrough'
        /\ Cleared => Cleared'
        /\ Refused => Refused'
    BY <2>1, Kept
  <2>3. FailedIsKo'
    BY <2>1 DEF IInv, FailedIsKo
  <2> QED
    BY <2>1, <2>2, <2>3 DEF IInv, Typed
<1> QED
  BY <1>1, <1>2, <1>3, <1>4, <1>5, <1>6, <1>7, <1>8, <1>9, <1>10 DEF Next

-----------------------------------------------------------------------------
\* What was cleared is proven.
LEMMA ClearedIsProven == IInv => MergedIsProven
<1> SUFFICES ASSUME IInv, outcome.kind = "merged"
             PROVE  /\ criteria # {} /\ \A c \in criteria : Shown(c)
                    /\ review # Nothing
                    /\ review.verdict # "request_changes" /\ review.findings \notin Blocking
                    /\ checks = "passed" \/ (checks = "unconfigured" /\ branch.consent)
                    /\ branch.current
  BY DEF MergedIsProven
<1>1. stage = "over" /\ Cleared /\ review # Nothing /\ Archived
  BY DEF IInv, Cleared, reviewCondition
<1>2. checks = "passed" \/ (checks = "unconfigured" /\ branch.consent)
  BY <1>1 DEF IInv, Typed, Ran, Cleared, checksCondition
<1>3. review.findings \notin Blocking /\ review.verdict # "request_changes"
  BY <1>1 DEF Cleared, reviewCondition, hasBlockingFindings, taskReviewVerdict
<1>4. /\ criteria # {}
      /\ \A c \in criteria : c \in DOMAIN review.criteria /\ review.criteria[c] = "met"
  BY <1>1 DEF Cleared, criteriaCondition
<1>5. \A c \in criteria : Shown(c)
  BY <1>1, <1>4, EntryShows DEF Archived
<1> QED
  BY <1>1, <1>2, <1>3, <1>4, <1>5 DEF Cleared

LEMMA StaleIsAPersons == IInv => StaleNeedsAPerson
BY DEF IInv, Typed, FailedIsKo, StaleNeedsAPerson

LEMMA GatesAreSincere == IInv => LetThroughIsSincere
<1>0. IInv /\ settled.way = "gates" => checks # "failed" /\ ended \in {"archived", "empty"}
  BY DEF IInv, LetThrough
<1> SUFFICES ASSUME IInv, settled.way = "gates", ended = "archived"
             PROVE  /\ \A c \in DOMAIN said :
                         /\ said[c] # Silence /\ said[c].status # "unmet"
                         /\ said[c].evidence # "none" => indexed /\ said[c].evidence = "anchored"
                         /\ said[c].status = "met" => Shown(c)
                    /\ review.findings \notin Blocking
  BY <1>0 DEF LetThroughIsSincere
<1>1. Archived /\ LetThrough
  BY DEF IInv, FailedIsKo
<1>2. review.findings \notin Blocking
  BY <1>1 DEF LetThrough, hasBlockingFindings
<1>3. ASSUME NEW c \in DOMAIN said
      PROVE  /\ said[c] # Silence /\ said[c].status # "unmet"
             /\ said[c].evidence # "none" => indexed /\ said[c].evidence = "anchored"
             /\ said[c].status = "met" => Shown(c)
  <2>1. /\ review.criteria[c] = Entry(c) /\ review.criteria[c] # "unmet"
        /\ said[c] \in Words \union {Silence}
    BY <1>1, <1>3 DEF Archived, LetThrough
  <2>2. CASE c \in Mechanical
    BY <1>1, <1>3, <2>1, <2>2 DEF Archived, Entry, Silence, Shown
  <2>3. CASE c \notin Mechanical
    <3>1. /\ said[c] # Silence /\ ~Demotes(said[c], indexed)
          /\ said[c].evidence # "none" => Grounded(said[c], indexed)
      <4>1. CASE review.criteria[c] = "met"
        BY <1>1, <1>3, <2>1, <2>3, <4>1
        DEF Entry, groundCriterionVerdicts, Demotes, Grounded
      <4>2. CASE review.criteria[c] # "met"
        BY <1>1, <1>3, <2>3, <4>2 DEF LetThrough
      <4> QED
        BY <4>1, <4>2
    <3>2. said[c].status = Entry(c)
      BY <2>3, <3>1 DEF Entry, groundCriterionVerdicts
    <3> QED
      BY <1>1, <1>3, <2>1, <3>1, <3>2, EntryShows DEF Grounded
  <2> QED
    BY <2>2, <2>3
<1> QED
  BY <1>2, <1>3

LEMMA RefusalsHaveCause == IInv => RefusedForCause
<1> SUFFICES ASSUME IInv, outcome.kind = "refused", settled.way \in {"gates", "loop"},
                    ended = "archived"
             PROVE  /\ outcome.code = "criteria_unmet" => \E c \in criteria : c \notin DOMAIN said
                    /\ outcome.code = "criteria_judgment_open" =>
                         /\ \E c \in criteria : ~Shown(c)
                         /\ criteriaBlockKind(criteria, review.criteria) = "judgment_open"
                    /\ outcome.code = "checks_failed" => settled.way = "loop"
  BY DEF RefusedForCause
<1>1. stage = "over" /\ review # Nothing /\ Archived /\ LetThrough /\ Refused
  BY DEF IInv, FailedIsKo
<1>2. \A c \in DOMAIN said : /\ review.criteria[c] # "unmet" /\ review.criteria[c] = Entry(c)
                             /\ c \in DOMAIN review.criteria
  BY <1>1 DEF Archived, LetThrough
<1>3. /\ reviewCondition \in {"none", "review_blocked"}
      /\ checksCondition(branch.consent) \in {"none", "checks_unavailable", "checks_failed"}
      /\ checksCondition(branch.consent) = "checks_failed" => checks = "failed"
      /\ criteriaCondition \in {"none", "criteria_missing", "criteria_unmet",
                                "criteria_judgment_open"}
  BY DEF reviewCondition, checksCondition, criteriaCondition, IInv, Typed, Ran
<1>4. outcome.code = "checks_failed" => settled.way = "loop"
  BY <1>1, <1>3 DEF Refused, LetThrough
<1>5. ASSUME criteriaCondition = "criteria_unmet"
      PROVE  \E c \in criteria : c \notin DOMAIN said
  <2> DEFINE of(c) == IF c \in DOMAIN review.criteria THEN review.criteria[c] ELSE "unjudged"
  <2>1. \E c \in criteria : of(c) \in {"unmet", "unjudged"}
    BY <1>5 DEF criteriaCondition
  <2>2. PICK c \in criteria : of(c) \in {"unmet", "unjudged"}
    BY <2>1
  <2>3. c \in DOMAIN said => of(c) = Entry(c) /\ Entry(c) \in Statuses /\ of(c) # "unmet"
    BY <1>1, <1>2, EntryShows
  <2> QED
    BY <2>2, <2>3 DEF Statuses
<1>6. ASSUME criteriaCondition = "criteria_judgment_open"
      PROVE  /\ \E c \in criteria : ~Shown(c)
             /\ criteriaBlockKind(criteria, review.criteria) = "judgment_open"
  <2> DEFINE of(c) == IF c \in DOMAIN review.criteria THEN review.criteria[c] ELSE "unjudged"
  <2>1. /\ \A c \in criteria : of(c) \notin {"unmet", "unjudged"}
        /\ \E c \in criteria : of(c) # "met"
    BY <1>6 DEF criteriaCondition
  <2>2. \A c \in criteria : /\ c \in DOMAIN review.criteria /\ c \in DOMAIN said
                            /\ review.criteria[c] # "unmet"
    BY <1>1, <2>1 DEF Archived
  <2>3. PICK c \in criteria : review.criteria[c] # "met"
    BY <2>1, <2>2
  <2>4. Entry(c) = "unclear"
    BY <1>1, <1>2, <2>2, <2>3, EntryShows DEF Statuses
  <2>5. ~Shown(c)
    BY <1>1, <2>2, <2>4, EntryShows
  <2>6. criteriaBlockKind(criteria, review.criteria) = "judgment_open"
    BY <2>2, <2>3 DEF criteriaBlockKind
  <2> QED
    BY <2>5, <2>6
<1> QED
  BY <1>1, <1>3, <1>4, <1>5, <1>6 DEF Refused

LEMMA InvariantIsTyped == IInv => TypeOK
<1> SUFFICES ASSUME IInv PROVE TypeOK
  OBVIOUS
<1>1. criteria \subseteq Judged \union Mechanical \union {Late}
  BY DEF IInv, Typed
<1>2. ASSUME review # Nothing
      PROVE  /\ review.verdict \in Verdicts /\ review.findings \in Findings
             /\ \A c \in DOMAIN review.criteria : review.criteria[c] \in Statuses
  BY <1>2, EntryShows DEF IInv, Archived
<1> QED
  BY <1>1, <1>2 DEF IInv, Typed, Stages, TypeOK

\* An automatic merge is earned: for any criteria, however the branch came to be
\* shipped, what lands was shown to the last archived review, which is another
\* turn's only where the diff is empty or a person shipped a failed review; what the
\* gates let through alone carries no claim that failed, and the merge refuses such
\* a branch for a cause.
THEOREM AutomaticMergeIsEarned == Spec => []MergeIsEarned
<1>1. Init => IInv
  BY InitIInv
<1>2. IInv /\ [Next]_vars => IInv'
  BY NextIInv
<1>3. IInv => MergeIsEarned
  BY ClearedIsProven, StaleIsAPersons, GatesAreSincere, RefusalsHaveCause, InvariantIsTyped
  DEF MergeIsEarned
<1> QED
  BY <1>1, <1>2, <1>3, PTL DEF Spec

-----------------------------------------------------------------------------
(* The ticket and the reports of its task (HubTicket, as Ticket) *)

Types == {"mr_opened", "merged", "failed", "review_result"}
Claims == {"mr_opened", "done", "failed", "ready_to_merge", "none"}
Facts == {"turn", "approve", "changes", "review", "cut", "opened", "no url", "merged", "merge",
          "abandoned"}
Reports == [key : Types \X Nat, to : Claims, fact : Facts]

\* A report says what can be shown for it.
SoundReport(r) ==
  /\ r.to = "mr_opened" => ticketMr
  /\ r.to = "done" => ticketAt = "merged"

\* What is known of a ticket however late its answers are: a report stands for
\* something that happened, and what the record and its copies say was answered.
TicketInv ==
  /\ ticketAt \in Ticket!Stages /\ ticketMr \in BOOLEAN /\ passed \in BOOLEAN
  /\ ticketTurns \in Nat
  /\ issued \in Seq(Reports)
  /\ \A n \in DOMAIN issued : SoundReport(issued[n])
  /\ ticketPosting \subseteq DOMAIN issued
  /\ ticketOutbox \in Seq(DOMAIN issued)
  /\ ticketPosting \intersect Ticket!ToSet(ticketOutbox) = {} /\ Ticket!IsInjective(ticketOutbox)
  /\ history \in Seq(Ticket!ARM_TICKET_STATUSES)
  /\ hub \in {"in_progress", "mr_opened", "ready_to_merge", "done", "failed"}
  /\ Ticket!StateHasItsProof
  /\ known = "unknown" \/ known \in Ticket!ToSet(history)
  /\ held = "unknown" \/ held \in Ticket!ToSet(history)

LEMMA TicketInit == Ticket!Init => TicketInv
<1> SUFFICES ASSUME Ticket!Init PROVE TicketInv
  OBVIOUS
<1>1. issued = <<>> /\ ticketOutbox = <<>> /\ ticketPosting = {} /\ known = "unknown"
      /\ held = "unknown"
      /\ history = <<"in_progress">>
  BY DEF Ticket!Init
<1>2. issued \in Seq(Reports) /\ ticketOutbox \in Seq(DOMAIN issued)
      /\ Ticket!IsInjective(ticketOutbox)
  BY <1>1 DEF Ticket!IsInjective
<1>3. history \in Seq(Ticket!ARM_TICKET_STATUSES)
  BY <1>1 DEF Ticket!ARM_TICKET_STATUSES
<1>4. ticketPosting \intersect Ticket!ToSet(ticketOutbox) = {} /\ DOMAIN issued = {}
  BY <1>1
<1>5. ticketAt = "turn" /\ ticketTurns = 1 /\ ticketMr = FALSE /\ passed = FALSE
      /\ hub = "in_progress"
  BY DEF Ticket!Init
<1> QED
  BY <1>1, <1>2, <1>3, <1>4, <1>5 DEF TicketInv, Ticket!Stages, Ticket!StateHasItsProof

LEMMA LegalMoves ==
  /\ \A from : Ticket!isLegalTicketTransition(from, "ready_to_merge") => from = "mr_opened"
  /\ \A from \in {"in_progress", "mr_opened", "ready_to_merge", "failed"} :
       Ticket!isLegalTicketTransition(from, "mr_opened")
  /\ Ticket!isLegalTicketTransition("mr_opened", "done")
BY DEF Ticket!isLegalTicketTransition, Ticket!TICKET_TRANSITIONS

\* The hub applies a sound report: what it shows then has its proof.
LEMMA ApplyKeeps ==
  ASSUME TicketInv, NEW n \in DOMAIN issued, Ticket!HubApplies(issued[n]), UNCHANGED <<ticketAt,
      ticketMr>>
  PROVE  /\ hub' \in {"in_progress", "mr_opened", "ready_to_merge", "done", "failed"}
         /\ Ticket!StateHasItsProof'
         /\ hub' \in Ticket!ARM_TICKET_STATUSES
<1>0. issued[n] \in Reports
  BY DEF TicketInv
<1>1. SoundReport(issued[n]) /\ issued[n].to \in Claims
  BY <1>0 DEF TicketInv, Reports
<1>2. hub' = hub \/ (hub' = issued[n].to /\ issued[n].to # "none"
      /\ Ticket!isLegalTicketTransition(hub, issued[n].to))
  BY DEF Ticket!HubApplies, Ticket!Applies
<1>3. hub' \in {"in_progress", "mr_opened", "ready_to_merge", "done", "failed"}
  BY <1>1, <1>2 DEF TicketInv, SoundReport, Claims
<1>4. Ticket!StateHasItsProof'
  BY <1>1, <1>2, LegalMoves DEF TicketInv, SoundReport, Ticket!StateHasItsProof
<1> QED
  BY <1>3, <1>4 DEF Ticket!ARM_TICKET_STATUSES

\* What a step of the task does to the reports: none, or one more, which is sound.
Reported ==
  \/ UNCHANGED <<issued, ticketPosting>>
  \/ \E r : /\ issued' = Append(issued, r)
               /\ ticketPosting' = ticketPosting \union {Len(issued) + 1}
            /\ r \in Reports /\ SoundReport(r)'

LEMMA ReportIsSound ==
  ASSUME ticketTurns \in Nat, NEW type \in Types, NEW approves \in BOOLEAN, NEW proof,
         NEW fact \in Facts, NEW record,
         Ticket!Report(type, approves, proof, fact, record),
         type = "mr_opened" => ticketMr', type = "merged" => ticketAt' = "merged"
  PROVE  Reported
<1> DEFINE claimed == Ticket!targetTicketStatus(type, approves)
           r == [key |-> Ticket!Key(type), to |-> claimed, fact |-> fact]
<1>1. \/ UNCHANGED <<issued, ticketPosting>>
      \/ issued' = Append(issued, r) /\ ticketPosting' = ticketPosting \union {Len(issued) + 1}
  BY DEF Ticket!Report
<1>2. claimed \in Claims /\ (claimed = "mr_opened" => type = "mr_opened")
      /\ (claimed = "done" => type = "merged")
  BY DEF Ticket!targetTicketStatus, Types, Claims
<1>3. <<type, ticketTurns>> \in Types \X Nat
  OBVIOUS
<1>4. r \in Reports /\ r.to = claimed
  BY <1>2, <1>3 DEF Reports, Ticket!Key
<1>5. (r.to = "mr_opened" => ticketMr') /\ (r.to = "done" => ticketAt' = "merged")
  BY <1>2, <1>4
<1> HIDE DEF r
<1> QED
  BY <1>1, <1>4, <1>5 DEF Reported, SoundReport

\* A step of the task: nothing is taken back, and the record and its copy are one
\* of the two they were.
LEMMA TaskKeeps ==
  ASSUME TicketInv, ticketAt # "merged", ticketAt' \in Ticket!Stages, ticketMr' \in BOOLEAN,
      ticketMr => ticketMr',
         passed' \in BOOLEAN, ticketTurns' \in Nat, Reported,
         known' \in {known, held}, held' \in {known, held}, Ticket!HubStands,
         hub = "done" => ticketAt' = "merged"
  PROVE  TicketInv'
<1>0. \A n \in DOMAIN issued : issued[n].to # "done"
  BY DEF TicketInv, SoundReport
<1>1. /\ issued' \in Seq(Reports)
      /\ \A n \in DOMAIN issued' : SoundReport(issued[n])'
      /\ ticketPosting' \subseteq DOMAIN issued'
      /\ DOMAIN issued \subseteq DOMAIN issued'
      /\ ticketPosting' \intersect Ticket!ToSet(ticketOutbox) = {}
  <2>1. CASE UNCHANGED <<issued, ticketPosting>>
    BY <1>0, <2>1 DEF TicketInv, SoundReport
  <2>2. CASE ~UNCHANGED <<issued, ticketPosting>>
    <3>0. PICK r \in Reports : /\ issued' = Append(issued, r)
                               /\ ticketPosting' = ticketPosting \union {Len(issued) + 1}
                               /\ SoundReport(r)'
      BY <2>2 DEF Reported
    <3>1. issued' \in Seq(Reports) /\ Len(issued') = Len(issued) + 1 /\ Len(issued) \in Nat
          /\ DOMAIN issued' = 1 .. Len(issued) + 1 /\ DOMAIN issued = 1 .. Len(issued)
      BY <3>0 DEF TicketInv
    <3>2. issued'[Len(issued) + 1] = r /\ \A n \in DOMAIN issued : issued'[n] = issued[n]
      BY <3>0, <3>1 DEF TicketInv
    <3>3. Ticket!ToSet(ticketOutbox) \subseteq DOMAIN issued
      BY DEF TicketInv, Ticket!ToSet
    <3>4. Len(issued) + 1 \notin DOMAIN issued
      BY <3>1
    <3>5. \A n \in DOMAIN issued' : SoundReport(issued[n])'
      BY <1>0, <3>0, <3>1, <3>2 DEF TicketInv, SoundReport
    <3> QED
      BY <3>0, <3>1, <3>3, <3>4, <3>5 DEF TicketInv
  <2> QED
    BY <2>1, <2>2
<1>2. ticketOutbox' \in Seq(DOMAIN issued') /\ ticketOutbox' = ticketOutbox
  BY <1>1 DEF TicketInv, Ticket!HubStands
<1>3. Ticket!StateHasItsProof'
  BY DEF TicketInv, Ticket!StateHasItsProof, Ticket!HubStands
<1> QED
  BY <1>1, <1>2, <1>3 DEF TicketInv, Ticket!HubStands

LEMMA Appending ==
  ASSUME NEW S, NEW s \in Seq(S), NEW e \in S
  PROVE  /\ Append(s, e) \in Seq(S) /\ Ticket!ToSet(Append(s, e)) = Ticket!ToSet(s) \union {e}
         /\ Ticket!IsInjective(s) /\ e \notin Ticket!ToSet(s) => Ticket!IsInjective(Append(s, e))
<1>1. Append(s, e) \in Seq(S) /\ Len(s) \in Nat /\ DOMAIN s = 1 .. Len(s)
      /\ DOMAIN Append(s, e) = 1 .. Len(s) + 1 /\ Append(s, e)[Len(s) + 1] = e
      /\ \A i \in 1 .. Len(s) : Append(s, e)[i] = s[i]
  OBVIOUS
<1>2. Ticket!ToSet(Append(s, e)) = Ticket!ToSet(s) \union {e}
  BY <1>1 DEF Ticket!ToSet
<1>3. Ticket!IsInjective(s) /\ e \notin Ticket!ToSet(s) => Ticket!IsInjective(Append(s, e))
  BY <1>1 DEF Ticket!ToSet, Ticket!IsInjective
<1> QED
  BY <1>1, <1>2, <1>3

LEMMA TakingTheFirst ==
  ASSUME NEW S, NEW s \in Seq(S), s # <<>>
  PROVE  /\ Head(s) \in S /\ Tail(s) \in Seq(S) /\ Ticket!ToSet(Tail(s)) \subseteq Ticket!ToSet(s)
         /\ Ticket!IsInjective(s) => Ticket!IsInjective(Tail(s))
<1>1. Len(s) \in Nat \ {0} /\ DOMAIN s = 1 .. Len(s) /\ Head(s) = s[1] /\ Tail(s) \in Seq(S)
      /\ DOMAIN Tail(s) = 1 .. Len(s) - 1 /\ \A i \in 1 .. Len(s) - 1 : Tail(s)[i] = s[i + 1]
  OBVIOUS
<1>2. Head(s) \in S
  BY <1>1
<1>3. Ticket!ToSet(Tail(s)) \subseteq Ticket!ToSet(s)
  BY <1>1 DEF Ticket!ToSet
<1>4. Ticket!IsInjective(s) => Ticket!IsInjective(Tail(s))
  BY <1>1 DEF Ticket!IsInjective
<1> QED
  BY <1>1, <1>2, <1>3, <1>4

\* A post on its way is answered, or goes to the outbox.
LEMMA TicketStep ==
  ASSUME TicketInv, [Ticket!Next]_(Ticket!vars)
  PROVE  TicketInv'
<1>0. /\ ticketAt \in Ticket!Stages /\ ticketTurns \in Nat /\ ticketMr \in BOOLEAN
         /\ passed \in BOOLEAN
      /\ hub = "done" => ticketAt = "merged"
  BY DEF TicketInv, Ticket!StateHasItsProof
<1> USE DEF Ticket!NoReport, Ticket!SaveHeld, Ticket!HubStands
<1>1. CASE Ticket!TurnFails
  <2>1. Reported
    BY <1>0, <1>1, ReportIsSound DEF Ticket!TurnFails, Types, Facts
  <2> QED
    BY <1>0, <1>1, <2>1, TaskKeeps DEF Ticket!TurnFails, Ticket!Stages
<1>2. CASE Ticket!Settle
  <2>1. Reported
    BY <1>0, <1>2, ReportIsSound DEF Ticket!Settle, Types, Facts
  <2> QED
    BY <1>0, <1>2, <2>1, TaskKeeps DEF Ticket!Settle, Ticket!Stages
<1>3. CASE Ticket!SettleInterrupted
  <2>1. Reported
    BY <1>0, <1>3, ReportIsSound DEF Ticket!SettleInterrupted, Types, Facts
  <2> QED
    BY <1>0, <1>3, <2>1, TaskKeeps DEF Ticket!SettleInterrupted, Ticket!Stages
<1>4. CASE Ticket!ShipStart
  BY <1>0, <1>4, TaskKeeps DEF Ticket!ShipStart, Ticket!Stages, Reported
<1>5. CASE Ticket!ShipLands
  <2>1. Reported
    <3>1. CASE ticketMr'
      BY <1>0, <1>5, <3>1, ReportIsSound DEF Ticket!ShipLands, Types, Facts
    <3>2. CASE ~ticketMr'
      BY <1>0, <1>5, <3>2, ReportIsSound DEF Ticket!ShipLands, Types, Facts
    <3> QED
      BY <3>1, <3>2
  <2>2. ticketMr' \in BOOLEAN /\ (ticketMr => ticketMr')
    <3>1. ticketMr' \in {ticketMr, TRUE}
      BY <1>5 DEF Ticket!ShipLands
    <3>2. CASE ticketMr = TRUE
      BY <3>1, <3>2
    <3>3. CASE ticketMr = FALSE
      BY <3>1, <3>3
    <3> QED
      BY <1>0, <3>2, <3>3
  <2>3. ticketAt = "shipping" /\ ticketAt' = "shipped" /\ UNCHANGED <<ticketTurns, held, passed>>
        /\ known' = held /\ Ticket!HubStands
    BY <1>5 DEF Ticket!ShipLands
  <2> QED
    BY <1>0, <2>1, <2>2, <2>3, TaskKeeps DEF Ticket!Stages
<1>6. CASE Ticket!ShipFails
  BY <1>0, <1>6, TaskKeeps DEF Ticket!ShipFails, Ticket!Stages, Reported
<1>7. CASE Ticket!MergeStart
  BY <1>0, <1>7, TaskKeeps DEF Ticket!MergeStart, Ticket!Stages, Reported
<1>8. CASE Ticket!MergeLands
  <2>1. Reported
    BY <1>0, <1>8, ReportIsSound DEF Ticket!MergeLands, Types, Facts, Reported
  <2> QED
    BY <1>0, <1>8, <2>1, TaskKeeps DEF Ticket!MergeLands, Ticket!Stages
<1>9. CASE Ticket!MergeFails
  <2>1. Reported
    BY <1>0, <1>9, ReportIsSound DEF Ticket!MergeFails, Types, Facts, Reported
  <2> QED
    BY <1>0, <1>9, <2>1, TaskKeeps DEF Ticket!MergeFails, Ticket!Stages
<1>10. CASE Ticket!Reply
  BY <1>0, <1>10, TaskKeeps DEF Ticket!Reply, Ticket!Stages, Reported
<1>11. CASE Ticket!Abandon
  <2>1. Reported
    BY <1>0, <1>11, ReportIsSound DEF Ticket!Abandon, Types, Facts
  <2> QED
    BY <1>0, <1>11, <2>1, TaskKeeps DEF Ticket!Abandon, Ticket!Stages
<1>12. CASE Ticket!Accepted
  <2>1. PICK n \in ticketPosting : Ticket!HubApplies(issued[n]) /\ Ticket!NotPosted(n)
    BY <1>12 DEF Ticket!Accepted
  <2>2. known' = hub' /\ history' = Append(history, hub')
        /\ UNCHANGED <<ticketAt, ticketTurns, held, passed, ticketMr, issued, ticketOutbox>>
    BY <1>12 DEF Ticket!Accepted, Ticket!Answers, Ticket!Remember
  <2>3. /\ hub' \in {"in_progress", "mr_opened", "ready_to_merge", "done", "failed"}
        /\ Ticket!StateHasItsProof' /\ hub' \in Ticket!ARM_TICKET_STATUSES
    BY <2>1, <2>2, ApplyKeeps DEF TicketInv
  <2>4. history' \in Seq(Ticket!ARM_TICKET_STATUSES)
        /\ Ticket!ToSet(history') = Ticket!ToSet(history) \union {hub'}
    BY <2>2, <2>3, Appending DEF TicketInv
  <2> QED
    BY <2>1, <2>2, <2>3, <2>4 DEF TicketInv, Ticket!NotPosted, SoundReport
<1>13. CASE Ticket!Rejected
  BY <1>13 DEF Ticket!Rejected, Ticket!NotPosted, TicketInv, Ticket!StateHasItsProof, SoundReport
<1>14. CASE Ticket!Unanswered
  <2>1. PICK n \in ticketPosting : /\ Ticket!HubApplies(issued[n]) \/ UNCHANGED <<hub, applied>>
                                   /\ Ticket!NotPosted(n) /\ ticketOutbox' = Append(ticketOutbox, n)
    BY <1>14 DEF Ticket!Unanswered
  <2>2. UNCHANGED <<ticketAt, ticketTurns, known, held, passed, ticketMr, issued, history>>
    BY <1>14 DEF Ticket!Unanswered
  <2>3. /\ hub' \in {"in_progress", "mr_opened", "ready_to_merge", "done", "failed"}
        /\ Ticket!StateHasItsProof'
    BY <2>1, <2>2, ApplyKeeps DEF TicketInv, Ticket!StateHasItsProof
  <2>4. ticketOutbox' \in Seq(DOMAIN issued)
        /\ Ticket!ToSet(ticketOutbox') = Ticket!ToSet(ticketOutbox) \union {n}
           /\ Ticket!IsInjective(ticketOutbox')
    BY <2>1, Appending DEF TicketInv
  <2> QED
    BY <2>1, <2>2, <2>3, <2>4 DEF TicketInv, Ticket!NotPosted, SoundReport
<1>15. CASE Ticket!Replay
  <2>1. ticketOutbox # <<>> /\ ticketOutbox' = Tail(ticketOutbox)
        /\ UNCHANGED <<ticketAt, ticketTurns, known, held, passed, ticketMr, issued, ticketPosting>>
    BY <1>15 DEF Ticket!Replay
  <2>2. Head(ticketOutbox) \in DOMAIN issued /\ ticketOutbox' \in Seq(DOMAIN issued)
        /\ Ticket!IsInjective(ticketOutbox')
        /\ Ticket!ToSet(ticketOutbox') \subseteq Ticket!ToSet(ticketOutbox)
    BY <2>1, TakingTheFirst DEF TicketInv
  <2>3. \/ Ticket!HubApplies(issued[Head(ticketOutbox)]) /\ history' = Append(history, hub')
        \/ UNCHANGED <<hub, history>>
    BY <1>15 DEF Ticket!Replay, Ticket!Answers
  <2>4. /\ hub' \in {"in_progress", "mr_opened", "ready_to_merge", "done", "failed"}
        /\ Ticket!StateHasItsProof' /\ hub' \in Ticket!ARM_TICKET_STATUSES
    <3>1. CASE Ticket!HubApplies(issued[Head(ticketOutbox)])
      BY <2>1, <2>2, <3>1, ApplyKeeps
    <3>2. CASE UNCHANGED <<hub, history>>
      BY <2>1, <3>2 DEF TicketInv, Ticket!StateHasItsProof, Ticket!ARM_TICKET_STATUSES
    <3> QED
      BY <2>3, <3>1, <3>2
  <2>5. history' \in Seq(Ticket!ARM_TICKET_STATUSES)
        /\ Ticket!ToSet(history) \subseteq Ticket!ToSet(history')
    <3>1. CASE history' = Append(history, hub')
      BY <2>4, <3>1, Appending DEF TicketInv
    <3>2. CASE UNCHANGED history
      BY <3>2 DEF TicketInv
    <3> QED
      BY <2>3, <3>1, <3>2
  <2> QED
    BY <2>1, <2>2, <2>4, <2>5 DEF TicketInv, SoundReport
<1>16. CASE UNCHANGED Ticket!vars
  BY <1>16 DEF Ticket!vars, TicketInv, Ticket!StateHasItsProof, SoundReport
<1> QED
  BY <1>1, <1>2, <1>3, <1>4, <1>5, <1>6, <1>7, <1>8, <1>9, <1>10, <1>11, <1>12, <1>13, <1>14,
     <1>15, <1>16 DEF Ticket!Next

\* The reports of a ship and of its merge have keys of their own turn, which no
\* earlier report carries and the hub has not applied; the hub answers with five
\* words.
HubWords == {"in_progress", "mr_opened", "ready_to_merge", "done", "failed"}

KeysInv ==
  /\ \A n \in DOMAIN issued :
       /\ issued[n].key \in Types \X (0 .. ticketTurns)
       /\ issued[n].key = <<"mr_opened", ticketTurns>> =>
            ticketAt \notin {"turn", "reviewed", "shipping"}
       /\ issued[n].key = <<"merged", ticketTurns>> => ticketAt = "merged"
  /\ applied \subseteq {issued[n].key : n \in DOMAIN issued}
  /\ Ticket!ToSet(history) \subseteq HubWords

\* The one report without an answer, or none: the ticket shows its claim, unless
\* the hub has yet to apply it.
Alone(n) == n \in DOMAIN issued /\ ticketPosting \union Ticket!ToSet(ticketOutbox) = {n}

GetsThere(type, to, before) ==
  \/ Ticket!Answered /\ hub = to
  \/ \E n \in DOMAIN issued :
       /\ Alone(n) /\ issued[n].key = <<type, ticketTurns>> /\ issued[n].to = to
       /\ hub \in IF issued[n].key \in applied THEN {to} ELSE before

MergeInv ==
  ~late =>
    /\ ticketAt \in {"shipped", "merging"} /\ ticketMr =>
         GetsThere("mr_opened", "mr_opened", HubWords \ {"done"})
    /\ ticketAt = "merged" =>
         \/ GetsThere("merged", "done", {"mr_opened"})
         \/ \E refusal \in refusals : refusal.to = "done"

\* A report that is made is the next one, and on its way.
Appended(type, to) ==
  \E r \in Reports :
    /\ issued' = Append(issued, r) /\ ticketPosting' = ticketPosting \union {Len(issued) + 1}
    /\ r.key = <<type, ticketTurns>> /\ r.to = to

LEMMA ReportAppends ==
  ASSUME TicketInv, NEW type \in Types, NEW approves \in BOOLEAN, NEW proof \in BOOLEAN,
         NEW fact \in Facts, NEW record, Ticket!Report(type, approves, proof, fact, record)
  PROVE  /\ \/ UNCHANGED <<issued, ticketPosting>>
            \/ Appended(type, Ticket!targetTicketStatus(type, approves))
         /\ Ticket!sanitizeArmTransition(type, proof) =>
              \/ Appended(type, Ticket!targetTicketStatus(type, approves))
              \/ /\ record # "unknown"
                 /\ ~Ticket!isLegalTicketTransition(record,
                       Ticket!targetTicketStatus(type, approves))
                 /\ \E refusal \in refusals' :
                      refusal.to = Ticket!targetTicketStatus(type, approves)
<1> DEFINE claimed == Ticket!targetTicketStatus(type, approves)
           r == [key |-> Ticket!Key(type), to |-> claimed, fact |-> fact]
           refusal == [from |-> Ticket!LastAnswer, to |-> claimed]
           posts == issued' = Append(issued, r)
               /\ ticketPosting' = ticketPosting \union {Len(issued) + 1}
           refused == record # "unknown" /\ ~Ticket!isLegalTicketTransition(record, claimed)
<1>1. posts \/ UNCHANGED <<issued, ticketPosting>>
  BY DEF Ticket!Report
<1>2. Ticket!sanitizeArmTransition(type, proof) =>
        posts \/ (refused /\ refusals' = refusals \union {refusal})
  BY DEF Ticket!Report
<1>3. ASSUME posts PROVE Appended(type, claimed)
  <2>1. claimed \in Claims
    BY DEF Ticket!targetTicketStatus, Claims
  <2>2. <<type, ticketTurns>> \in Types \X Nat
    BY DEF TicketInv
  <2>3. r \in Reports /\ r.key = <<type, ticketTurns>> /\ r.to = claimed
    BY <2>1, <2>2 DEF Ticket!Key, Reports
  <2> HIDE DEF r, claimed
  <2> QED
    BY <1>3, <2>3 DEF Appended
<1>4. ASSUME refusals' = refusals \union {refusal}
      PROVE  \E x \in refusals' : x.to = claimed
  <2>1. refusal.to = claimed
    OBVIOUS
  <2> HIDE DEF refusal, claimed
  <2> QED
    BY <1>4, <2>1
<1> HIDE DEF posts, claimed, refusal
<1>5. Ticket!sanitizeArmTransition(type, proof) =>
        \/ Appended(type, claimed)
        \/ refused /\ \E x \in refusals' : x.to = claimed
  BY <1>2, <1>3, <1>4
<1> QED
  BY <1>1, <1>3, <1>5 DEF claimed

\* A step of the task makes at most one report, with the key of its turn.
LEMMA KeysKept ==
  ASSUME TicketInv, KeysInv, Ticket!HubStands, ticketAt # "merged",
         \/ UNCHANGED issued /\ ticketTurns' \in {ticketTurns, ticketTurns + 1}
         \/ /\ ticketTurns' = ticketTurns
            /\ \E type \in Types, to \in Claims :
                 /\ Appended(type, to)
                 /\ type = "mr_opened" => ticketAt' = "shipped"
                 /\ type = "merged" => ticketAt' = "merged",
         ticketAt' \in {"turn", "reviewed", "shipping"} =>
           ticketAt \in {"turn", "reviewed", "shipping"} \/ ticketTurns' = ticketTurns + 1
  PROVE  KeysInv'
<1>0. ticketTurns \in Nat /\ UNCHANGED <<applied, history>> /\ issued \in Seq(Reports)
  BY DEF TicketInv, Ticket!HubStands
<1>1. CASE UNCHANGED issued /\ ticketTurns' = ticketTurns
  BY <1>0, <1>1 DEF KeysInv
<1>2. CASE UNCHANGED issued /\ ticketTurns' = ticketTurns + 1
  <2>1. \A n \in DOMAIN issued :
          /\ issued[n].key \in Types \X (0 .. ticketTurns')
          /\ \A type \in Types : issued[n].key # <<type, ticketTurns'>>
    BY <1>0, <1>2 DEF KeysInv
  <2> QED
    BY <1>0, <1>2, <2>1 DEF KeysInv, Types
<1>3. CASE ~UNCHANGED issued
  <2>1. PICK type \in Types, to \in Claims :
          /\ Appended(type, to) /\ ticketTurns' = ticketTurns
          /\ type = "mr_opened" => ticketAt' = "shipped"
          /\ type = "merged" => ticketAt' = "merged"
    BY <1>3
  <2>2. PICK r \in Reports : issued' = Append(issued, r) /\ r.key = <<type, ticketTurns>>
    BY <2>1 DEF Appended
  <2>3. /\ DOMAIN issued' = DOMAIN issued \union {Len(issued) + 1}
        /\ issued'[Len(issued) + 1] = r
        /\ \A n \in DOMAIN issued : issued'[n] = issued[n]
    BY <1>0, <2>2
  <2>4. \A n \in DOMAIN issued :
          /\ issued[n].key = <<"mr_opened", ticketTurns>> =>
               ticketAt' \notin {"turn", "reviewed", "shipping"}
          /\ issued[n].key # <<"merged", ticketTurns>>
          /\ issued[n].key \in Types \X (0 .. ticketTurns)
    BY <1>0, <2>1 DEF KeysInv
  <2>5. /\ r.key \in Types \X (0 .. ticketTurns)
        /\ r.key = <<"mr_opened", ticketTurns>> => ticketAt' = "shipped"
        /\ r.key = <<"merged", ticketTurns>> => ticketAt' = "merged"
    BY <1>0, <2>1, <2>2
  <2>6. \A n \in DOMAIN issued' :
          /\ issued'[n].key \in Types \X (0 .. ticketTurns')
          /\ issued'[n].key = <<"mr_opened", ticketTurns'>> =>
               ticketAt' \notin {"turn", "reviewed", "shipping"}
          /\ issued'[n].key = <<"merged", ticketTurns'>> => ticketAt' = "merged"
    BY <2>1, <2>3, <2>4, <2>5
  <2>7. applied' \subseteq {issued'[n].key : n \in DOMAIN issued'}
    BY <1>0, <2>3 DEF KeysInv
  <2> QED
    BY <1>0, <2>6, <2>7 DEF KeysInv
<1> QED
  BY <1>1, <1>2, <1>3

\* The report of a ship, or of a merge, that is made with nothing unanswered is the
\* only one, and the hub has not applied it.
LEMMA AppendedIsOnly ==
  ASSUME TicketInv, KeysInv, Ticket!Answered, Ticket!HubStands, ticketTurns' = ticketTurns,
         NEW type \in {"mr_opened", "merged"}, NEW to, NEW before, hub \in before,
         Appended(type, to), type = "mr_opened" => ticketAt = "shipping",
         type = "merged" => ticketAt # "merged"
  PROVE  GetsThere(type, to, before)'
<1>1. PICK r \in Reports :
        /\ issued' = Append(issued, r) /\ ticketPosting' = ticketPosting \union {Len(issued) + 1}
        /\ r.key = <<type, ticketTurns>> /\ r.to = to
  BY DEF Appended
<1>2. /\ Len(issued) + 1 \in DOMAIN issued' /\ issued'[Len(issued) + 1] = r
      /\ UNCHANGED <<hub, applied, ticketOutbox>> /\ ticketPosting = {} /\ ticketOutbox = <<>>
  BY <1>1 DEF TicketInv, Ticket!HubStands, Ticket!Answered
<1>3. (ticketPosting \union Ticket!ToSet(ticketOutbox))' = {Len(issued) + 1}
  BY <1>1, <1>2 DEF Ticket!ToSet
<1>4. r.key \notin applied
  BY <1>1 DEF KeysInv
<1>5. PICK n \in DOMAIN issued' : issued'[n] = r /\ n = Len(issued) + 1
  BY <1>2
<1>6. /\ issued'[n].key = <<type, ticketTurns'>> /\ issued'[n].to = to
      /\ hub' \in IF issued'[n].key \in applied' THEN {to} ELSE before
  BY <1>1, <1>2, <1>4, <1>5
<1>7. Alone(n)'
  BY <1>3, <1>5 DEF Alone
<1> QED
  BY <1>5, <1>6, <1>7 DEF GetsThere

\* An answer, or a post that goes to the outbox, keeps the claim on its way.
LEMMA AnswerKeeps ==
  ASSUME TicketInv, KeysInv, Ticket!Accepted \/ Ticket!Rejected \/ Ticket!Unanswered \/ Ticket!Replay,
         NEW type \in Types, NEW to \in Claims \ {"none"}, NEW before,
         \A word \in before : Ticket!isLegalTicketTransition(word, to),
         GetsThere(type, to, before)
  PROVE  GetsThere(type, to, before)'
<1>0. ticketOutbox \in Seq(DOMAIN issued) /\ ticketPosting \subseteq DOMAIN issued
      /\ ticketPosting \intersect Ticket!ToSet(ticketOutbox) = {} /\ Ticket!IsInjective(ticketOutbox)
  BY DEF TicketInv
<1>1. ~Ticket!Answered
  BY DEF Ticket!Accepted, Ticket!Rejected, Ticket!Unanswered, Ticket!Replay, Ticket!Answered
<1>2. PICK n \in DOMAIN issued :
        /\ Alone(n) /\ issued[n].key = <<type, ticketTurns>> /\ issued[n].to = to
        /\ hub \in IF issued[n].key \in applied THEN {to} ELSE before
  BY <1>1 DEF GetsThere
<1>3. UNCHANGED <<issued, ticketTurns>>
  BY DEF Ticket!Accepted, Ticket!Rejected, Ticket!Unanswered, Ticket!Replay
<1>4. Ticket!Applies(issued[n]) <=> issued[n].key \notin applied
  BY <1>2 DEF Ticket!Applies
<1>5. Ticket!HubApplies(issued[n]) => hub' = to /\ applied' = applied \union {issued[n].key}
  BY <1>2 DEF Ticket!HubApplies
<1>6. ~Ticket!Applies(issued[n]) => hub = to
  BY <1>2, <1>4
<1>7. n \in ticketPosting => ticketPosting = {n} /\ ticketOutbox = <<>>
  <2> SUFFICES ASSUME n \in ticketPosting PROVE ticketPosting = {n} /\ ticketOutbox = <<>>
    OBVIOUS
  <2>1. ticketPosting = {n} /\ Ticket!ToSet(ticketOutbox) = {}
    BY <1>0, <1>2 DEF Alone
  <2>2. ticketOutbox = <<>>
    BY <1>0, <2>1 DEF Ticket!ToSet
  <2> QED
    BY <2>1, <2>2
<1>8. ticketOutbox # <<>> => /\ ticketPosting = {} /\ Head(ticketOutbox) = n
                             /\ Tail(ticketOutbox) = <<>>
  <2> SUFFICES ASSUME ticketOutbox # <<>>
               PROVE  /\ ticketPosting = {} /\ Head(ticketOutbox) = n
                      /\ Tail(ticketOutbox) = <<>>
    OBVIOUS
  <2>1. Ticket!ToSet(ticketOutbox) # {}
    BY <1>0 DEF Ticket!ToSet
  <2>2. Ticket!ToSet(ticketOutbox) = {n} /\ ticketPosting = {}
    BY <1>0, <1>2, <2>1 DEF Alone
  <2>3. /\ Len(ticketOutbox) \in Nat \ {0} /\ DOMAIN ticketOutbox = 1 .. Len(ticketOutbox)
        /\ Head(ticketOutbox) = ticketOutbox[1]
    BY <1>0
  <2>4. \A i \in DOMAIN ticketOutbox : ticketOutbox[i] = n
    BY <2>2 DEF Ticket!ToSet
  <2>5. Len(ticketOutbox) = 1
    <3>1. CASE Len(ticketOutbox) > 1
      <4>1. 1 \in DOMAIN ticketOutbox /\ 2 \in DOMAIN ticketOutbox
        BY <2>3, <3>1
      <4> QED
        BY <1>0, <2>4, <4>1 DEF Ticket!IsInjective
    <3> QED
      BY <2>3, <3>1
  <2>6. Head(ticketOutbox) = n
    BY <2>3, <2>4
  <2>7. Tail(ticketOutbox) = <<>>
    <3>1. Tail(ticketOutbox) \in Seq(DOMAIN issued) /\ Len(Tail(ticketOutbox)) = 0
      BY <1>0, <2>5
    <3> QED
      BY <3>1, EmptySeq
  <2> QED
    BY <2>2, <2>6, <2>7
<1>9. CASE Ticket!Accepted
  <2>1. PICK m \in ticketPosting :
          Ticket!HubApplies(issued[m]) /\ Ticket!NotPosted(m) /\ ticketOutbox' = ticketOutbox
    BY <1>9 DEF Ticket!Accepted
  <2>2. m = n
    BY <1>2, <2>1 DEF Alone
  <2>3. Ticket!Answered' /\ hub' = to
    BY <1>5, <1>7, <2>1, <2>2 DEF Ticket!NotPosted, Ticket!Answered
  <2> QED
    BY <2>3 DEF GetsThere
<1>10. CASE Ticket!Rejected
  <2>1. PICK m \in ticketPosting :
          /\ ~Ticket!Applies(issued[m]) /\ Ticket!NotPosted(m)
          /\ UNCHANGED <<hub, ticketOutbox>>
    BY <1>10 DEF Ticket!Rejected
  <2>2. m = n
    BY <1>2, <2>1 DEF Alone
  <2>3. Ticket!Answered' /\ hub' = to
    BY <1>6, <1>7, <2>1, <2>2 DEF Ticket!NotPosted, Ticket!Answered
  <2> QED
    BY <2>3 DEF GetsThere
<1>11. CASE Ticket!Unanswered
  <2>1. PICK m \in ticketPosting :
          /\ Ticket!HubApplies(issued[m]) \/ UNCHANGED <<hub, applied>>
          /\ Ticket!NotPosted(m) /\ ticketOutbox' = Append(ticketOutbox, m)
    BY <1>11 DEF Ticket!Unanswered
  <2>2. m = n
    BY <1>2, <2>1 DEF Alone
  <2>3. ticketPosting' = {} /\ Ticket!ToSet(ticketOutbox') = {n}
    <3>1. Ticket!ToSet(ticketOutbox') = Ticket!ToSet(ticketOutbox) \union {n}
      BY <1>0, <2>1, <2>2, Appending
    <3> QED
      BY <1>2, <1>7, <2>1, <2>2, <3>1 DEF Alone, Ticket!NotPosted, Ticket!ToSet
  <2>4. hub' \in IF issued'[n].key \in applied' THEN {to} ELSE before
    BY <1>2, <1>3, <1>5, <2>1, <2>2
  <2>5. Alone(n)'
    BY <1>2, <1>3, <2>3 DEF Alone
  <2> QED
    BY <1>2, <1>3, <2>4, <2>5 DEF GetsThere
<1>12. CASE Ticket!Replay
  <2>1. /\ ticketOutbox # <<>> /\ ticketOutbox' = Tail(ticketOutbox)
        /\ ticketPosting' = ticketPosting
        /\ \/ Ticket!HubApplies(issued[Head(ticketOutbox)])
           \/ ~Ticket!Applies(issued[Head(ticketOutbox)]) /\ hub' = hub
    BY <1>12 DEF Ticket!Replay
  <2>2. Ticket!Answered' /\ hub' = to
    BY <1>5, <1>6, <1>8, <2>1 DEF Ticket!Answered
  <2> QED
    BY <2>2 DEF GetsThere
<1> QED
  BY <1>9, <1>10, <1>11, <1>12

LEMMA MergeStep ==
  ASSUME TicketInv, KeysInv, MergeInv, [Ticket!Next]_(Ticket!vars)
  PROVE  KeysInv' /\ MergeInv'
<1>0. /\ ticketAt \in Ticket!Stages /\ ticketTurns \in Nat /\ ticketMr \in BOOLEAN
         /\ passed \in BOOLEAN
      /\ hub \in HubWords /\ (hub = "done" => ticketAt = "merged")
      /\ held = "unknown" \/ held \in HubWords
  BY DEF TicketInv, Ticket!StateHasItsProof, KeysInv, HubWords
<1> USE DEF Ticket!NoReport, Ticket!HubStands
<1>t. /\ Ticket!targetTicketStatus("failed", FALSE) = "failed"
      /\ Ticket!targetTicketStatus("review_result", TRUE) = "ready_to_merge"
      /\ Ticket!targetTicketStatus("review_result", FALSE) = "none"
      /\ Ticket!targetTicketStatus("mr_opened", FALSE) = "mr_opened"
      /\ Ticket!targetTicketStatus("merged", FALSE) = "done"
      /\ Ticket!sanitizeArmTransition("mr_opened", TRUE)
      /\ Ticket!sanitizeArmTransition("merged", TRUE)
  BY DEF Ticket!targetTicketStatus, Ticket!sanitizeArmTransition
<1>f. ASSUME NEW fact \in Facts, NEW record, Ticket!Report("failed", FALSE, FALSE, fact, record)
      PROVE  UNCHANGED <<issued, ticketPosting>> \/ Appended("failed", "failed")
  BY <1>f, <1>t, ReportAppends DEF Types
<1>l. /\ \A word \in HubWords \ {"done"} : Ticket!isLegalTicketTransition(word, "mr_opened")
      /\ \A word \in {"mr_opened"} : Ticket!isLegalTicketTransition(word, "done")
      /\ Ticket!isLegalTicketTransition("done", "mr_opened")
  BY DEF HubWords, Ticket!isLegalTicketTransition, Ticket!TICKET_TRANSITIONS
<1>1. CASE Ticket!TurnFails
  <2>1. UNCHANGED <<issued, ticketPosting>> \/ Appended("failed", "failed")
    BY <1>1, <1>f DEF Ticket!TurnFails, Facts
  <2>2. ticketAt = "turn" /\ ticketAt' = "failed" /\ ticketTurns' = ticketTurns /\ Ticket!HubStands
    BY <1>1 DEF Ticket!TurnFails
  <2>3. KeysInv'
    BY <2>1, <2>2, KeysKept DEF Types, Claims
  <2> QED
    BY <2>2, <2>3 DEF MergeInv
<1>2. CASE Ticket!Settle
  <2>1. \/ UNCHANGED <<issued, ticketPosting>>
        \/ \E type \in {"failed", "review_result"}, to \in Claims : Appended(type, to)
    <3>1. CASE Ticket!Report("review_result", TRUE, FALSE, "approve", held)
      BY <3>1, <1>t, ReportAppends DEF Types, Facts, Claims
    <3>2. CASE Ticket!Report("review_result", FALSE, FALSE, "changes", held)
      BY <3>2, <1>t, ReportAppends DEF Types, Facts, Claims
    <3>3. CASE Ticket!Report("failed", FALSE, FALSE, "review", held)
      BY <3>3, <1>f DEF Facts, Claims
    <3> QED
      BY <1>2, <3>1, <3>2, <3>3 DEF Ticket!Settle
  <2>2. ticketAt = "turn" /\ ticketAt' = "reviewed" /\ ticketTurns' = ticketTurns
        /\ Ticket!HubStands
    BY <1>2 DEF Ticket!Settle
  <2>3. KeysInv'
    BY <2>1, <2>2, KeysKept DEF Types
  <2> QED
    BY <2>2, <2>3 DEF MergeInv
<1>3. CASE Ticket!SettleInterrupted
  <2>1. UNCHANGED <<issued, ticketPosting>> \/ Appended("failed", "failed")
    BY <1>3, <1>f DEF Ticket!SettleInterrupted, Facts
  <2>2. ticketAt = "turn" /\ ticketAt' = "waiting" /\ ticketTurns' = ticketTurns
        /\ Ticket!HubStands
    BY <1>3 DEF Ticket!SettleInterrupted
  <2>3. KeysInv'
    BY <2>1, <2>2, KeysKept DEF Types, Claims
  <2> QED
    BY <2>2, <2>3 DEF MergeInv
<1>4. CASE Ticket!ShipStart \/ Ticket!ShipFails
  <2>1. /\ ticketAt \in {"reviewed", "shipping"} /\ ticketAt' \in {"reviewed", "shipping"}
        /\ UNCHANGED <<issued, ticketTurns>> /\ Ticket!HubStands
    BY <1>4 DEF Ticket!ShipStart, Ticket!ShipFails
  <2>2. KeysInv'
    BY <1>0, <2>1, KeysKept
  <2> QED
    BY <2>1, <2>2 DEF MergeInv
<1>5. CASE Ticket!ShipLands
  <2>1. /\ ticketAt = "shipping" /\ ticketAt' = "shipped" /\ ticketTurns' = ticketTurns
        /\ late' = ~Ticket!Answered /\ ticketMr' \in {ticketMr, TRUE} /\ Ticket!HubStands
    BY <1>5 DEF Ticket!ShipLands
  <2>2. CASE ticketMr'
    <3>1. Ticket!Report("mr_opened", FALSE, ticketMr', "opened", held) /\ ticketMr' = TRUE
      BY <1>0, <1>5, <2>1, <2>2 DEF Ticket!ShipLands
    <3>2. \/ Appended("mr_opened", "mr_opened")
          \/ held # "unknown" /\ ~Ticket!isLegalTicketTransition(held, "mr_opened")
      BY <3>1, <1>t, ReportAppends DEF Types, Facts
    <3>3. Appended("mr_opened", "mr_opened")
      BY <1>0, <1>l, <3>2
    <3>4. KeysInv'
      BY <2>1, <3>3, KeysKept DEF Types, Claims
    <3>5. hub \in HubWords \ {"done"}
      BY <1>0, <2>1
    <3>6. Ticket!Answered => GetsThere("mr_opened", "mr_opened", HubWords \ {"done"})'
      BY <2>1, <3>3, <3>5, AppendedIsOnly
    <3> QED
      BY <2>1, <3>4, <3>6 DEF MergeInv
  <2>3. CASE ~ticketMr'
    <3>1. UNCHANGED <<issued, ticketPosting>> \/ Appended("failed", "failed")
      BY <1>5, <2>3, <1>f DEF Ticket!ShipLands, Facts
    <3>2. KeysInv'
      BY <2>1, <3>1, KeysKept DEF Types, Claims
    <3> QED
      BY <2>1, <2>3, <3>2 DEF MergeInv
  <2> QED
    BY <2>2, <2>3
<1>6. CASE Ticket!MergeStart
  <2>1. /\ ticketAt = "shipped" /\ ticketAt' = "merging"
        /\ UNCHANGED <<issued, ticketPosting, ticketTurns, late, ticketMr>> /\ Ticket!HubStands
    BY <1>6 DEF Ticket!MergeStart
  <2>2. KeysInv'
    BY <2>1, KeysKept
  <2>3. GetsThere("mr_opened", "mr_opened", HubWords \ {"done"})
          => GetsThere("mr_opened", "mr_opened", HubWords \ {"done"})'
    BY <2>1 DEF GetsThere, Alone, Ticket!Answered, Ticket!ToSet
  <2> QED
    BY <2>1, <2>2, <2>3 DEF MergeInv
<1>7. CASE Ticket!MergeLands
  <2>1. /\ ticketAt = "merging" /\ ticketMr /\ ticketTurns' = ticketTurns
        /\ late' = (late \/ ~Ticket!Answered) /\ Ticket!HubStands
        /\ \/ ticketAt' = "merged" /\ Ticket!Report("merged", FALSE, TRUE, "merged", held)
           \/ ticketAt' = "landed" /\ UNCHANGED <<issued, ticketPosting>>
    BY <1>7 DEF Ticket!MergeLands
  <2>2. CASE ticketAt' = "landed"
    <3>1. UNCHANGED <<issued, ticketPosting>>
      BY <2>1, <2>2
    <3>2. KeysInv'
      BY <2>1, <2>2, <3>1, KeysKept
    <3> QED
      BY <2>2, <3>2 DEF MergeInv
  <2>3. CASE ticketAt' = "merged"
    <3>1. Ticket!Report("merged", FALSE, TRUE, "merged", held)
      BY <2>1, <2>3
    <3>2. /\ UNCHANGED <<issued, ticketPosting>> \/ Appended("merged", "done")
          /\ Appended("merged", "done") \/ \E refusal \in refusals' : refusal.to = "done"
      BY <3>1, <1>t, ReportAppends DEF Types, Facts
    <3>3. KeysInv'
      BY <2>1, <2>3, <3>2, KeysKept DEF Types, Claims
    <3>4. ~late' => Ticket!Answered /\ hub = "mr_opened"
      <4>1. Ticket!Answered => \A n : ~Alone(n)
        BY DEF Ticket!Answered, Alone, Ticket!ToSet
      <4> QED
        BY <2>1, <4>1 DEF MergeInv, GetsThere
    <3>5. ~late' /\ Appended("merged", "done") => GetsThere("merged", "done", {"mr_opened"})'
      BY <2>1, <3>4, AppendedIsOnly
    <3> QED
      BY <2>3, <3>2, <3>3, <3>5 DEF MergeInv
  <2> QED
    BY <2>1, <2>2, <2>3
<1>8. CASE Ticket!MergeFails
  <2>1. UNCHANGED <<issued, ticketPosting>> \/ Appended("failed", "failed")
    BY <1>8, <1>f DEF Ticket!MergeFails, Facts
  <2>2. ticketAt = "merging" /\ ticketAt' = "waiting" /\ ticketTurns' = ticketTurns
        /\ Ticket!HubStands
    BY <1>8 DEF Ticket!MergeFails
  <2>3. KeysInv'
    BY <2>1, <2>2, KeysKept DEF Types, Claims
  <2> QED
    BY <2>2, <2>3 DEF MergeInv
<1>9. CASE Ticket!Reply
  <2>1. /\ ticketAt \in {"reviewed", "waiting"} /\ ticketAt' = "turn"
        /\ ticketTurns' = ticketTurns + 1 /\ UNCHANGED issued /\ Ticket!HubStands
    BY <1>9 DEF Ticket!Reply
  <2>2. KeysInv'
    BY <2>1, KeysKept
  <2> QED
    BY <2>1, <2>2 DEF MergeInv
<1>10. CASE Ticket!Abandon
  <2>1. UNCHANGED <<issued, ticketPosting>> \/ Appended("failed", "failed")
    BY <1>10, <1>f DEF Ticket!Abandon, Facts
  <2>2. ticketAt \in {"reviewed", "waiting"} /\ ticketAt' = "failed" /\ ticketTurns' = ticketTurns
        /\ Ticket!HubStands
    BY <1>10 DEF Ticket!Abandon
  <2>3. KeysInv'
    BY <2>1, <2>2, KeysKept DEF Types, Claims
  <2> QED
    BY <2>2, <2>3 DEF MergeInv
<1>11. CASE Ticket!Accepted \/ Ticket!Rejected \/ Ticket!Unanswered \/ Ticket!Replay
  <2>1. UNCHANGED <<ticketAt, ticketTurns, ticketMr, issued, refusals, late>>
    BY <1>11 DEF Ticket!Accepted, Ticket!Rejected, Ticket!Unanswered, Ticket!Replay
  <2>2. \/ UNCHANGED <<hub, applied, history>>
        \/ /\ \E n \in DOMAIN issued : Ticket!HubApplies(issued[n])
           /\ history' = history \/ history' = Append(history, hub')
    <3>1. ticketPosting \subseteq DOMAIN issued
          /\ (ticketOutbox # <<>> => Head(ticketOutbox) \in DOMAIN issued)
      BY TakingTheFirst DEF TicketInv
    <3>2. CASE Ticket!Accepted
      BY <3>1, <3>2 DEF Ticket!Accepted, Ticket!Answers
    <3>3. CASE Ticket!Rejected
      BY <3>3 DEF Ticket!Rejected
    <3>4. CASE Ticket!Unanswered
      BY <3>1, <3>4 DEF Ticket!Unanswered
    <3>5. CASE Ticket!Replay
      BY <3>1, <3>5 DEF Ticket!Replay, Ticket!Answers
    <3> QED
      BY <1>11, <3>2, <3>3, <3>4, <3>5
  <2>3. KeysInv'
    <3>1. CASE UNCHANGED <<hub, applied, history>>
      BY <2>1, <3>1 DEF KeysInv, Ticket!ToSet
    <3>2. CASE \E n \in DOMAIN issued : Ticket!HubApplies(issued[n])
      <4>1. PICK n \in DOMAIN issued : Ticket!HubApplies(issued[n])
        BY <3>2
      <4>2. hub' \in HubWords
        BY <2>1, <4>1, ApplyKeeps DEF HubWords
      <4>3. applied' = applied \union {issued[n].key}
        BY <4>1 DEF Ticket!HubApplies
      <4>4. Ticket!ToSet(history') \subseteq HubWords
        <5>1. CASE history' = history
          BY <5>1 DEF KeysInv
        <5>2. CASE history' = Append(history, hub')
          <6>1. Ticket!ToSet(history') = Ticket!ToSet(history) \union {hub'}
            BY <4>2, <5>2, Appending DEF TicketInv, HubWords, Ticket!ARM_TICKET_STATUSES
          <6> QED
            BY <4>2, <6>1 DEF KeysInv
        <5> QED
          BY <2>2, <5>1, <5>2
      <4> QED
        BY <2>1, <4>3, <4>4 DEF KeysInv
    <3> QED
      BY <2>2, <3>1, <3>2
  <2>4. /\ GetsThere("mr_opened", "mr_opened", HubWords \ {"done"})
             => GetsThere("mr_opened", "mr_opened", HubWords \ {"done"})'
        /\ GetsThere("merged", "done", {"mr_opened"})
             => GetsThere("merged", "done", {"mr_opened"})'
    BY <1>11, <1>l, AnswerKeeps DEF Types, Claims
  <2> QED
    BY <2>1, <2>3, <2>4 DEF MergeInv
<1>12. CASE UNCHANGED Ticket!vars
  BY <1>12 DEF Ticket!vars, KeysInv, MergeInv, GetsThere, Alone, Ticket!Answered, Ticket!ToSet
<1> QED
  BY <1>1, <1>2, <1>3, <1>4, <1>5, <1>6, <1>7, <1>8, <1>9, <1>10, <1>11, <1>12 DEF Ticket!Next

LEMMA MergeStarts == Ticket!Init => KeysInv /\ MergeInv
<1> SUFFICES ASSUME Ticket!Init PROVE KeysInv /\ MergeInv
  OBVIOUS
<1>1. issued = <<>> /\ applied = {} /\ history = <<"in_progress">> /\ ticketAt = "turn"
  BY DEF Ticket!Init
<1>2. Ticket!ToSet(history) = {"in_progress"}
  BY <1>1 DEF Ticket!ToSet
<1> QED
  BY <1>1, <1>2 DEF KeysInv, MergeInv, HubWords

\* For any number of turns and of posts left without an answer, however late the
\* answers are: a merge that landed ends with the ticket done, unless the ship or the
\* merge itself landed over reports that were still unanswered, or the report of the
\* merge was refused over the word that its copy of the record held.
THEOREM MergeGetsThere == Ticket!Spec => []Ticket!MergeReachesTheHub
<1>1. /\ TicketInv /\ KeysInv /\ MergeInv /\ [Ticket!Next]_(Ticket!vars)
           => (TicketInv /\ KeysInv /\ MergeInv)'
  BY TicketStep, MergeStep
<1>2. MergeInv => Ticket!MergeReachesTheHub
  BY DEF MergeInv, GetsThere, Alone, Ticket!MergeReachesTheHub, Ticket!Answered, Ticket!ToSet
<1>3. Ticket!Init => TicketInv /\ KeysInv /\ MergeInv
  BY TicketInit, MergeStarts
<1> QED
  BY <1>1, <1>2, <1>3, PTL DEF Ticket!Spec

\* The hub never shows a merge request nobody opened nor a merge nobody made, and
\* what task.json says of the ticket is a status the hub has answered with, whatever
\* reports are late, lost or replayed (task-server.ts, task-hub.ts).
THEOREM TicketTellsTheTruth == Ticket!Spec => [](Ticket!StateHasItsProof /\ Ticket!KnownWasAnswered)
<1>1. TicketInv => Ticket!StateHasItsProof /\ Ticket!KnownWasAnswered
  BY DEF TicketInv, Ticket!KnownWasAnswered
<1> QED
  BY <1>1, TicketInit, TicketStep, PTL DEF Ticket!Spec

-----------------------------------------------------------------------------
(* The outbox of the reports (HubOutbox, as Outbox) *)

\* What the outbox selects is what Selection does.
LEMMA SelectionIsShared == \A s, S : Outbox!Only(s, S) = Only(s, S)
BY DEF Only, Outbox!Only, Cardinality, Outbox!Cardinality

ItemsOf(entry) == Outbox!ToSet(entry.items)
Posts == [kind : {"transition", "events"}, items : Seq(Outbox!Items)]
Replays == [todo : Seq(Posts), kept : Seq(Posts), creds : BOOLEAN]

\* No item is in two entries of a file.
Apart(file) == \A j, k \in 1 .. Len(file) : j # k => ItemsOf(file[j]) \intersect ItemsOf(file[k]) = {}

LEMMA EntriesArePosts == Outbox!Entries = Posts \union {Outbox!Scrap}
    /\ ItemsOf(Outbox!Scrap) = {} /\ Outbox!Scrap \notin Posts
                         /\ ~Outbox!IsEntry(Outbox!Scrap) /\ \A e \in Posts : Outbox!IsEntry(e)
BY DEF Outbox!Entries, Posts, ItemsOf, Outbox!Scrap, Outbox!Entry, Outbox!IsEntry, Outbox!ToSet

LEMMA InFileIs ==
  ASSUME NEW S, NEW s \in Seq(S)
  PROVE  \A i : i \in Outbox!InFile(s) <=> \E k \in 1 .. Len(s) : i \in ItemsOf(s[k])
BY DEF Outbox!InFile, Outbox!InEntries, Outbox!ToSet, ItemsOf

LEMMA FileAppends ==
  ASSUME NEW S, NEW s \in Seq(S), NEW e \in S
  PROVE  /\ Append(s, e) \in Seq(S)
            /\ Outbox!InFile(Append(s, e)) = Outbox!InFile(s) \union ItemsOf(e)
         /\ Apart(s) /\ ItemsOf(e) \intersect Outbox!InFile(s) = {} => Apart(Append(s, e))
<1>1. Append(s, e) \in Seq(S) /\ Len(s) \in Nat /\ Len(Append(s, e)) = Len(s) + 1
      /\ Append(s, e)[Len(s) + 1] = e /\ \A k \in 1 .. Len(s) : Append(s, e)[k] = s[k]
  OBVIOUS
<1>0. /\ \A i : i \in Outbox!InFile(s) <=> \E k \in 1 .. Len(s) : i \in ItemsOf(s[k])
      /\ \A i : i \in Outbox!InFile(Append(s, e)) <=>
                  \E k \in 1 .. Len(Append(s, e)) : i \in ItemsOf(Append(s, e)[k])
  BY <1>1, InFileIs
<1>2. \A i : i \in Outbox!InFile(Append(s, e)) <=> i \in Outbox!InFile(s) \/ i \in ItemsOf(e)
  <2>1. \A k \in 1 .. Len(s) + 1 : k \in 1 .. Len(s) \/ k = Len(s) + 1
    BY <1>1
  <2>2. Len(s) + 1 \in 1 .. Len(s) + 1 /\ \A k \in 1 .. Len(s) : k \in 1 .. Len(s) + 1
    BY <1>1
  <2> QED
    BY <1>0, <1>1, <2>1, <2>2
<1>3. Apart(s) /\ ItemsOf(e) \intersect Outbox!InFile(s) = {} => Apart(Append(s, e))
  <2> SUFFICES ASSUME Apart(s), ItemsOf(e) \intersect Outbox!InFile(s) = {},
      NEW j \in 1 .. Len(s) + 1,
                      NEW k \in 1 .. Len(s) + 1, j # k
               PROVE  ItemsOf(Append(s, e)[j]) \intersect ItemsOf(Append(s, e)[k]) = {}
    BY <1>1 DEF Apart
  <2>1. \A m \in 1 .. Len(s) : ItemsOf(s[m]) \intersect ItemsOf(e) = {}
    BY <1>0
  <2>2. (j \in 1 .. Len(s) \/ j = Len(s) + 1) /\ (k \in 1 .. Len(s) \/ k = Len(s) + 1)
    BY <1>1
  <2>3. CASE j \in 1 .. Len(s) /\ k \in 1 .. Len(s)
    BY <1>1, <2>3 DEF Apart
  <2>4. CASE j = Len(s) + 1 /\ k \in 1 .. Len(s)
    BY <1>1, <2>1, <2>4
  <2>5. CASE k = Len(s) + 1 /\ j \in 1 .. Len(s)
    BY <1>1, <2>1, <2>5
  <2> QED
    BY <2>2, <2>3, <2>4, <2>5
<1> QED
  BY <1>1, <1>2, <1>3

LEMMA FileShrinks ==
  ASSUME NEW S, NEW s \in Seq(S), s # <<>>
  PROVE  /\ Head(s) \in S /\ Tail(s) \in Seq(S)
         /\ Outbox!InFile(s) = ItemsOf(Head(s)) \union Outbox!InFile(Tail(s))
         /\ Apart(s) => Apart(Tail(s)) /\ ItemsOf(Head(s)) \intersect Outbox!InFile(Tail(s)) = {}
<1>1. Len(s) \in Nat \ {0} /\ Head(s) = s[1] /\ Tail(s) \in Seq(S) /\ Len(Tail(s)) = Len(s) - 1
      /\ \A k \in 1 .. Len(s) - 1 : Tail(s)[k] = s[k + 1]
  OBVIOUS
<1>0. /\ \A i : i \in Outbox!InFile(s) <=> \E k \in 1 .. Len(s) : i \in ItemsOf(s[k])
      /\ \A i : i \in Outbox!InFile(Tail(s)) <=> \E k \in 1 .. Len(s) - 1 : i \in ItemsOf(Tail(s)[k])
  BY <1>1, InFileIs
<1>2. \A i : i \in Outbox!InFile(s) <=> i \in ItemsOf(Head(s)) \/ i \in Outbox!InFile(Tail(s))
  <2>1. \A k \in 1 .. Len(s) : k = 1 \/ (k - 1 \in 1 .. Len(s) - 1 /\ s[k] = Tail(s)[k - 1])
    BY <1>1
  <2>2. \A k \in 1 .. Len(s) - 1 : k + 1 \in 1 .. Len(s) /\ Tail(s)[k] = s[k + 1]
    BY <1>1
  <2>3. 1 \in 1 .. Len(s)
    BY <1>1
  <2> QED
    BY <1>0, <1>1, <2>1, <2>2, <2>3
<1>3. Apart(s) => Apart(Tail(s))
  BY <1>1 DEF Apart
<1>4. ASSUME Apart(s) PROVE ItemsOf(Head(s)) \intersect Outbox!InFile(Tail(s)) = {}
  <2>1. \A k \in 1 .. Len(s) - 1 : ItemsOf(s[1]) \intersect ItemsOf(s[k + 1]) = {}
    BY <1>1, <1>4 DEF Apart
  <2> QED
    BY <1>0, <1>1, <2>1
<1>5. Head(s) \in S
  BY <1>1
<1> QED
  BY <1>1, <1>2, <1>3, <1>4, <1>5

LEMMA FileLosesScrap ==
  ASSUME NEW S, NEW s \in Seq(S), s # <<>>, Outbox!Last(s) = Outbox!Scrap
  PROVE  /\ Outbox!Front(s) \in Seq(S) /\ Outbox!InFile(Outbox!Front(s)) = Outbox!InFile(s)
         /\ Apart(s) => Apart(Outbox!Front(s))
<1>1. Len(s) \in Nat \ {0} /\ s[Len(s)] = Outbox!Scrap /\ Outbox!Front(s) \in Seq(S)
      /\ Len(Outbox!Front(s)) = Len(s) - 1
      /\ \A k \in 1 .. Len(s) - 1 : Outbox!Front(s)[k] = s[k]
  <2>1. Len(s) \in Nat \ {0} /\ s[Len(s)] = Outbox!Scrap
    BY DEF Outbox!Last
  <2>2. Outbox!Front(s) = SubSeq(s, 1, Len(s) - 1) /\ Len(s) - 1 \in 0 .. Len(s)
    BY <2>1 DEF Outbox!Front
  <2>3. PICK n \in Nat : n = Len(s) - 1
    BY <2>1
  <2>4. n \in Int /\ 1 \in Int /\ \A i \in 1 .. n : s[i] \in S
    BY <2>1, <2>3
  <2>5. /\ SubSeq(s, 1, n) \in Seq(S)
        /\ Len(SubSeq(s, 1, n)) = IF 1 <= n THEN n - 1 + 1 ELSE 0
        /\ \A i \in 1 .. n - 1 + 1 : SubSeq(s, 1, n)[i] = s[1 + i - 1]
    BY <2>4, SubSeqProperties
  <2>6. Len(SubSeq(s, 1, n)) = n
    BY <2>3, <2>5
  <2>7. \A i \in 1 .. n : i \in 1 .. n - 1 + 1 /\ 1 + i - 1 = i
    BY <2>3
  <2>8. \A i \in 1 .. n : SubSeq(s, 1, n)[i] = s[i]
    BY <2>5, <2>7
  <2> QED
    BY <2>1, <2>2, <2>3, <2>5, <2>6, <2>8
<1>0. /\ \A i : i \in Outbox!InFile(s) <=> \E k \in 1 .. Len(s) : i \in ItemsOf(s[k])
      /\ \A i : i \in Outbox!InFile(Outbox!Front(s)) <=> \E k \in 1 .. Len(s) - 1 : i \in ItemsOf(Outbox!Front(s)[k])
  BY <1>1, InFileIs
<1>2. \A i : i \in Outbox!InFile(s) <=> i \in Outbox!InFile(Outbox!Front(s))
  <2>1. \A i : i \notin ItemsOf(s[Len(s)])
    BY <1>1, EntriesArePosts
  <2>2. \A k \in 1 .. Len(s) : k \in 1 .. Len(s) - 1 \/ k = Len(s)
    BY <1>1
  <2>3. \A k \in 1 .. Len(s) - 1 : k \in 1 .. Len(s)
    BY <1>1
  <2> QED
    BY <1>0, <1>1, <2>1, <2>2, <2>3
<1>3. ASSUME Apart(s) PROVE Apart(Outbox!Front(s))
  <2> SUFFICES ASSUME NEW j \in 1 .. Len(s) - 1, NEW k \in 1 .. Len(s) - 1, j # k
               PROVE  ItemsOf(Outbox!Front(s)[j]) \intersect ItemsOf(Outbox!Front(s)[k]) = {}
    BY <1>1 DEF Apart
  <2>1. j \in 1 .. Len(s) /\ k \in 1 .. Len(s) /\ Outbox!Front(s)[j] = s[j]
        /\ Outbox!Front(s)[k] = s[k]
    BY <1>1
  <2> QED
    BY <1>3, <2>1 DEF Apart
<1> QED
  BY <1>1, <1>2, <1>3

\* The replay takes up what the file holds.
LEMMA FileIsRead ==
  ASSUME NEW s \in Seq(Outbox!Entries)
  PROVE  LET todo == Outbox!Only(s, {line \in Outbox!ToSet(s) : Outbox!IsEntry(line)}) IN
         /\ todo \in Seq(Posts) /\ Outbox!InFile(todo) = Outbox!InFile(s)
         /\ Apart(s) => Apart(todo)
<1> DEFINE L == {line \in Outbox!ToSet(s) : Outbox!IsEntry(line)}
           todo == Outbox!Only(s, L)
<1>1. /\ todo \in Seq(Outbox!Entries)
      /\ \A x : Contains(todo, x) <=> Contains(s, x) /\ x \in L
      /\ \A a, b \in 1..Len(todo) : a # b =>
              \E i, j \in 1..Len(s) : i # j /\ todo[a] = s[i] /\ todo[b] = s[j]
  <2>1. todo = Only(s, L)
    BY SelectionIsShared
  <2> HIDE DEF todo
  <2> DEFINE kept == Only(s, L)
  <2>2. /\ kept \in Seq(Outbox!Entries)
        /\ \A x : Contains(kept, x) <=> Contains(s, x) /\ x \in L
        /\ \A a, b \in 1..Len(kept) : a # b =>
                \E i, j \in 1..Len(s) : i # j /\ kept[a] = s[i] /\ kept[b] = s[j]
    <3> HIDE DEF L
    <3> QED
      BY OnlyProperties
  <2> HIDE DEF L, kept
  <2>3. todo = kept
    BY <2>1 DEF kept
  <2> QED
    BY <2>2, <2>3
<1>2. \A x : Contains(s, x) <=> x \in Outbox!ToSet(s)
  BY DEF Contains, Outbox!ToSet
<1> HIDE DEF todo
<1>3. \A k \in 1 .. Len(todo) : todo[k] \in L
  <2>1. \A k \in 1 .. Len(todo) : Contains(todo, todo[k])
    BY <1>1 DEF Contains
  <2> QED
    BY <1>1, <2>1
<1>4. \A k \in 1 .. Len(todo) : todo[k] \in Posts
  <2>1. \A x \in L : Outbox!IsEntry(x)
    OBVIOUS
  <2>2. \A k \in 1 .. Len(todo) : todo[k] \in Outbox!Entries
    BY <1>1
  <2> HIDE DEF L
  <2> QED
    BY <1>3, <2>1, <2>2, EntriesArePosts
<1>5. todo \in Seq(Posts)
  BY <1>1, <1>4
<1>6. \A i : i \in Outbox!InFile(todo) <=> i \in Outbox!InFile(s)
  <2>1. \A k \in 1 .. Len(s) : s[k] = Outbox!Scrap \/ \E m \in 1 .. Len(todo) : todo[m] = s[k]
    <3> SUFFICES ASSUME NEW k \in 1 .. Len(s), s[k] # Outbox!Scrap PROVE Contains(todo, s[k])
      BY <1>1 DEF Contains
    <3>1. s[k] \in Posts /\ Contains(s, s[k])
      BY EntriesArePosts DEF Contains
    <3> QED
      BY <1>1, <1>2, <3>1, EntriesArePosts
  <2>2. \A m \in 1 .. Len(todo) : \E k \in 1 .. Len(s) : todo[m] = s[k]
    BY <1>3 DEF Outbox!ToSet
  <2>3. /\ \A i : i \in Outbox!InFile(s) <=> \E k \in 1 .. Len(s) : i \in ItemsOf(s[k])
        /\ \A i : i \in Outbox!InFile(todo) <=> \E k \in 1 .. Len(todo) : i \in ItemsOf(todo[k])
    BY <1>1, InFileIs
  <2>4. \A i : i \notin ItemsOf(Outbox!Scrap)
    BY EntriesArePosts
  <2> QED
    BY <2>1, <2>2, <2>3, <2>4
<1>7. ASSUME Apart(s) PROVE Apart(todo)
  <2> SUFFICES ASSUME NEW a \in 1 .. Len(todo), NEW b \in 1 .. Len(todo), a # b
               PROVE  ItemsOf(todo[a]) \intersect ItemsOf(todo[b]) = {}
    BY DEF Apart
  <2>1. PICK i \in 1 .. Len(s), j \in 1 .. Len(s) : i # j /\ todo[a] = s[i] /\ todo[b] = s[j]
    BY <1>1
  <2>2. ItemsOf(s[i]) \intersect ItemsOf(s[j]) = {}
    BY <1>7, <2>1 DEF Apart
  <2> QED
    BY <2>1, <2>2
<1> QED
  BY <1>5, <1>6, <1>7 DEF todo

-----------------------------------------------------------------------------
(* What is known of the outbox, whatever fails *)

\* What may still be sent.
Waiting == Outbox!Memory \union (IF Outbox!Flushing THEN Outbox!InFile(Outbox!Todo) \union Outbox!InFile(Outbox!Kept) ELSE Outbox!InFile(outboxOutbox))

OutboxTypes ==
  /\ handed \in 0 .. MaxItems
  /\ batch \in Seq(Outbox!Items) /\ Len(batch) < BatchMax
  /\ outboxPosting \subseteq Posts
  /\ outboxOutbox \in Seq(Outbox!Entries)
  /\ outboxOpen \in BOOLEAN /\ (outboxOpen => outboxOutbox # <<>>
     /\ Outbox!Last(outboxOutbox) = Outbox!Scrap)
  /\ Outbox!Flushing => flush = <<flush[1]>> /\ flush[1] \in Replays
  /\ connected \in BOOLEAN
  /\ received \in [Outbox!Items -> Nat]
  /\ outboxFaults \in 0 .. MaxLost

\* What is told, kept or lost has been handed over.
AllHanded ==
  /\ Outbox!Memory \union Outbox!InFile(outboxOutbox) \subseteq 1 .. handed
  /\ spoken \union crashed \union doubtful \subseteq 1 .. handed
  /\ \A i \in Outbox!Items : received[i] > 0 => i \in 1 .. handed

\* An item is in one place, and in one entry of it.
OnePlace ==
  /\ Outbox!InEntries(outboxPosting) \intersect Outbox!ToSet(batch) = {}
  /\ \A e, f \in outboxPosting : e # f => ItemsOf(e) \intersect ItemsOf(f) = {}
  /\ Apart(outboxOutbox)
  /\ Outbox!InFile(outboxOutbox) \intersect Outbox!Memory = {}
  /\ Outbox!Flushing => /\ Apart(Outbox!Todo) /\ Apart(Outbox!Kept)
                           /\ Outbox!InFile(Outbox!Todo) \intersect Outbox!InFile(Outbox!Kept) = {}
                        /\ Outbox!InFile(Outbox!Todo) \union Outbox!InFile(Outbox!Kept) \subseteq Outbox!InFile(outboxOutbox)

\* What may still be sent has not been received, or nobody can know.
SentOnce == \A i \in Waiting : received[i] > 0 => i \in doubtful

OutboxInv == OutboxTypes /\ AllHanded /\ OnePlace /\ SentOnce /\ Outbox!RepeatsHaveACause

\* With no answer during a replay and no half a line: what a replay has taken from
\* the file is still to be sent, or is settled.
NoneDropped ==
  /\ ~ outboxOpen
  /\ \A i \in 1 .. handed :
       received[i] > 0 \/ i \in spoken \union crashed \union Waiting

LEMMA InEntriesIs ==
  ASSUME NEW P, NEW i
  PROVE  i \in Outbox!InEntries(P) <=> \E e \in P : i \in ItemsOf(e)
BY DEF Outbox!InEntries, ItemsOf

LEMMA InEntriesAdds ==
  ASSUME NEW P, NEW e
  PROVE  /\ Outbox!InEntries(P \union {e}) = Outbox!InEntries(P) \union ItemsOf(e)
         /\ Outbox!InEntries({}) = {}
BY InEntriesIs

LEMMA OutboxInit == Outbox!ParametersAreSound /\ Outbox!Init => OutboxInv /\ NoneDropped
<1> SUFFICES ASSUME Outbox!ParametersAreSound, Outbox!Init PROVE OutboxInv /\ NoneDropped
  OBVIOUS
<1>1. handed = 0 /\ batch = <<>> /\ outboxPosting = {} /\ outboxOutbox = <<>>
      /\ outboxOpen = FALSE /\ flush = <<>>
      /\ connected = TRUE /\ received = [i \in Outbox!Items |-> 0] /\ spoken = {} /\ crashed = {}
      /\ doubtful = {} /\ outboxFaults = 0
  BY DEF Outbox!Init
<1>2. ~Outbox!Flushing /\ Outbox!ToSet(batch) = {} /\ Len(batch) = 0 /\ Len(outboxOutbox) = 0
  BY <1>1 DEF Outbox!Flushing, Outbox!ToSet
<1>3. Outbox!InEntries(outboxPosting) = {} /\ Outbox!InFile(outboxOutbox) = {}
      /\ Apart(outboxOutbox)
  BY <1>1, <1>2, InEntriesIs DEF Outbox!InFile, Outbox!ToSet, Apart
<1>4. Outbox!Memory = {} /\ Waiting = {}
  BY <1>2, <1>3 DEF Outbox!Memory, Waiting
<1>5. OutboxTypes
  <2>1. batch \in Seq(Outbox!Items) /\ outboxOutbox \in Seq(Outbox!Entries)
        /\ received \in [Outbox!Items -> Nat]
    BY <1>1
  <2>2. BatchMax > 0 /\ handed \in 0 .. MaxItems /\ outboxFaults \in 0 .. MaxLost
    BY <1>1 DEF Outbox!ParametersAreSound
  <2> QED
    BY <1>1, <1>2, <2>1, <2>2 DEF OutboxTypes
<1> QED
  BY <1>1, <1>2, <1>3, <1>4, <1>5
     DEF OutboxInv, AllHanded, OnePlace, SentOnce, Outbox!RepeatsHaveACause, NoneDropped

LEMMA ReceivedAdds ==
  ASSUME received \in [Outbox!Items -> Nat], NEW items, received' = Outbox!Received(items)
  PROVE  /\ received' \in [Outbox!Items -> Nat]
         /\ \A i \in Outbox!Items : i \notin items => received'[i] = received[i]
         /\ \A i \in Outbox!Items : i \in items => received'[i] = received[i] + 1
            /\ received'[i] > 0
BY DEF Outbox!Received

\* A new item is nowhere yet.
LEMMA NewItem ==
  ASSUME Outbox!ParametersAreSound, OutboxInv, handed < MaxItems
  PROVE  /\ handed \in Nat /\ handed + 1 \in 1 .. handed + 1
            /\ 1 .. handed \subseteq 1 .. handed + 1
         /\ handed + 1 \in Outbox!Items /\ handed + 1 \in 0 .. MaxItems
         /\ handed + 1 \notin Outbox!Memory \union Outbox!InFile(outboxOutbox)
            /\ handed + 1 \notin Waiting
         /\ ~(received[handed + 1] > 0)
         /\ 1 .. handed + 1 = (1 .. handed) \union {handed + 1}
<1>1. handed \in Nat /\ MaxItems \in Nat /\ handed + 1 \in Outbox!Items
      /\ handed + 1 \notin 1 .. handed
  BY DEF Outbox!ParametersAreSound, OutboxInv, OutboxTypes, Outbox!Items
<1>2. Waiting \subseteq Outbox!Memory \union Outbox!InFile(outboxOutbox)
  BY DEF OutboxInv, OnePlace, Waiting
<1>3. handed + 1 \notin Outbox!Memory \union Outbox!InFile(outboxOutbox)
  BY <1>1 DEF OutboxInv, AllHanded
<1>4. ~(received[handed + 1] > 0)
  BY <1>1 DEF OutboxInv, AllHanded
<1>5. 1 .. handed + 1 = (1 .. handed) \union {handed + 1}
  BY <1>1
<1>6. handed + 1 \in 0 .. MaxItems
  BY <1>1
<1> QED
  BY <1>1, <1>2, <1>3, <1>4, <1>5, <1>6

Keeps == OutboxInv' /\ (~Overlap /\ ~Tears /\ NoneDropped => NoneDropped')

\* Everything between the hands and the post: `new', an item or none, comes into
\* memory, and `out' leaves the batch for a post or is logged.
New(new) ==
  \/ handed' = handed /\ new = {}
  \/ handed < MaxItems /\ handed' = handed + 1 /\ new = {handed + 1}

Leaves(out) ==
  \/ outboxPosting' = outboxPosting /\ spoken' = spoken \union out
  \/ /\ \E e \in Posts : outboxPosting' = outboxPosting \union {e} /\ ItemsOf(e) = out
     /\ spoken' = spoken

Hands(new, out) ==
  /\ New(new) /\ Leaves(out)
  /\ batch' \in Seq(Outbox!Items) /\ Len(batch') < BatchMax
  /\ Outbox!ToSet(batch') \union out = Outbox!ToSet(batch) \union new
     /\ Outbox!ToSet(batch') \intersect out = {}
  /\ UNCHANGED <<outboxOutbox, outboxOpen, flush, connected, received, crashed, doubtful,
     outboxFaults>>

LEMMA HandingKeeps ==
  ASSUME Outbox!ParametersAreSound, OutboxInv, NEW new, NEW out, Hands(new, out)
  PROVE  Keeps
<1>1. /\ handed' \in 0 .. MaxItems /\ 1 .. handed' = (1 .. handed) \union new
      /\ new \intersect (Outbox!Memory \union Outbox!InFile(outboxOutbox) \union Waiting) = {}
      /\ \A i \in new : ~(received[i] > 0)
      /\ new \subseteq Outbox!Items
  <2>1. CASE new = {} /\ handed' = handed
    BY <2>1 DEF OutboxInv, OutboxTypes
  <2>2. CASE handed < MaxItems /\ handed' = handed + 1 /\ new = {handed + 1}
    BY <2>2, NewItem
  <2> QED
    BY <2>1, <2>2 DEF Hands, New
<1>2. /\ outboxPosting' \subseteq Posts
      /\ Outbox!InEntries(outboxPosting') \union Outbox!ToSet(batch') \subseteq Outbox!Memory \union new
      /\ Outbox!Memory \union new \subseteq Outbox!InEntries(outboxPosting') \union Outbox!ToSet(batch') \union spoken'
      /\ Outbox!InEntries(outboxPosting') \intersect Outbox!ToSet(batch') = {}
      /\ \A e, f \in outboxPosting' : e # f => ItemsOf(e) \intersect ItemsOf(f) = {}
      /\ spoken \subseteq spoken' /\ spoken' \subseteq spoken \union Outbox!Memory \union new
  <2>0. /\ outboxPosting \subseteq Posts
           /\ Outbox!InEntries(outboxPosting) \intersect Outbox!ToSet(batch) = {}
        /\ \A e, f \in outboxPosting : e # f => ItemsOf(e) \intersect ItemsOf(f) = {}
        /\ Outbox!Memory = Outbox!ToSet(batch) \union Outbox!InEntries(outboxPosting)
    BY DEF OutboxInv, OutboxTypes, OnePlace, Outbox!Memory
  <2>1. CASE outboxPosting' = outboxPosting /\ spoken' = spoken \union out
    BY <1>1, <2>0, <2>1 DEF Hands
  <2>2. ASSUME NEW e \in Posts, outboxPosting' = outboxPosting \union {e}, ItemsOf(e) = out,
        spoken' = spoken
        PROVE  <1>2
    <3>1. Outbox!InEntries(outboxPosting') = Outbox!InEntries(outboxPosting) \union out
      BY <2>2, InEntriesAdds
    <3>2. Outbox!InEntries(outboxPosting) \intersect out = {}
      BY <1>1, <2>0 DEF Hands
    <3>3. \A f \in outboxPosting : ItemsOf(f) \intersect out = {}
      BY <3>2, InEntriesIs
    <3>4. \A x, f \in outboxPosting' : x # f => ItemsOf(x) \intersect ItemsOf(f) = {}
      BY <2>0, <2>2, <3>3
    <3> QED
      BY <1>1, <2>0, <2>2, <3>1, <3>2, <3>4 DEF Hands
  <2> QED
    BY <2>1, <2>2 DEF Hands, Leaves
<1>3. Outbox!Memory' = Outbox!InEntries(outboxPosting') \union Outbox!ToSet(batch')
  BY DEF Outbox!Memory
<1>4. Outbox!Flushing' = Outbox!Flushing /\ Outbox!Todo' = Outbox!Todo /\ Outbox!Kept' = Outbox!Kept
  BY DEF Outbox!Flushing, Outbox!Todo, Outbox!Kept, Hands
<1>5. Waiting' \subseteq Waiting \union new /\ Waiting \union new \subseteq Waiting' \union spoken'
  BY <1>2, <1>3, <1>4 DEF Waiting, Hands
<1>6. OutboxTypes'
  BY <1>1, <1>2, <1>4 DEF OutboxInv, OutboxTypes, Hands
<1>7. AllHanded'
  BY <1>1, <1>2, <1>3 DEF OutboxInv, AllHanded, Hands
<1>8. OnePlace'
  BY <1>1, <1>2, <1>3, <1>4 DEF OutboxInv, OnePlace, Hands
<1>9. SentOnce' /\ Outbox!RepeatsHaveACause'
  BY <1>1, <1>5 DEF OutboxInv, SentOnce, Outbox!RepeatsHaveACause, Hands
<1>10. NoneDropped => NoneDropped'
  BY <1>1, <1>2, <1>5 DEF NoneDropped, Hands
<1> QED
  BY <1>6, <1>7, <1>8, <1>9, <1>10 DEF Keeps, OutboxInv

LEMMA HandingStep ==
  ASSUME Outbox!ParametersAreSound, OutboxInv, Outbox!ReportTransition \/ Outbox!QueueEvent
      \/ Outbox!BatchTimer
  PROVE  Keeps
<1>0. batch \in Seq(Outbox!Items) /\ Len(batch) < BatchMax /\ BatchMax \in Nat \ {0}
      /\ Len(batch) \in Nat
  BY DEF OutboxInv, OutboxTypes, Outbox!ParametersAreSound
<1>1. CASE Outbox!ReportTransition
  <2>0. /\ handed < MaxItems /\ handed' = handed + 1
        /\ UNCHANGED <<batch, outboxOutbox, outboxOpen, flush, connected, received, crashed,
           doubtful, outboxFaults>>
        /\ \/ outboxPosting' = outboxPosting \union {Outbox!Entry("transition", <<handed + 1>>)}
              /\ UNCHANGED spoken
           \/ spoken' = spoken \union {handed + 1} /\ UNCHANGED outboxPosting
    BY <1>1 DEF Outbox!ReportTransition
  <2>1. handed + 1 \in Outbox!Items /\ handed + 1 \notin Outbox!ToSet(batch)
    BY <2>0, NewItem DEF Outbox!Memory
  <2>2. Outbox!Entry("transition", <<handed + 1>>) \in Posts
        /\ ItemsOf(Outbox!Entry("transition", <<handed + 1>>)) = {handed + 1}
    BY <2>1 DEF Outbox!Entry, Posts, ItemsOf, Outbox!ToSet
  <2>3. New({handed + 1}) /\ Leaves({handed + 1})
    BY <2>0, <2>2 DEF New, Leaves
  <2>4. Hands({handed + 1}, {handed + 1})
    BY <1>0, <2>0, <2>1, <2>3 DEF Hands
  <2> QED
    BY <2>4, HandingKeeps
<1>2. ASSUME NEW events \in Seq(Outbox!Items), NEW new,
      Outbox!ToSet(events) = Outbox!ToSet(batch) \union new, Outbox!Send(events),
             New(new), UNCHANGED <<outboxOutbox, outboxOpen, flush, connected, received, crashed,
                 doubtful, outboxFaults>>
      PROVE  Keeps
  <2>1. batch' = <<>> /\ Outbox!ToSet(batch') = {} /\ Len(batch') < BatchMax
        /\ batch' \in Seq(Outbox!Items)
    BY <1>0, <1>2 DEF Outbox!Send, Outbox!ToSet
  <2>2. Outbox!Entry("events", events) \in Posts
        /\ ItemsOf(Outbox!Entry("events", events)) = Outbox!ToSet(events)
    BY <1>2 DEF Outbox!Entry, Posts, ItemsOf
  <2>3. \/ outboxPosting' = outboxPosting /\ spoken' = spoken \union Outbox!ToSet(events)
        \/ outboxPosting' = outboxPosting \union {Outbox!Entry("events", events)}
           /\ spoken' = spoken
    BY <1>2 DEF Outbox!Send
  <2>4. Leaves(Outbox!ToSet(events))
    BY <2>2, <2>3 DEF Leaves
  <2>5. Hands(new, Outbox!ToSet(events))
    BY <1>2, <2>1, <2>4 DEF Hands
  <2> QED
    BY <2>5, HandingKeeps
<1>3. CASE Outbox!QueueEvent
  <2> DEFINE events == Append(batch, handed + 1)
  <2>0. handed < MaxItems /\ handed' = handed + 1
        /\ UNCHANGED <<outboxOutbox, outboxOpen, flush, connected, received, crashed, doubtful,
           outboxFaults>>
    BY <1>3 DEF Outbox!QueueEvent
  <2>1. handed + 1 \in Outbox!Items
    BY <2>0, NewItem
  <2>2. events \in Seq(Outbox!Items)
        /\ Outbox!ToSet(events) = Outbox!ToSet(batch) \union {handed + 1} /\ Len(events) \in Nat
    <3>1. events \in Seq(Outbox!Items) /\ Len(events) = Len(batch) + 1
          /\ events[Len(batch) + 1] = handed + 1
          /\ \A k \in 1 .. Len(batch) : events[k] = batch[k]
      BY <1>0, <2>1
    <3>2. DOMAIN events = 1 .. Len(batch) + 1 /\ DOMAIN batch = 1 .. Len(batch)
      BY <1>0, <3>1
    <3>3. \A k \in 1 .. Len(batch) + 1 : k \in 1 .. Len(batch) \/ k = Len(batch) + 1
      BY <1>0
    <3> HIDE DEF events
    <3>4. Outbox!ToSet(events) = Outbox!ToSet(batch) \union {handed + 1}
      BY <1>0, <3>1, <3>2, <3>3 DEF Outbox!ToSet
    <3> QED
      BY <1>0, <3>1, <3>4
  <2>n. New({handed + 1})
    BY <2>0 DEF New
  <2>3. CASE Outbox!BatchFull(events)
    <3>1. Outbox!Send(events)
      BY <1>3, <2>3 DEF Outbox!QueueEvent
    <3> HIDE DEF events
    <3> QED
      BY <1>2, <2>0, <2>2, <2>n, <3>1
  <2>4. CASE ~Outbox!BatchFull(events)
    <3>1. batch' = events /\ UNCHANGED <<outboxPosting, spoken>>
      BY <1>3, <2>4 DEF Outbox!QueueEvent
    <3>2. Len(events) < BatchMax
      BY <1>0, <2>2, <2>4 DEF Outbox!BatchFull
    <3> HIDE DEF events
    <3>3. Leaves({})
      BY <3>1 DEF Leaves
    <3>4. Hands({handed + 1}, {})
      BY <2>0, <2>2, <2>n, <3>1, <3>2, <3>3 DEF Hands
    <3> QED
      BY <3>4, HandingKeeps
  <2> QED
    BY <2>3, <2>4
<1>4. CASE Outbox!BatchTimer
  <2>1. Outbox!Send(batch) /\ UNCHANGED <<handed, outboxOutbox, outboxOpen, flush, connected,
        received, crashed, doubtful, outboxFaults>>
    BY <1>4 DEF Outbox!BatchTimer
  <2>2. New({})
    BY <2>1 DEF New
  <2> QED
    BY <1>0, <1>2, <2>1, <2>2
<1> QED
  BY <1>1, <1>3, <1>4

-----------------------------------------------------------------------------
(* AnswerIs and replays *)

\* The hub has received `got' once more.
Got(got) ==
  /\ received' \in [Outbox!Items -> Nat]
  /\ \A i \in Outbox!Items : i \notin got => received'[i] = received[i]
  /\ \A i \in Outbox!Items : i \in got => received'[i] = received[i] + 1 /\ received'[i] > 0

LEMMA NothingGot ==
  ASSUME OutboxTypes, UNCHANGED received
  PROVE  Got({})
BY DEF Got, OutboxTypes

\* A file line that was torn stays the last one, and is all that `open' can mean.
FileIs(file, torn) ==
  /\ file \in Seq(Outbox!Entries) /\ Apart(file)
  /\ torn \in BOOLEAN /\ (torn => file # <<>> /\ Outbox!Last(file) = Outbox!Scrap)

LEMMA AppendedIs ==
  ASSUME OutboxInv, NEW e \in Posts, ItemsOf(e) \intersect Outbox!InFile(outboxOutbox) = {},
         outboxOutbox' = Outbox!Appended(e), outboxOpen' = FALSE
  PROVE  /\ FileIs(outboxOutbox', outboxOpen')
         /\ Outbox!InFile(outboxOutbox) \subseteq Outbox!InFile(outboxOutbox')
         /\ Outbox!InFile(outboxOutbox') \subseteq Outbox!InFile(outboxOutbox) \union ItemsOf(e)
         /\ ~outboxOpen => Outbox!InFile(outboxOutbox') = Outbox!InFile(outboxOutbox) \union ItemsOf(e)
<1>1. outboxOutbox \in Seq(Outbox!Entries) /\ Apart(outboxOutbox)
      /\ (outboxOpen => outboxOutbox # <<>> /\ Outbox!Last(outboxOutbox) = Outbox!Scrap)
      /\ e \in Outbox!Entries /\ Outbox!Scrap \in Outbox!Entries /\ ItemsOf(Outbox!Scrap) = {}
  BY EntriesArePosts DEF OutboxInv, OutboxTypes, OnePlace
<1>2. CASE ~outboxOpen
  <2>1. outboxOutbox' = Append(outboxOutbox, e)
    BY <1>2 DEF Outbox!Appended
  <2>2. outboxOutbox' \in Seq(Outbox!Entries)
        /\ Outbox!InFile(outboxOutbox') = Outbox!InFile(outboxOutbox) \union ItemsOf(e)
           /\ Apart(outboxOutbox')
    BY <1>1, <2>1, FileAppends
  <2> QED
    BY <1>2, <2>2 DEF FileIs
<1>3. CASE outboxOpen
  <2>1. outboxOutbox' = Append(Outbox!Front(outboxOutbox), Outbox!Scrap)
    BY <1>3 DEF Outbox!Appended
  <2>2. Outbox!Front(outboxOutbox) \in Seq(Outbox!Entries)
        /\ Outbox!InFile(Outbox!Front(outboxOutbox)) = Outbox!InFile(outboxOutbox)
           /\ Apart(Outbox!Front(outboxOutbox))
    BY <1>1, <1>3, FileLosesScrap
  <2> DEFINE file == Outbox!Front(outboxOutbox)
  <2>0. file \in Seq(Outbox!Entries) /\ Apart(file)
        /\ ItemsOf(Outbox!Scrap) \intersect Outbox!InFile(file) = {}
    BY <1>1, <2>2
  <2> HIDE DEF file
  <2>3. /\ Append(file, Outbox!Scrap) \in Seq(Outbox!Entries)
        /\ Outbox!InFile(Append(file, Outbox!Scrap)) = Outbox!InFile(file) \union ItemsOf(Outbox!Scrap)
        /\ Apart(Append(file, Outbox!Scrap))
    BY <1>1, <2>0, FileAppends
  <2> QED
    BY <1>1, <1>3, <2>1, <2>2, <2>3 DEF FileIs, file
<1> QED
  BY <1>2, <1>3

\* A post that leaves the table.
LEMMA PostTaken ==
  ASSUME OutboxInv, NEW e \in outboxPosting, outboxPosting' = outboxPosting \ {e}, UNCHANGED batch
  PROVE  /\ e \in Posts /\ outboxPosting' \subseteq Posts
         /\ ItemsOf(e) \subseteq Outbox!Memory /\ ItemsOf(e) \subseteq Waiting
         /\ Outbox!Memory' = Outbox!Memory \ ItemsOf(e)
         /\ ItemsOf(e) \intersect Outbox!InFile(outboxOutbox) = {}
         /\ Outbox!InEntries(outboxPosting') \intersect Outbox!ToSet(batch') = {}
         /\ \A x, f \in outboxPosting' : x # f => ItemsOf(x) \intersect ItemsOf(f) = {}
<1>0. /\ outboxPosting \subseteq Posts
         /\ Outbox!InEntries(outboxPosting) \intersect Outbox!ToSet(batch) = {}
      /\ \A x, f \in outboxPosting : x # f => ItemsOf(x) \intersect ItemsOf(f) = {}
      /\ Outbox!InFile(outboxOutbox) \intersect Outbox!Memory = {}
      /\ Outbox!Memory = Outbox!ToSet(batch) \union Outbox!InEntries(outboxPosting)
  BY DEF OutboxInv, OutboxTypes, OnePlace, Outbox!Memory
<1>1. ItemsOf(e) \subseteq Outbox!InEntries(outboxPosting)
  BY InEntriesIs
<1>2. Outbox!InEntries(outboxPosting') = Outbox!InEntries(outboxPosting) \ ItemsOf(e)
  <2>1. \A i : i \in Outbox!InEntries(outboxPosting') <=> \E f \in outboxPosting' : i \in ItemsOf(f)
    BY InEntriesIs
  <2>2. \A i : i \in Outbox!InEntries(outboxPosting) <=> \E f \in outboxPosting : i \in ItemsOf(f)
    BY InEntriesIs
  <2>3. \A f \in outboxPosting' : f \in outboxPosting /\ ItemsOf(f) \intersect ItemsOf(e) = {}
    BY <1>0
  <2> QED
    BY <2>1, <2>2, <2>3
<1>3. Outbox!Memory' = Outbox!ToSet(batch) \union Outbox!InEntries(outboxPosting')
  BY DEF Outbox!Memory
<1> QED
  BY <1>0, <1>1, <1>2, <1>3 DEF Waiting

\* The answer to a post: its items are received or not, and go to the file, are
\* logged, or are doubted.
AnswerIs(e, got) ==
  /\ outboxPosting' = outboxPosting \ {e} /\ Got(got) /\ got \in {{}, ItemsOf(e)}
  /\ FileIs(outboxOutbox', outboxOpen') /\ (~outboxOpen => ~outboxOpen')
  /\ Outbox!InFile(outboxOutbox) \subseteq Outbox!InFile(outboxOutbox')
     /\ Outbox!InFile(outboxOutbox') \subseteq Outbox!InFile(outboxOutbox) \union ItemsOf(e)
  /\ doubtful \subseteq doubtful' /\ doubtful' \subseteq doubtful \union ItemsOf(e)
  /\ spoken \subseteq spoken' /\ spoken' \subseteq spoken \union ItemsOf(e)
  /\ Outbox!InFile(outboxOutbox') = Outbox!InFile(outboxOutbox) \/ got \subseteq doubtful'
  /\ \/ ItemsOf(e) \subseteq got \union spoken'
     \/ (Overlap \/ ~Outbox!Flushing)
        /\ (~outboxOpen => ItemsOf(e) \subseteq Outbox!InFile(outboxOutbox'))
  /\ outboxFaults' \in 0 .. MaxLost
  /\ UNCHANGED <<handed, batch, flush, connected, crashed>>

LEMMA AnsweringKeeps ==
  ASSUME Outbox!ParametersAreSound, OutboxInv, NEW e \in outboxPosting, NEW got, AnswerIs(e, got)
  PROVE  Keeps
<1>1. /\ e \in Posts /\ outboxPosting' \subseteq Posts
      /\ ItemsOf(e) \subseteq Outbox!Memory /\ ItemsOf(e) \subseteq Waiting
      /\ Outbox!Memory' = Outbox!Memory \ ItemsOf(e)
      /\ ItemsOf(e) \intersect Outbox!InFile(outboxOutbox) = {}
      /\ Outbox!InEntries(outboxPosting') \intersect Outbox!ToSet(batch') = {}
      /\ \A x, f \in outboxPosting' : x # f => ItemsOf(x) \intersect ItemsOf(f) = {}
  BY PostTaken DEF AnswerIs
<1>2. Outbox!Flushing' = Outbox!Flushing /\ Outbox!Todo' = Outbox!Todo /\ Outbox!Kept' = Outbox!Kept
  BY DEF Outbox!Flushing, Outbox!Todo, Outbox!Kept, AnswerIs
<1>3. /\ Waiting' \subseteq Waiting
      /\ Outbox!InFile(outboxOutbox') = Outbox!InFile(outboxOutbox) => Waiting' \intersect ItemsOf(e) = {}
      /\ Waiting \subseteq Waiting' \union ItemsOf(e)
      /\ ~Outbox!Flushing => Outbox!InFile(outboxOutbox') \subseteq Waiting'
  <2>1. Outbox!Flushing => Outbox!InFile(Outbox!Todo) \union Outbox!InFile(Outbox!Kept) \subseteq Outbox!InFile(outboxOutbox)
    BY DEF OutboxInv, OnePlace
  <2> QED
    BY <1>1, <1>2, <2>1 DEF Waiting, AnswerIs
<1>4. Outbox!Memory \subseteq 1 .. handed /\ Waiting \subseteq Outbox!Items
  <2>1. Outbox!Memory \union Outbox!InFile(outboxOutbox) \subseteq 1 .. handed /\ handed \in Nat
        /\ handed <= MaxItems
    BY DEF OutboxInv, AllHanded, OutboxTypes, Outbox!ParametersAreSound
  <2>2. 1 .. handed \subseteq Outbox!Items
    BY <2>1 DEF Outbox!Items, Outbox!ParametersAreSound
  <2> QED
    BY <2>1, <2>2 DEF Waiting, OutboxInv, OnePlace
<1>5. got \subseteq ItemsOf(e) /\ Got(got)
  BY DEF AnswerIs
<1>6. OutboxTypes'
  BY <1>1, <1>2 DEF OutboxInv, OutboxTypes, AnswerIs, Got, FileIs
<1>7. AllHanded'
  <2>1. \A i \in Outbox!Items : received'[i] > 0 => i \in 1 .. handed
    BY <1>1, <1>4, <1>5 DEF OutboxInv, AllHanded, Got
  <2> QED
    BY <1>1, <1>4, <2>1 DEF OutboxInv, AllHanded, AnswerIs
<1>8. OnePlace'
  BY <1>1, <1>2 DEF OutboxInv, OnePlace, AnswerIs, FileIs
<1>9. SentOnce'
  <2> SUFFICES ASSUME NEW i \in Waiting', received'[i] > 0 PROVE i \in doubtful'
    BY DEF SentOnce
  <2>1. i \in Waiting /\ i \in Outbox!Items
    BY <1>3, <1>4
  <2>2. CASE i \notin got
    BY <1>5, <2>1, <2>2 DEF OutboxInv, SentOnce, Got, AnswerIs
  <2>3. CASE i \in got
    BY <1>3, <1>5, <2>3 DEF AnswerIs
  <2> QED
    BY <2>2, <2>3
<1>10. Outbox!RepeatsHaveACause'
  <2> SUFFICES ASSUME NEW i \in Outbox!Items, received'[i] > 1 PROVE i \in doubtful'
    BY DEF Outbox!RepeatsHaveACause
  <2>1. CASE i \notin got
    BY <1>5, <2>1 DEF OutboxInv, Outbox!RepeatsHaveACause, Got, AnswerIs
  <2>2. CASE i \in got
    <3>1. received[i] > 0 /\ i \in Waiting
      BY <1>1, <1>5, <2>2 DEF Got, OutboxInv, OutboxTypes
    <3> QED
      BY <3>1 DEF OutboxInv, SentOnce, AnswerIs
  <2> QED
    BY <2>1, <2>2
<1>11. ASSUME ~Overlap, NoneDropped PROVE NoneDropped'
  <2> SUFFICES ASSUME NEW i \in 1 .. handed
               PROVE  received'[i] > 0 \/ i \in spoken' \union crashed' \union Waiting'
    BY <1>11 DEF NoneDropped, AnswerIs
  <2>0. i \in Outbox!Items /\ ~outboxOpen /\ (received[i] > 0
        \/ i \in spoken \union crashed \union Waiting)
    BY <1>11 DEF NoneDropped, Outbox!Items, OutboxInv, OutboxTypes, Outbox!ParametersAreSound
  <2>1. received[i] > 0 => received'[i] > 0
    BY <1>5, <2>0 DEF Got
  <2>2. CASE i \in ItemsOf(e)
    BY <1>3, <1>5, <1>11, <2>0, <2>2 DEF Got, AnswerIs
  <2>3. CASE i \notin ItemsOf(e)
    BY <1>3, <2>0, <2>1, <2>3 DEF AnswerIs
  <2> QED
    BY <2>2, <2>3
<1> QED
  BY <1>6, <1>7, <1>8, <1>9, <1>10, <1>11 DEF Keeps, OutboxInv

LEMMA AnswerStep ==
  ASSUME Outbox!ParametersAreSound, OutboxInv, Outbox!Answer
  PROVE  Keeps
<1>1. PICK e \in outboxPosting :
         /\ outboxPosting' = outboxPosting \ {e}
         /\ Outbox!Accepted(e) \/ Outbox!Refused(e) \/ Outbox!Unanswered(e)
         /\ UNCHANGED <<handed, batch, flush, connected, crashed>>
  BY DEF Outbox!Answer
<1>2. /\ e \in Posts /\ ItemsOf(e) \intersect Outbox!InFile(outboxOutbox) = {}
      /\ OutboxTypes /\ FileIs(outboxOutbox, outboxOpen) /\ outboxFaults \in 0 .. MaxLost
      /\ ItemsOf(e) = Outbox!ToSet(e.items)
  BY <1>1, PostTaken DEF OutboxInv, OnePlace, OutboxTypes, FileIs, ItemsOf
<1>3. ASSUME received' = Outbox!Received(ItemsOf(e)) PROVE Got(ItemsOf(e))
  BY <1>2, <1>3, ReceivedAdds DEF Got, OutboxTypes
<1>4. CASE Outbox!Accepted(e)
  <2>1. received' = Outbox!Received(ItemsOf(e))
        /\ UNCHANGED <<outboxOutbox, outboxOpen, spoken, doubtful, outboxFaults>>
    BY <1>2, <1>4 DEF Outbox!Accepted
  <2>2. Got(ItemsOf(e))
    BY <1>3, <2>1
  <2>3. FileIs(outboxOutbox', outboxOpen')
        /\ Outbox!InFile(outboxOutbox') = Outbox!InFile(outboxOutbox) /\ outboxOpen' = outboxOpen
    BY <1>2, <2>1
  <2>4. AnswerIs(e, ItemsOf(e))
    BY <1>1, <1>2, <2>1, <2>2, <2>3 DEF AnswerIs
  <2> QED
    BY <2>4, AnsweringKeeps
<1>5. CASE Outbox!Refused(e)
  <2>1. spoken' = spoken \union ItemsOf(e)
        /\ UNCHANGED <<outboxOutbox, outboxOpen, received, doubtful, outboxFaults>>
    BY <1>2, <1>5 DEF Outbox!Refused
  <2>2. Got({})
    BY <1>2, <2>1, NothingGot
  <2>3. FileIs(outboxOutbox', outboxOpen')
        /\ Outbox!InFile(outboxOutbox') = Outbox!InFile(outboxOutbox) /\ outboxOpen' = outboxOpen
    BY <1>2, <2>1
  <2>4. AnswerIs(e, {})
    BY <1>1, <1>2, <2>1, <2>2, <2>3 DEF AnswerIs
  <2> QED
    BY <2>4, AnsweringKeeps
<1>6. CASE Outbox!Unanswered(e)
  <2>1. /\ outboxFaults' \in 0 .. MaxLost /\ (Overlap \/ ~Outbox!Flushing)
        /\ \/ UNCHANGED <<received, doubtful>>
           \/ received' = Outbox!Received(ItemsOf(e)) /\ doubtful' = doubtful \union ItemsOf(e)
        /\ \/ outboxOutbox' = Outbox!Appended(e) /\ outboxOpen' = FALSE /\ UNCHANGED spoken
           \/ spoken' = spoken \union ItemsOf(e) /\ UNCHANGED <<outboxOutbox, outboxOpen>>
    <3>1. outboxFaults < MaxLost /\ outboxFaults' = outboxFaults + 1
      BY <1>6 DEF Outbox!Unanswered
    <3>2. outboxFaults' \in 0 .. MaxLost
      BY <1>2, <3>1 DEF Outbox!ParametersAreSound
    <3> QED
      BY <1>2, <1>6, <3>2 DEF Outbox!Unanswered
  <2>2. PICK got \in {{}, ItemsOf(e)} :
          Got(got) /\ got \subseteq doubtful' /\ doubtful \subseteq doubtful'
          /\ doubtful' \subseteq doubtful \union ItemsOf(e)
    <3>1. CASE UNCHANGED <<received, doubtful>>
      BY <1>2, <3>1, NothingGot
    <3>2. CASE received' = Outbox!Received(ItemsOf(e)) /\ doubtful' = doubtful \union ItemsOf(e)
      BY <1>3, <3>2
    <3> QED
      BY <2>1, <3>1, <3>2
  <2>3. CASE outboxOutbox' = Outbox!Appended(e) /\ outboxOpen' = FALSE /\ UNCHANGED spoken
    <3>1. /\ FileIs(outboxOutbox', outboxOpen')
          /\ Outbox!InFile(outboxOutbox) \subseteq Outbox!InFile(outboxOutbox')
          /\ Outbox!InFile(outboxOutbox') \subseteq Outbox!InFile(outboxOutbox) \union ItemsOf(e)
          /\ ~outboxOpen => Outbox!InFile(outboxOutbox') = Outbox!InFile(outboxOutbox) \union ItemsOf(e)
      BY <1>2, <2>3, AppendedIs
    <3>2. AnswerIs(e, got)
      BY <1>1, <2>1, <2>2, <2>3, <3>1 DEF AnswerIs
    <3> QED
      BY <3>2, AnsweringKeeps
  <2>4. CASE spoken' = spoken \union ItemsOf(e) /\ UNCHANGED <<outboxOutbox, outboxOpen>>
    <3>1. FileIs(outboxOutbox', outboxOpen')
          /\ Outbox!InFile(outboxOutbox') = Outbox!InFile(outboxOutbox) /\ outboxOpen' = outboxOpen
      BY <1>2, <2>4
    <3>2. AnswerIs(e, got)
      BY <1>1, <2>1, <2>2, <2>4, <3>1 DEF AnswerIs
    <3> QED
      BY <3>2, AnsweringKeeps
  <2> QED
    BY <2>1, <2>3, <2>4
<1> QED
  BY <1>1, <1>4, <1>5, <1>6

LEMMA FlushStartStep ==
  ASSUME Outbox!ParametersAreSound, OutboxInv, Outbox!FlushStart
  PROVE  Keeps
<1> DEFINE todo == Outbox!Only(outboxOutbox,
    {line \in Outbox!ToSet(outboxOutbox) : Outbox!IsEntry(line)})
<1>1. /\ ~Outbox!Flushing
      /\ flush' = <<[todo |-> todo, kept |-> <<>>, creds |-> connected]>>
      /\ UNCHANGED <<handed, batch, outboxPosting, outboxOutbox, outboxOpen, connected, received,
         spoken, crashed,
                     doubtful, outboxFaults>>
  BY DEF Outbox!FlushStart
<1>2. todo \in Seq(Posts) /\ Outbox!InFile(todo) = Outbox!InFile(outboxOutbox) /\ Apart(todo)
  BY FileIsRead DEF OutboxInv, OutboxTypes, OnePlace
<1> HIDE DEF todo
<1>3. Outbox!Flushing' /\ Outbox!Todo' = todo /\ Outbox!Kept' = <<>>
  BY <1>1 DEF Outbox!Flushing, Outbox!Todo, Outbox!Kept
<1>4. Outbox!InFile(<<>>) = {} /\ Apart(<<>>) /\ <<>> \in Seq(Posts)
  BY InEntriesIs DEF Outbox!InFile, Apart, Outbox!ToSet
<1>5. Outbox!Memory' = Outbox!Memory /\ Waiting' = Waiting
      /\ Outbox!InFile(outboxOutbox') = Outbox!InFile(outboxOutbox)
  BY <1>1, <1>2, <1>3, <1>4 DEF Outbox!Memory, Waiting
<1>6. OutboxTypes'
  <2>1. connected \in BOOLEAN
    BY DEF OutboxInv, OutboxTypes
  <2>2. flush'[1] \in Replays /\ flush' = <<flush'[1]>>
    BY <1>1, <1>2, <1>4, <2>1 DEF Replays
  <2> QED
    BY <1>1, <2>2 DEF OutboxInv, OutboxTypes
<1>7. OnePlace'
  BY <1>1, <1>2, <1>3, <1>4, <1>5 DEF OutboxInv, OnePlace
<1>8. AllHanded' /\ SentOnce' /\ Outbox!RepeatsHaveACause'
  BY <1>1, <1>5 DEF OutboxInv, AllHanded, SentOnce, Outbox!RepeatsHaveACause
<1>9. NoneDropped => NoneDropped'
  BY <1>1, <1>5 DEF NoneDropped
<1> QED
  BY <1>6, <1>7, <1>8, <1>9 DEF Keeps, OutboxInv

\* One entry of the replay has its came: it is received or not, and kept, or
\* logged, or done with.
Replayed(items, keep, got) ==
  /\ Outbox!Flushing /\ Outbox!Todo # <<>> /\ items = ItemsOf(Head(Outbox!Todo)) /\ keep \in BOOLEAN
  /\ flush' = <<[flush[1] EXCEPT !.todo = Tail(Outbox!Todo),
                                 !.kept = IF keep THEN Append(Outbox!Kept,
                                     Head(Outbox!Todo)) ELSE Outbox!Kept]>>
  /\ Got(got) /\ got \in {{}, items}
  /\ doubtful \subseteq doubtful' /\ doubtful' \subseteq doubtful \union items
  /\ spoken \subseteq spoken' /\ spoken' \subseteq spoken \union items
  /\ keep => got \subseteq doubtful'
  /\ ~keep => items \subseteq got \union spoken'
  /\ outboxFaults' \in 0 .. MaxLost
  /\ UNCHANGED <<handed, batch, outboxPosting, outboxOutbox, outboxOpen, connected, crashed>>

LEMMA ReplayingKeeps ==
  ASSUME Outbox!ParametersAreSound, OutboxInv, NEW items, NEW keep, NEW got, Replayed(items,
      keep, got)
  PROVE  Keeps
<1> DEFINE h == Head(Outbox!Todo)
           kept == IF keep THEN Append(Outbox!Kept, h) ELSE Outbox!Kept
<1>1. /\ flush = <<flush[1]>> /\ flush[1] \in Replays /\ Outbox!Flushing
      /\ Outbox!Todo \in Seq(Posts) /\ Outbox!Kept \in Seq(Posts) /\ Outbox!Todo # <<>>
      /\ Apart(Outbox!Todo) /\ Apart(Outbox!Kept)
         /\ Outbox!InFile(Outbox!Todo) \intersect Outbox!InFile(Outbox!Kept) = {}
      /\ Outbox!InFile(Outbox!Todo) \union Outbox!InFile(Outbox!Kept) \subseteq Outbox!InFile(outboxOutbox)
      /\ Outbox!InFile(outboxOutbox) \intersect Outbox!Memory = {}
  BY DEF OutboxInv, OutboxTypes, OnePlace, Replays, Outbox!Todo, Outbox!Kept, Replayed
<1>2. /\ h \in Posts /\ Tail(Outbox!Todo) \in Seq(Posts) /\ Apart(Tail(Outbox!Todo))
      /\ Outbox!InFile(Outbox!Todo) = items \union Outbox!InFile(Tail(Outbox!Todo))
         /\ items \intersect Outbox!InFile(Tail(Outbox!Todo)) = {}
  BY <1>1, FileShrinks DEF Replayed
<1>3. kept \in Seq(Posts) /\ Apart(kept)
      /\ Outbox!InFile(kept) = Outbox!InFile(Outbox!Kept) \union (IF keep THEN items ELSE {})
  <2>1. items = ItemsOf(h) /\ keep \in BOOLEAN
        /\ ItemsOf(h) \intersect Outbox!InFile(Outbox!Kept) = {}
    BY <1>1, <1>2 DEF Replayed
  <2> HIDE DEF h
  <2>2. /\ Append(Outbox!Kept, h) \in Seq(Posts)
           /\ Outbox!InFile(Append(Outbox!Kept, h)) = Outbox!InFile(Outbox!Kept) \union ItemsOf(h)
        /\ Apart(Append(Outbox!Kept, h))
    BY <1>1, <1>2, <2>1, FileAppends
  <2>3. CASE keep
    BY <2>1, <2>2, <2>3
  <2>4. CASE ~keep
    BY <1>1, <2>4
  <2> QED
    BY <2>1, <2>3, <2>4
<1>4. flush' = <<[flush[1] EXCEPT !.todo = Tail(Outbox!Todo), !.kept = kept]>>
  BY DEF Replayed
<1> HIDE DEF kept, h
<1>5. Outbox!Flushing' /\ Outbox!Todo' = Tail(Outbox!Todo) /\ Outbox!Kept' = kept
      /\ flush'[1] \in Replays /\ flush' = <<flush'[1]>>
  BY <1>1, <1>2, <1>3, <1>4 DEF Outbox!Flushing, Outbox!Todo, Outbox!Kept, Replays
<1>6. /\ Outbox!Memory' = Outbox!Memory
         /\ Outbox!InFile(outboxOutbox') = Outbox!InFile(outboxOutbox)
      /\ Waiting' \subseteq Waiting
      /\ ~keep => Waiting' \intersect items = {}
      /\ Waiting \subseteq Waiting' \union items /\ items \subseteq Waiting
      /\ keep => Waiting' = Waiting
  <2>1. Outbox!Memory' = Outbox!Memory /\ Outbox!InFile(outboxOutbox') = Outbox!InFile(outboxOutbox)
    BY DEF Outbox!Memory, Replayed
  <2>2. keep \in BOOLEAN
    BY DEF Replayed
  <2> QED
    BY <1>1, <1>2, <1>3, <1>5, <2>1, <2>2 DEF Waiting
<1>7. items \subseteq 1 .. handed /\ Waiting \subseteq Outbox!Items
  <2>1. Outbox!Memory \union Outbox!InFile(outboxOutbox) \subseteq 1 .. handed /\ handed \in Nat
        /\ handed <= MaxItems
    BY DEF OutboxInv, AllHanded, OutboxTypes, Outbox!ParametersAreSound
  <2>2. 1 .. handed \subseteq Outbox!Items
    BY <2>1 DEF Outbox!Items, Outbox!ParametersAreSound
  <2> QED
    BY <1>1, <1>2, <2>1, <2>2 DEF Waiting
<1>8. got \subseteq items /\ Got(got)
  BY DEF Replayed
<1>9. OutboxTypes'
  BY <1>5 DEF OutboxInv, OutboxTypes, Replayed, Got
<1>10. AllHanded'
  <2>1. \A i \in Outbox!Items : received'[i] > 0 => i \in 1 .. handed
    BY <1>7, <1>8 DEF OutboxInv, AllHanded, Got
  <2> QED
    BY <1>6, <1>7, <2>1 DEF OutboxInv, AllHanded, Replayed
<1>11. OnePlace'
  <2>1. Outbox!InFile(Outbox!Todo') \intersect Outbox!InFile(Outbox!Kept') = {}
        /\ Outbox!InFile(Outbox!Todo') \union Outbox!InFile(Outbox!Kept') \subseteq Outbox!InFile(outboxOutbox)
    BY <1>1, <1>2, <1>3, <1>5
  <2> QED
    BY <1>2, <1>3, <1>5, <1>6, <2>1 DEF OutboxInv, OnePlace, Replayed
<1>12. SentOnce'
  <2> SUFFICES ASSUME NEW i \in Waiting', received'[i] > 0 PROVE i \in doubtful'
    BY DEF SentOnce
  <2>1. i \in Waiting /\ i \in Outbox!Items
    BY <1>6, <1>7
  <2>2. CASE i \notin got
    BY <1>8, <2>1, <2>2 DEF OutboxInv, SentOnce, Got, Replayed
  <2>3. CASE i \in got
    BY <1>6, <1>8, <2>3 DEF Replayed
  <2> QED
    BY <2>2, <2>3
<1>13. Outbox!RepeatsHaveACause'
  <2> SUFFICES ASSUME NEW i \in Outbox!Items, received'[i] > 1 PROVE i \in doubtful'
    BY DEF Outbox!RepeatsHaveACause
  <2>1. CASE i \notin got
    BY <1>8, <2>1 DEF OutboxInv, Outbox!RepeatsHaveACause, Got, Replayed
  <2>2. CASE i \in got
    <3>1. received[i] > 0 /\ i \in Waiting
      BY <1>6, <1>8, <2>2 DEF Got, OutboxInv, OutboxTypes
    <3> QED
      BY <3>1 DEF OutboxInv, SentOnce, Replayed
  <2> QED
    BY <2>1, <2>2
<1>14. ASSUME NoneDropped PROVE NoneDropped'
  <2> SUFFICES ASSUME NEW i \in 1 .. handed
               PROVE  received'[i] > 0 \/ i \in spoken' \union crashed' \union Waiting'
    BY <1>14 DEF NoneDropped, Replayed
  <2>0. i \in Outbox!Items /\ (received[i] > 0 \/ i \in spoken \union crashed \union Waiting)
    BY <1>14 DEF NoneDropped, Outbox!Items, OutboxInv, OutboxTypes, Outbox!ParametersAreSound
  <2>1. received[i] > 0 => received'[i] > 0
    BY <1>8, <2>0 DEF Got
  <2>2. CASE i \in items
    BY <1>6, <1>8, <2>0, <2>2 DEF Got, Replayed
  <2>3. CASE i \notin items
    BY <1>6, <2>0, <2>1, <2>3 DEF Replayed
  <2> QED
    BY <2>2, <2>3
<1> QED
  BY <1>9, <1>10, <1>11, <1>12, <1>13, <1>14 DEF Keeps, OutboxInv

LEMMA FlushPostStep ==
  ASSUME Outbox!ParametersAreSound, OutboxInv, Outbox!FlushPost
  PROVE  Keeps
<1> DEFINE items == ItemsOf(Head(Outbox!Todo))
<1>1. PICK came \in {"accepted", "refused", "unanswered", "disconnected"} :
         /\ flush' = <<[flush[1] EXCEPT
                          !.todo = Tail(Outbox!Todo),
                          !.kept = IF Outbox!KeepOn(came) THEN Append(Outbox!Kept,
                              Head(Outbox!Todo)) ELSE Outbox!Kept]>>
         /\ \/ came = "accepted" /\ received' = Outbox!Received(items) /\ UNCHANGED doubtful
            \/ came = "unanswered" /\ received' = Outbox!Received(items)
               /\ doubtful' = doubtful \union items
            \/ came # "accepted" /\ UNCHANGED <<received, doubtful>>
         /\ spoken' = IF came = "refused" THEN spoken \union items ELSE spoken
         /\ IF came = "unanswered"
              THEN outboxFaults < MaxLost /\ outboxFaults' = outboxFaults + 1
              ELSE UNCHANGED outboxFaults
  BY DEF Outbox!FlushPost, ItemsOf
<1>2. Outbox!Flushing /\ Outbox!Todo # <<>>
      /\ UNCHANGED <<handed, batch, outboxPosting, outboxOutbox, outboxOpen, connected, crashed>>
  BY DEF Outbox!FlushPost
<1> HIDE DEF items
<1>3. outboxFaults' \in 0 .. MaxLost
  BY <1>1 DEF OutboxInv, OutboxTypes, Outbox!ParametersAreSound
<1>4. Outbox!KeepOn(came) \in BOOLEAN
      /\ (Outbox!KeepOn(came) <=> came \in {"unanswered", "disconnected"})
  BY DEF Outbox!KeepOn
<1>5. \/ Got(items) /\ received' = Outbox!Received(items) /\ came \in {"accepted", "unanswered"}
      \/ Got({}) /\ UNCHANGED <<received, doubtful>> /\ came # "accepted"
  BY <1>1, ReceivedAdds, NothingGot DEF Got, OutboxInv, OutboxTypes
<1>6. CASE Got(items) /\ received' = Outbox!Received(items) /\ came \in {"accepted", "unanswered"}
           /\ (came = "unanswered" => doubtful' = doubtful \union items)
  <2>1. doubtful \subseteq doubtful' /\ doubtful' \subseteq doubtful \union items
        /\ spoken' = spoken
    BY <1>1, <1>6
  <2>2. Replayed(items, Outbox!KeepOn(came), items)
    BY <1>1, <1>2, <1>3, <1>4, <1>6, <2>1 DEF Replayed, items
  <2> QED
    BY <2>2, ReplayingKeeps
<1>7. CASE Got({}) /\ UNCHANGED <<received, doubtful>> /\ came # "accepted"
  <2>1. spoken \subseteq spoken' /\ spoken' \subseteq spoken \union items
        /\ (came = "refused" => items \subseteq spoken')
    BY <1>1
  <2>2. Replayed(items, Outbox!KeepOn(came), {})
    BY <1>1, <1>2, <1>3, <1>4, <1>7, <2>1 DEF Replayed, items
  <2> QED
    BY <2>2, ReplayingKeeps
<1>8. \/ Got(items) /\ received' = Outbox!Received(items) /\ came \in {"accepted", "unanswered"}
         /\ (came = "unanswered" => doubtful' = doubtful \union items)
      \/ Got({}) /\ UNCHANGED <<received, doubtful>> /\ came # "accepted"
  <2>1. received \in [Outbox!Items -> Nat]
    BY DEF OutboxInv, OutboxTypes
  <2>2. received' = Outbox!Received(items) => Got(items)
    BY <2>1, ReceivedAdds DEF Got
  <2>3. UNCHANGED received => Got({})
    BY NothingGot DEF OutboxInv
  <2> QED
    BY <1>1, <2>2, <2>3
<1> QED
  BY <1>6, <1>7, <1>8

LEMMA FlushEndStep ==
  ASSUME Outbox!ParametersAreSound, OutboxInv, Outbox!FlushEnd
  PROVE  Keeps
<1>1. /\ Outbox!Flushing /\ Outbox!Todo = <<>> /\ outboxOutbox' = Outbox!Kept
         /\ outboxOpen' = FALSE /\ flush' = <<>>
      /\ UNCHANGED <<handed, batch, outboxPosting, connected, received, spoken, crashed,
         doubtful, outboxFaults>>
  BY DEF Outbox!FlushEnd
<1>2. /\ Outbox!Kept \in Seq(Outbox!Entries) /\ Apart(Outbox!Kept)
         /\ Outbox!InFile(Outbox!Kept) \subseteq Outbox!InFile(outboxOutbox)
  <2>1. Outbox!Kept \in Seq(Posts) /\ Apart(Outbox!Kept)
        /\ Outbox!InFile(Outbox!Kept) \subseteq Outbox!InFile(outboxOutbox)
    BY <1>1 DEF OutboxInv, OutboxTypes, OnePlace, Replays, Outbox!Kept
  <2>2. Posts \subseteq Outbox!Entries
    BY EntriesArePosts
  <2>3. Outbox!Kept \in Seq(Outbox!Entries)
    BY <2>1, <2>2
  <2> QED
    BY <2>1, <2>3
<1>3. Outbox!InFile(<<>>) = {}
  BY InEntriesIs DEF Outbox!InFile, Outbox!ToSet
<1>4. ~Outbox!Flushing' /\ Outbox!Memory' = Outbox!Memory
  BY <1>1 DEF Outbox!Flushing, Outbox!Memory
<1>5. Waiting' = Waiting /\ Outbox!InFile(outboxOutbox') \subseteq Outbox!InFile(outboxOutbox)
  BY <1>1, <1>2, <1>3, <1>4 DEF Waiting
<1>6. OutboxTypes'
  BY <1>1, <1>2, <1>4 DEF OutboxInv, OutboxTypes
<1>7. OnePlace'
  BY <1>1, <1>2, <1>4, <1>5 DEF OutboxInv, OnePlace
<1>8. AllHanded' /\ SentOnce' /\ Outbox!RepeatsHaveACause'
  BY <1>1, <1>4, <1>5 DEF OutboxInv, AllHanded, SentOnce, Outbox!RepeatsHaveACause
<1>9. NoneDropped => NoneDropped'
  BY <1>1, <1>5 DEF NoneDropped
<1> QED
  BY <1>6, <1>7, <1>8, <1>9 DEF Keeps, OutboxInv

\* The replay is given up, or dies with the process and what it held.
Reverts ==
  /\ flush' = <<>> /\ outboxFaults' \in 0 .. MaxLost
  /\ FileIs(outboxOutbox', outboxOpen')
     /\ Outbox!InFile(outboxOutbox') \subseteq Outbox!InFile(outboxOutbox)
  /\ \/ UNCHANGED <<batch, outboxPosting>>
     \/ batch' = <<>> /\ outboxPosting' = {} /\ Outbox!Memory \subseteq crashed'
  /\ crashed \subseteq crashed' /\ crashed' \subseteq crashed \union Outbox!Memory \union Outbox!InFile(outboxOutbox)
  /\ Outbox!InFile(outboxOutbox) \subseteq Outbox!InFile(outboxOutbox') \union crashed'
  /\ doubtful \subseteq doubtful'
     /\ doubtful' \subseteq doubtful \union Outbox!Memory \union Outbox!InFile(outboxOutbox)
  /\ Outbox!Flushing => Outbox!InFile(outboxOutbox) \subseteq doubtful'
  /\ ~Tears /\ ~outboxOpen => ~outboxOpen'
  /\ UNCHANGED <<handed, connected, received, spoken>>

LEMMA RevertingKeeps ==
  ASSUME Outbox!ParametersAreSound, OutboxInv, Reverts
  PROVE  Keeps
<1>1. /\ outboxPosting' \subseteq outboxPosting
         /\ Outbox!InEntries(outboxPosting') \subseteq Outbox!InEntries(outboxPosting)
      /\ batch' \in Seq(Outbox!Items) /\ Len(batch') < BatchMax
         /\ Outbox!ToSet(batch') \subseteq Outbox!ToSet(batch)
      /\ Outbox!Memory \subseteq Outbox!Memory' \union crashed'
  <2>1. batch \in Seq(Outbox!Items) /\ Len(batch) < BatchMax /\ BatchMax > 0
    BY DEF OutboxInv, OutboxTypes, Outbox!ParametersAreSound
  <2>2. CASE UNCHANGED <<batch, outboxPosting>>
    BY <2>1, <2>2 DEF Outbox!Memory
  <2>3. CASE batch' = <<>> /\ outboxPosting' = {} /\ Outbox!Memory \subseteq crashed'
    <3>1. Outbox!InEntries(outboxPosting') = {} /\ Outbox!ToSet(batch') = {} /\ Len(batch') = 0
          /\ batch' \in Seq(Outbox!Items)
      BY <2>3, InEntriesIs DEF Outbox!ToSet
    <3> QED
      BY <2>1, <2>3, <3>1
  <2> QED
    BY <2>2, <2>3 DEF Reverts
<1>2. ~Outbox!Flushing' /\ Outbox!Memory' \subseteq Outbox!Memory
  BY <1>1 DEF Outbox!Flushing, Outbox!Memory, Reverts
<1>3. /\ Waiting' \subseteq Waiting \union Outbox!InFile(outboxOutbox)
      /\ Waiting \subseteq Waiting' \union crashed'
      /\ ~Outbox!Flushing => Waiting' \subseteq Waiting
  <2>1. Outbox!Flushing => Outbox!InFile(Outbox!Todo) \union Outbox!InFile(Outbox!Kept) \subseteq Outbox!InFile(outboxOutbox)
    BY DEF OutboxInv, OnePlace
  <2> QED
    BY <1>1, <1>2, <2>1 DEF Waiting, Reverts
<1>4. OutboxTypes'
  BY <1>1, <1>2 DEF OutboxInv, OutboxTypes, Reverts, FileIs
<1>5. AllHanded'
  BY <1>2 DEF OutboxInv, AllHanded, Reverts
<1>6. OnePlace'
  BY <1>1, <1>2 DEF OutboxInv, OnePlace, Reverts, FileIs
<1>7. SentOnce' /\ Outbox!RepeatsHaveACause'
  BY <1>2, <1>3 DEF OutboxInv, SentOnce, Outbox!RepeatsHaveACause, Reverts, Waiting
<1>8. ~Tears /\ NoneDropped => NoneDropped'
  BY <1>3 DEF NoneDropped, Reverts
<1> QED
  BY <1>4, <1>5, <1>6, <1>7, <1>8 DEF Keeps, OutboxInv

LEMMA RevertStep ==
  ASSUME Outbox!ParametersAreSound, OutboxInv, Outbox!FlushEndFails \/ Outbox!Crash
  PROVE  Keeps
<1>1. /\ FileIs(outboxOutbox, outboxOpen) /\ Outbox!InEntries(outboxPosting) \subseteq Outbox!Memory
      /\ outboxFaults' = outboxFaults + 1 /\ outboxFaults < MaxLost
      /\ flush' = <<>> /\ UNCHANGED <<handed, connected, received, spoken>>
  BY
     DEF FileIs, OutboxInv, OutboxTypes, OnePlace, Outbox!Memory, Outbox!FlushEndFails,
         Outbox!Crash
<1>2. outboxFaults' \in 0 .. MaxLost
  BY <1>1 DEF OutboxInv, OutboxTypes, Outbox!ParametersAreSound
<1>3. CASE Outbox!FlushEndFails
  <2>1. /\ doubtful' = doubtful \union Outbox!InFile(outboxOutbox)
        /\ UNCHANGED <<batch, outboxPosting, outboxOutbox, outboxOpen, crashed>>
    BY <1>3 DEF Outbox!FlushEndFails
  <2>2. Reverts
    BY <1>1, <1>2, <2>1 DEF Reverts
  <2> QED
    BY <2>2, RevertingKeeps
<1>4. CASE Outbox!Crash
  <2>1. /\ batch' = <<>> /\ outboxPosting' = {}
        /\ doubtful' = doubtful \union Outbox!InEntries(outboxPosting) \union (IF Outbox!Flushing THEN Outbox!InFile(outboxOutbox) ELSE {})
    BY <1>4 DEF Outbox!Crash
  <2>2. /\ doubtful \subseteq doubtful'
           /\ doubtful' \subseteq doubtful \union Outbox!Memory \union Outbox!InFile(outboxOutbox)
        /\ (Outbox!Flushing => Outbox!InFile(outboxOutbox) \subseteq doubtful')
    BY <1>1, <2>1
  <2>3. CASE UNCHANGED <<outboxOutbox, outboxOpen>> /\ crashed' = crashed \union Outbox!Memory
    <3>1. FileIs(outboxOutbox', outboxOpen')
          /\ Outbox!InFile(outboxOutbox') = Outbox!InFile(outboxOutbox) /\ outboxOpen' = outboxOpen
      BY <1>1, <2>3
    <3>2. Reverts
      BY <1>1, <1>2, <2>1, <2>2, <2>3, <3>1 DEF Reverts
    <3> QED
      BY <3>2, RevertingKeeps
  <2>4. CASE outboxOutbox' = <<>> /\ outboxOpen' = FALSE
        /\ crashed' = crashed \union Outbox!Memory \union Outbox!InFile(outboxOutbox)
    <3>0. Outbox!InFile(outboxOutbox') = {} /\ outboxOutbox' \in Seq(Outbox!Entries)
          /\ Len(outboxOutbox') = 0
      BY <2>4, InEntriesIs DEF Outbox!InFile, Outbox!ToSet
    <3>1. FileIs(outboxOutbox', outboxOpen') /\ Outbox!InFile(outboxOutbox') = {} /\ ~outboxOpen'
      <4>1. Apart(outboxOutbox') /\ outboxOpen' = FALSE
        BY <2>4, <3>0 DEF Apart
      <4> QED
        BY <3>0, <4>1 DEF FileIs
    <3>2. Reverts
      BY <1>1, <1>2, <2>1, <2>2, <2>4, <3>1 DEF Reverts
    <3> QED
      BY <3>2, RevertingKeeps
  <2>5. CASE Tears /\ outboxOutbox' = Append(IF outboxOpen THEN Outbox!Front(outboxOutbox) ELSE outboxOutbox, Outbox!Scrap) /\ outboxOpen' = TRUE
             /\ crashed' = crashed \union Outbox!Memory
    <3> DEFINE file == IF outboxOpen THEN Outbox!Front(outboxOutbox) ELSE outboxOutbox
    <3>1. file \in Seq(Outbox!Entries) /\ Apart(file)
          /\ Outbox!InFile(file) = Outbox!InFile(outboxOutbox)
      BY <1>1, FileLosesScrap DEF FileIs
    <3>2. outboxOutbox' = Append(file, Outbox!Scrap)
      BY <2>5
    <3> HIDE DEF file
    <3>3. Outbox!Scrap \in Outbox!Entries /\ ItemsOf(Outbox!Scrap) = {}
          /\ ItemsOf(Outbox!Scrap) \intersect Outbox!InFile(file) = {}
      BY EntriesArePosts
    <3>4. /\ Append(file, Outbox!Scrap) \in Seq(Outbox!Entries) /\ Apart(Append(file, Outbox!Scrap))
          /\ Outbox!InFile(Append(file, Outbox!Scrap)) = Outbox!InFile(file) \union ItemsOf(Outbox!Scrap)
      BY <3>1, <3>3, FileAppends
    <3>5. Append(file, Outbox!Scrap) # <<>>
          /\ Outbox!Last(Append(file, Outbox!Scrap)) = Outbox!Scrap
      BY <3>1 DEF Outbox!Last
    <3>6. FileIs(outboxOutbox', outboxOpen')
          /\ Outbox!InFile(outboxOutbox') = Outbox!InFile(outboxOutbox)
      BY <2>5, <3>1, <3>2, <3>3, <3>4, <3>5 DEF FileIs
    <3>7. Reverts
      BY <1>1, <1>2, <2>1, <2>2, <2>5, <3>6 DEF Reverts
    <3> QED
      BY <3>7, RevertingKeeps
  <2> QED
    BY <1>4, <2>3, <2>4, <2>5 DEF Outbox!Crash
<1> QED
  BY <1>3, <1>4

\* Credentials come and go without touching what is to be sent.
LEMMA NothingMoves ==
  ASSUME Outbox!ParametersAreSound, OutboxInv, connected' \in BOOLEAN,
      outboxFaults' \in 0 .. MaxLost,
         UNCHANGED <<handed, batch, outboxPosting, outboxOutbox, outboxOpen, flush, received, spoken, crashed, doubtful>>
  PROVE  Keeps
<1>1. Outbox!Flushing' = Outbox!Flushing /\ Outbox!Todo' = Outbox!Todo
      /\ Outbox!Kept' = Outbox!Kept /\ Outbox!Memory' = Outbox!Memory /\ Waiting' = Waiting
  BY DEF Outbox!Flushing, Outbox!Todo, Outbox!Kept, Outbox!Memory, Waiting
<1>2. OutboxTypes'
  BY <1>1 DEF OutboxInv, OutboxTypes
<1>3. AllHanded' /\ OnePlace'
  BY <1>1 DEF OutboxInv, AllHanded, OnePlace
<1>4. SentOnce' /\ Outbox!RepeatsHaveACause'
  BY <1>1 DEF OutboxInv, SentOnce, Outbox!RepeatsHaveACause
<1>5. NoneDropped => NoneDropped'
  BY <1>1 DEF NoneDropped
<1> QED
  BY <1>2, <1>3, <1>4, <1>5 DEF Keeps, OutboxInv

LEMMA OutboxStep ==
  Outbox!ParametersAreSound /\ OutboxInv /\ [Outbox!Next]_(Outbox!vars) => Keeps
<1> SUFFICES ASSUME Outbox!ParametersAreSound, OutboxInv, [Outbox!Next]_(Outbox!vars) PROVE Keeps
  OBVIOUS
<1>0. outboxFaults \in 0 .. MaxLost /\ connected \in BOOLEAN /\ MaxLost \in Nat
  BY DEF OutboxInv, OutboxTypes, Outbox!ParametersAreSound
<1>1. CASE Outbox!Disconnect
  <2>1. connected' = FALSE /\ outboxFaults < MaxLost /\ outboxFaults' = outboxFaults + 1
        /\ UNCHANGED <<handed, batch, outboxPosting, outboxOutbox, outboxOpen, flush, received,
           spoken, crashed, doubtful>>
    BY <1>1 DEF Outbox!Disconnect
  <2>2. outboxFaults' \in 0 .. MaxLost
    BY <1>0, <2>1
  <2> QED
    BY <2>1, <2>2, NothingMoves
<1>2. CASE Outbox!Connect
  BY <1>0, <1>2, NothingMoves DEF Outbox!Connect
<1>3. CASE UNCHANGED Outbox!vars
  BY <1>0, <1>3, NothingMoves DEF Outbox!vars
<1> QED
  BY <1>1, <1>2, <1>3, HandingStep, AnswerStep, FlushStartStep, FlushPostStep, FlushEndStep,
     RevertStep DEF Outbox!Next

LEMMA OutboxIsTyped == Outbox!ParametersAreSound /\ OutboxInv => Outbox!TypeOK
<1> SUFFICES ASSUME Outbox!ParametersAreSound, OutboxInv PROVE Outbox!TypeOK
  OBVIOUS
<1>1. Outbox!Entries \ {Outbox!Scrap} = Posts /\ Posts \subseteq Outbox!Entries
  BY EntriesArePosts
<1>2. Len(flush) <= 1
  <2>1. flush = <<>> => Len(flush) = 0
    OBVIOUS
  <2>2. \A x : Len(<<x>>) = 1
    OBVIOUS
  <2> QED
    <3>1. flush = <<>> \/ flush = <<flush[1]>>
      BY DEF OutboxInv, OutboxTypes, Outbox!Flushing
    <3> QED
      BY <2>1, <2>2, <3>1
<1>3. Outbox!Flushing => Outbox!Todo \in Seq(Posts) /\ Outbox!Kept \in Seq(Posts)
  BY DEF OutboxInv, OutboxTypes, Outbox!Todo, Outbox!Kept, Replays
<1>4. outboxPosting \subseteq Outbox!Entries
      /\ {spoken, crashed, doubtful} \subseteq SUBSET (1 .. handed)
  BY <1>1 DEF OutboxInv, OutboxTypes, AllHanded
<1>5. /\ handed \in 0 .. MaxItems /\ outboxFaults \in 0 .. MaxLost
      /\ batch \in Seq(Outbox!Items) /\ Len(batch) < BatchMax
      /\ outboxOutbox \in Seq(Outbox!Entries) /\ received \in [Outbox!Items -> Nat]
      /\ connected \in BOOLEAN /\ (outboxOpen => outboxOutbox # <<>>
         /\ Outbox!Last(outboxOutbox) = Outbox!Scrap)
  BY DEF OutboxInv, OutboxTypes
<1>6. Outbox!Flushing => Outbox!Todo \in Seq(Outbox!Entries \ {Outbox!Scrap})
      /\ Outbox!Kept \in Seq(Outbox!Entries \ {Outbox!Scrap})
  BY <1>1, <1>3
<1> QED
  BY <1>2, <1>4, <1>5, <1>6 DEF Outbox!TypeOK

LEMMA NothingIsDropped == OutboxInv /\ NoneDropped => Outbox!NothingVanishes
<1> SUFFICES ASSUME NoneDropped, NEW i \in 1 .. handed, ~(received[i] > 0),
                    i \notin spoken \union crashed \union Outbox!Memory \union Outbox!InFile(outboxOutbox)
             PROVE  Outbox!Flushing /\ i \in Outbox!InFile(Outbox!Todo) \union Outbox!InFile(Outbox!Kept)
  BY DEF Outbox!NothingVanishes
<1>1. i \in Waiting
  BY DEF NoneDropped
<1>2. CASE Outbox!Flushing
  BY <1>1, <1>2 DEF Waiting
<1>3. CASE ~Outbox!Flushing
  BY <1>1, <1>3 DEF Waiting
<1> QED
  BY <1>2, <1>3

\* Whatever fails: an item the hub has received is not sent again unless an answer
\* to it did not come back or the process stopped before the file was rewritten.
THEOREM RepeatsAreExplained == Outbox!ParametersAreSound => (Outbox!Spec => [](Outbox!TypeOK
    /\ Outbox!RepeatsHaveACause))
<1> SUFFICES ASSUME Outbox!ParametersAreSound PROVE Outbox!Spec => [](Outbox!TypeOK
    /\ Outbox!RepeatsHaveACause)
  OBVIOUS
<1>1. Outbox!Init => OutboxInv
  BY OutboxInit
<1>2. OutboxInv /\ [Outbox!Next]_(Outbox!vars) => OutboxInv'
  BY OutboxStep DEF Keeps
<1>3. OutboxInv => Outbox!TypeOK /\ Outbox!RepeatsHaveACause
  BY OutboxIsTyped DEF OutboxInv
<1> QED
  BY <1>1, <1>2, <1>3, PTL DEF Outbox!Spec

\* When no answer comes during a replay and no crash leaves half a line, nothing
\* that was handed over vanishes.
THEOREM NothingIsSwallowed ==
  Outbox!ParametersAreSound /\ ~Overlap /\ ~Tears => (Outbox!Spec => []Outbox!NothingVanishes)
<1> SUFFICES ASSUME Outbox!ParametersAreSound, ~Overlap,
    ~Tears PROVE Outbox!Spec => []Outbox!NothingVanishes
  OBVIOUS
<1>1. Outbox!Init => OutboxInv /\ NoneDropped
  BY OutboxInit
<1>2. OutboxInv /\ NoneDropped /\ [Outbox!Next]_(Outbox!vars) => (OutboxInv /\ NoneDropped)'
  BY OutboxStep DEF Keeps
<1>3. OutboxInv /\ NoneDropped => Outbox!NothingVanishes
  BY NothingIsDropped
<1> QED
  BY <1>1, <1>2, <1>3, PTL DEF Outbox!Spec

\* In the hub's run: every item handed over has reached the hub, is kept, or was
\* logged as lost, for outboxes and batches of any size and any number of faults.
THEOREM ReportsHold == ~Overlap /\ ~Tears => (HubSpec => []ReportsAreKept)
<1> SUFFICES ASSUME ~Overlap, ~Tears PROVE HubSpec => []ReportsAreKept
  OBVIOUS
<1> DEFINE Inv == part = "outbox" => OutboxInv /\ NoneDropped
<1>0. Outbox!ParametersAreSound
  BY PartsAreSound
<1>1. HubInit => Inv
  BY <1>0, OutboxInit DEF HubInit
<1>2. ASSUME Inv, [HubNext]_hubVars PROVE Inv'
  <2>1. part' = part /\ (part = "outbox" => [Outbox!Next]_(Outbox!vars))
    BY <1>2 DEF HubNext, hubVars, outboxVars, Outbox!vars
  <2> QED
    BY <1>0, <1>2, <2>1, OutboxStep DEF Keeps
<1>3. Inv => ReportsAreKept
  BY <1>0, OutboxIsTyped, NothingIsDropped DEF ReportsAreKept, OutboxInv
<1> QED
  BY <1>1, <1>2, <1>3, PTL DEF HubSpec
=============================================================================
