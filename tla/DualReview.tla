----------------------------- MODULE DualReview -----------------------------
(***************************************************************************)
(* The dual review (packages/cli/src/review.ts, dual.ts): two lanes read   *)
(* one diff, each report is grounded in it, exact duplicates of the two    *)
(* are merged, a judge arbitrates what is left, and the record is          *)
(* assembled from the two reports and the judge's decisions.               *)
(*                                                                         *)
(* A finding is where it is anchored, its kind and its severity. `of`      *)
(* names the findings the lanes reported that it stands for; the code does *)
(* not keep it, no definition reads it, the properties do.                 *)
(***************************************************************************)
EXTENDS Naturals, Sequences, FiniteSets, SequencesExt

CONSTANTS
  Kinds, Severities,  \* Severities \subseteq 0..3, info to critical
  Wheres,             \* lines, and the three other places below
  MaxFindings,        \* of each lane
  Rescores,           \* severities the judge may give
  Faults,             \* lanes and the judge may fail, and be asked twice
  Overlaps            \* both lanes may report one finding

\* A file that is not in the diff, a line in no hunk, and no line at all.
Nowhere == "nowhere"
OffHunk == "off-hunk"
NoLine == "no-line"

Lanes == {"A", "B"}
Critical == 3
VerdictOrder == [approve |-> 0, comment |-> 1, request_changes |-> 2]
Verdicts == DOMAIN VerdictOrder

ParametersAreSound ==
  /\ Severities \cup Rescores \subseteq 0..Critical
  /\ DOMAIN MaxFindings = Lanes /\ \A l \in Lanes : MaxFindings[l] \in Nat
  /\ {Faults, Overlaps} \subseteq BOOLEAN

VARIABLES
  lane,       \* what each lane has come to
  report,     \* its grounded report
  reported,   \* the report as the lane wrote it, for the properties
  judge,      \* "unasked" | "judging" | "again" | "done" | "failed"
  decisions,  \* the judge's, by finding; Undecided for the rest
  record      \* the merged review, or Nothing

vars == <<lane, report, reported, judge, decisions, record>>

Nothing == [findings |-> <<>>, verdict |-> "none", refs |-> {}, merged |-> 0, rejected |-> 0]
NoOne == <<"none", 0>>
Undecided == [action |-> "none", of |-> NoOne, severity |-> {}]

\* Same file, line and kind.
Anchored(f) == f.where \notin {NoLine}
Twin(f, g) == Anchored(f) /\ f.where = g.where /\ f.kind = g.kind

MaxOf(S) == CHOOSE n \in S : \A m \in S : m <= n
Worst(S) == CHOOSE v \in S : \A w \in S : VerdictOrder[w] <= VerdictOrder[v]

-----------------------------------------------------------------------------
(* groundReview: the report against the diff *)

Deanchored(f) == IF f.where = OffHunk THEN [f EXCEPT !.where = NoLine] ELSE f

\* What stays of two exact duplicates: the first, with the higher severity.
Absorb(f, g) ==
  [f EXCEPT !.severity = MaxOf({f.severity, g.severity}),
            !.consensus = @ \/ g.consensus, !.of = @ \cup g.of]

\* One more finding: [out: those kept; at: where each came to stand, 0 nowhere].
GroundOne(acc, raw) ==
  LET f == Deanchored(raw)
      twins == {i \in DOMAIN acc.out : Twin(acc.out[i], f)}
  IN IF raw.where = Nowhere THEN [acc EXCEPT !.at = Append(@, 0)]
     ELSE IF twins # {} THEN
       LET i == CHOOSE i \in twins : TRUE
       IN [out |-> [acc.out EXCEPT ![i] = Absorb(@, f)], at |-> Append(acc.at, i)]
     ELSE [out |-> Append(acc.out, f), at |-> Append(acc.at, Len(acc.out) + 1)]

\* An approval does not survive a critical finding.
Escalated(verdict, findings) ==
  IF verdict = "approve" /\ \E i \in DOMAIN findings : findings[i].severity = Critical
  THEN "request_changes" ELSE verdict

\* refs are the findings the narrative points to.
Ground(review) ==
  LET g == FoldLeft(GroundOne, [out |-> <<>>, at |-> <<>>], review.findings)
  IN [findings |-> g.out, verdict |-> Escalated(review.verdict, g.out),
      refs |-> {g.at[r] : r \in {r \in review.refs : g.at[r] # 0}}]

-----------------------------------------------------------------------------
(* dedupeExactCrossLane: B's copy goes, A's is consensus *)

\* The findings of A that B's finding g is an exact duplicate of; the first of
\* them takes it.
TwinsOf(g, fs) == {i \in DOMAIN fs : Twin(fs[i], g)}
FirstOf(S) == CHOOSE n \in S : \A m \in S : n <= m

TakeTwin(fs, g) ==
  IF TwinsOf(g, fs) = {} THEN fs
  ELSE [fs EXCEPT ![FirstOf(TwinsOf(g, fs))] = [Absorb(@, g) EXCEPT !.consensus = TRUE]]

Deduped ==
  LET a == report["A"].findings  b == report["B"].findings
      left == SelectSeq(b, LAMBDA g : TwinsOf(g, a) = {})
  IN [a |-> [report["A"] EXCEPT !.findings = FoldLeft(TakeTwin, a, b)],
      b |-> [report["B"] EXCEPT !.findings = left],
      merged |-> Len(b) - Len(left)]

\* A finding is named by its lane and its place: A's first, B's after it.
Ids(d) == {<<"A", i>> : i \in DOMAIN d.a.findings} \cup {<<"B", i>> : i \in DOMAIN d.b.findings}
FindingOf(d, id) == IF id[1] = "A" THEN d.a.findings[id[2]] ELSE d.b.findings[id[2]]
InOrder(d) == [i \in DOMAIN d.a.findings |-> <<"A", i>>] \o [i \in DOMAIN d.b.findings |-> <<"B", i>>]

-----------------------------------------------------------------------------
(* sanitizeJudgeOutput *)

\* The chain of duplicates an id is on, until it ends or comes back.
Chain(ds, id) ==
  LET link[n \in 0..Cardinality(DOMAIN ds)] ==
        IF n = 0 THEN <<id>>
        ELSE LET c == link[n - 1]  next == ds[c[Len(c)]].of
             IN IF next \in DOMAIN ds /\ next \notin ToSet(c) THEN Append(c, next) ELSE c
  IN link[Cardinality(DOMAIN ds)]
Root(ds, id) == LET c == Chain(ds, id) IN c[Len(c)]

\* The link that would close a cycle is dropped, the decision is kept.
SoundLink(ds, id, to) ==
  IF to \in DOMAIN ds /\ to # id /\ id \notin ToSet(Chain(ds, to)) THEN to ELSE NoOne

-----------------------------------------------------------------------------
(* assembleDualReview *)

Members(ds, root) == {id \in DOMAIN ds : Root(ds, id) = root}

\* A group goes when its root is rejected, holds no security finding and no
\* finding the judge kept.
Survives(d, ds, root) ==
  \/ ds[root].action # "reject"
  \/ \E id \in Members(ds, root) :
       FindingOf(d, id).kind = "security" \/ ds[id].action = "keep"

First(d, S) == LET order == InOrder(d)
               IN order[FirstOf({i \in DOMAIN order : order[i] \in S})]

\* A rejected root does not speak for what it absorbed.
Speaker(d, ds, root) ==
  LET secure == {id \in Members(ds, root) : FindingOf(d, id).kind = "security"}
      kept == {id \in Members(ds, root) : ds[id].action = "keep"}
  IN IF ds[root].action # "reject" THEN root
     ELSE IF secure # {} THEN First(d, secure)
     ELSE IF kept # {} THEN First(d, kept) ELSE root

\* A group has the highest severity it holds, unless the judge scores it anew.
Merged(d, ds, root) ==
  LET ids == Members(ds, root)
      both == {id[1] : id \in ids} = Lanes
      speaker == Speaker(d, ds, root)
      anew == ds[speaker].severity
  IN [FindingOf(d, speaker) EXCEPT
               !.severity = MaxOf(IF anew # {} THEN anew
                                  ELSE {FindingOf(d, id).severity : id \in ids}),
               !.consensus = @ \/ both,
               !.of = UNION {FindingOf(d, id).of : id \in ids}]

AllLanes(d, lost) == Lanes
\* A lane whose findings were all rejected lost its case; one without findings
\* still speaks.
Speaking(d, lost) ==
  {l \in Lanes : LET fs == IF l = "A" THEN d.a.findings ELSE d.b.findings
                 IN fs = <<>> \/ \E i \in DOMAIN fs : <<l, i>> \notin lost}

Assembled(d, ds) ==
  LET roots == {Root(ds, id) : id \in DOMAIN ds}
      alive == {r \in roots : Survives(d, ds, r)}
      lost == {id \in DOMAIN ds : Root(ds, id) \notin alive}
      speakers == {<<r, Speaker(d, ds, r)>> : r \in alive}
      \* only a speaker that stands in its own group is listed
      order == SelectSeq(InOrder(d), LAMBDA id : <<Root(ds, id), id>> \in speakers)
      verdicts == {IF l = "A" THEN d.a.verdict ELSE d.b.verdict : l \in Speaking(d, lost)}
  IN [findings |-> [i \in DOMAIN order |-> Merged(d, ds, Root(ds, order[i]))],
      verdict |-> IF verdicts = {} THEN "comment" ELSE Worst(verdicts),
      refs |-> {i \in DOMAIN order :
                  \E r \in d.a.refs : Root(ds, <<"A", r>>) = Root(ds, order[i])},
      merged |-> Cardinality(DOMAIN ds) - Cardinality(lost) - Cardinality(alive),
      rejected |-> Cardinality(lost)]

MergedCount(assembly, d) == assembly.merged + d.merged

-----------------------------------------------------------------------------
(* runDualFlow *)

Finding == [where : Wheres, kind : Kinds, severity : Severities]
Reports(l) == UNION {[1..n -> Finding] : n \in 0..MaxFindings[l]}
Named(l, fs) ==
  [i \in DOMAIN fs |-> fs[i] @@ [consensus |-> FALSE, of |-> {<<l, i>>}]]

Blank == [findings |-> <<>>, verdict |-> "none", refs |-> {}]

Init ==
  /\ lane = [l \in Lanes |-> "running"]
  /\ report = [l \in Lanes |-> Blank]
  /\ reported = [l \in Lanes |-> <<>>]
  /\ judge = "unasked"
  /\ decisions = <<>>
  /\ record = Nothing

\* The narrative of A points to its findings.
LaneReports(l) ==
  /\ lane[l] \in {"running", "again"}
  /\ \E fs \in Reports(l), v \in Verdicts :
       LET g == Ground([findings |-> Named(l, fs), verdict |-> v,
                        refs |-> IF l = "A" THEN DOMAIN fs ELSE {}])
       IN /\ \A m \in Lanes \ {l} : Overlaps \/
               \A i \in DOMAIN report[m].findings :
                 TwinsOf(report[m].findings[i], g.findings) = {}
          /\ report' = [report EXCEPT ![l] = g]
          /\ reported' = [reported EXCEPT ![l] = fs]
  /\ lane' = [lane EXCEPT ![l] = "reported"]
  /\ UNCHANGED <<judge, decisions, record>>

\* Output that holds no review is asked for once more; a run that fails is not.
LaneGarbles(l) ==
  /\ Faults /\ lane[l] \in {"running", "again"}
  /\ lane' = [lane EXCEPT ![l] = IF lane[l] = "running" THEN "again" ELSE "failed"]
  /\ UNCHANGED <<report, reported, judge, decisions, record>>
LaneFails(l) ==
  /\ Faults /\ lane[l] \in {"running", "again"}
  /\ lane' = [lane EXCEPT ![l] = "failed"]
  /\ UNCHANGED <<report, reported, judge, decisions, record>>

Settled == \A l \in Lanes : lane[l] \in {"reported", "failed"}

\* One lane is enough for a record.
OneLane ==
  /\ Settled /\ judge = "unasked"
  /\ \E l \in Lanes :
       /\ lane[l] = "reported" /\ \A m \in Lanes \ {l} : lane[m] = "failed"
       /\ record' = report[l] @@ [merged |-> 0, rejected |-> 0]
  /\ judge' = "done"
  /\ UNCHANGED <<lane, report, reported, decisions>>

AskJudge ==
  /\ Settled /\ judge = "unasked" /\ \A l \in Lanes : lane[l] = "reported"
  /\ decisions' = [id \in Ids(Deduped) |-> Undecided]
  /\ judge' = IF Ids(Deduped) = {} THEN "done" ELSE "judging"
  /\ UNCHANGED <<lane, report, reported, record>>

\* One decision after the other; a finding is decided once, the first counts.
JudgeSays ==
  /\ judge \in {"judging", "again"}
  /\ \E id \in DOMAIN decisions, action \in {"keep", "reject"} :
     \E to \in DOMAIN decisions \cup {NoOne}, s \in {{}} \cup {{n} : n \in Rescores} :
       /\ decisions[id] = Undecided
       /\ decisions' = [decisions EXCEPT ![id] =
            [action |-> action, of |-> SoundLink(decisions, id, to), severity |-> s]]
  /\ UNCHANGED <<lane, report, reported, judge, record>>

JudgeEnds ==
  /\ judge \in {"judging", "again"} /\ judge' = "done"
  /\ UNCHANGED <<lane, report, reported, decisions, record>>

\* What a garbled or failed judge said counts for nothing.
JudgeGarbles ==
  /\ Faults /\ judge \in {"judging", "again"}
  /\ judge' = IF judge = "judging" THEN "again" ELSE "failed"
  /\ decisions' = [id \in DOMAIN decisions |-> Undecided]
  /\ UNCHANGED <<lane, report, reported, record>>
JudgeFails ==
  /\ Faults /\ judge \in {"judging", "again"} /\ judge' = "failed"
  /\ decisions' = [id \in DOMAIN decisions |-> Undecided]
  /\ UNCHANGED <<lane, report, reported, record>>

\* The merged review is grounded once more.
Assemble ==
  /\ judge \in {"done", "failed"} /\ record = Nothing
  /\ \A l \in Lanes : lane[l] = "reported"
  /\ LET d == Deduped  a == Assembled(d, decisions)
     IN record' = Ground(a) @@ [merged |-> MergedCount(a, d), rejected |-> a.rejected]
  /\ UNCHANGED <<lane, report, reported, judge, decisions>>

Next ==
  \/ \E l \in Lanes : LaneReports(l) \/ LaneGarbles(l) \/ LaneFails(l)
  \/ OneLane \/ AskJudge \/ JudgeSays \/ JudgeEnds
  \/ JudgeGarbles \/ JudgeFails \/ Assemble

Spec == Init /\ [][Next]_vars

-----------------------------------------------------------------------------
(* Properties *)

\* What each lane reported on the diff, and what of it the record stands for.
Heard(l) == UNION {report[l].findings[i].of : i \in DOMAIN report[l].findings}
SpokenFor == UNION {record.findings[i].of : i \in DOMAIN record.findings}
Merging == record # Nothing /\ \A l \in Lanes : lane[l] = "reported"

\* Every variable has its type; the links of the judge's decisions close no
\* cycle, whatever it said.
TypeOK ==
  /\ lane \in [Lanes -> {"running", "again", "reported", "failed"}]
  /\ judge \in {"unasked", "judging", "again", "done", "failed"}
  /\ \A l \in Lanes : Len(report[l].findings) <= MaxFindings[l]
  /\ record.verdict \in Verdicts \cup {"none"}
  /\ \A id \in DOMAIN decisions :
       LET c == Chain(decisions, id)
       IN decisions[c[Len(c)]].of = NoOne

\* A security finding that is in the diff is never dropped, whatever the judge
\* said of it or of the findings it was merged with.
SecurityKept ==
  Merging => \A l \in Lanes : \A i \in DOMAIN reported[l] :
    reported[l][i].kind = "security" /\ <<l, i>> \in Heard(l) => <<l, i>> \in SpokenFor

\* What the judge kept, or did not decide, is in the record, and a judge that
\* failed has dropped nothing.
KeptIsKept ==
  Merging => \A id \in DOMAIN decisions :
    decisions[id].action # "reject" => FindingOf(Deduped, id).of \subseteq SpokenFor

\* The figures of the record account for every finding the lanes reported on the
\* diff: kept, merged into another, or rejected; and none is told twice.
StatsAddUp ==
  Merging =>
    /\ Len(record.findings) + record.merged + record.rejected
         = Len(report["A"].findings) + Len(report["B"].findings)
    /\ \A i, j \in DOMAIN record.findings :
         i # j => record.findings[i].of \cap record.findings[j].of = {}

\* The narrative is that of lane A: after every removal and every merge it
\* points to the findings that stand for those of lane A, and to no other.
NarrativePoints ==
  record # Nothing =>
    record.refs = {i \in DOMAIN record.findings :
                     \E x \in record.findings[i].of : x[1] = "A"}

\* A record that asks for changes has a finding that is critical, or a lane that
\* asks for them and was not wiped by the judge: a lane whose findings were all
\* rejected does not drive the verdict.
LostLaneIsSilent ==
  Merging /\ record.verdict = "request_changes" =>
    \/ \E i \in DOMAIN record.findings : record.findings[i].severity = Critical
    \/ \E l \in Lanes :
         /\ report[l].verdict = "request_changes"
         /\ report[l].findings = <<>> \/ Heard(l) \cap SpokenFor # {}

\* An approval has no critical finding under it, whoever scored it.
NoCriticalApproved ==
  record.verdict = "approve" =>
    \A i \in DOMAIN record.findings : record.findings[i].severity # Critical

\* A finding is marked as consensus exactly when both lanes reported it.
ConsensusIsBoth ==
  Merging => \A i \in DOMAIN record.findings :
    record.findings[i].consensus = ({x[1] : x \in record.findings[i].of} = Lanes)
=============================================================================
