--------------------------- MODULE ReviewSession ----------------------------
(***************************************************************************)
(* The reviews a workspace runs on demand: the runner that takes one at a  *)
(* time and works in a worktree of its own (packages/cli/src/              *)
(* mr-review-runner.ts), the session it writes to, which is one for all    *)
(* reviews, and its event stream (serve.ts), and the browser's view of it  *)
(* (packages/web/src/composables/useReviewSession.ts).                     *)
(*                                                                         *)
(* A run is told from another by its number; its record, its partials and  *)
(* its judge's decisions are that number.                                  *)
(***************************************************************************)
EXTENDS Naturals, Sequences, FiniteSets

CONSTANTS
  Sources,      \* merge requests and branches to review
  Branches,     \* those that are branches
  MaxRun,       \* runs, and launches that come to nothing
  MaxStreams,   \* streams the browser may open
  Unknowns,     \* a source may not be found
  Fails,        \* a review, its clean-up or a request may fail
  Drops,        \* a stream may be cut
  Others        \* another browser launches reviews too

ParametersAreSound ==
  /\ {MaxRun, MaxStreams} \subseteq Nat
  /\ {Unknowns, Fails, Drops, Others} \subseteq BOOLEAN
  /\ Branches \subseteq Sources

NoSource == "none"
NoLookup == [before |-> "none", by |-> "none"]

VARIABLES
  phase, current,   \* the runner's: what it says of which source
  lookup,           \* a start whose source is being looked up
  launches, run,    \* starts so far, and the run in the session
  flow, tree,       \* where the run is; its worktree is there
  left,             \* the sources of which a worktree could not be removed
  session,          \* phase, and the run of the record, partials and judge
  shown,            \* the same as the browser shows it
  mine, streams,    \* the browser's stream, and all it has opened
  gets,             \* its requests for the record, and their answers
  last              \* the last run, and what it came to, for the properties

runner == <<phase, current, lookup, launches>>
tab == <<shown, mine, gets>>
vars == <<runner, run, flow, tree, left, session, tab, streams, last>>

Blank == [phase |-> "none", of |-> 0, record |-> 0, partial |-> 0, judge |-> 0]
Closed == [state |-> "closed", pipe |-> <<>>]

Init ==
  /\ phase = "idle" /\ current = NoSource /\ lookup = NoLookup /\ launches = 0
  /\ run = 0 /\ flow = "none" /\ tree = FALSE /\ left = {}
  /\ session = [Blank EXCEPT !.phase = "reviewing"]
  /\ shown = [phase |-> "none", of |-> 0, record |-> 0, partial |-> 0, judge |-> 0,
               asked |-> FALSE, error |-> FALSE]
  /\ mine = 0 /\ gets = {}
  /\ streams = [i \in 1..MaxStreams |-> Closed]
  /\ last = [phase |-> "idle", of |-> NoSource]

-----------------------------------------------------------------------------
(* The session and its listeners *)

Status(s) == [kind |-> "status", what |-> [phase |-> s.phase, of |-> s.of]]
Frame(kind, what) == [kind |-> kind, what |-> what]

\* Every stream that listens gets the frames.
Emit(frames) ==
  streams' = [i \in DOMAIN streams |->
                IF streams[i].state = "open"
                THEN [streams[i] EXCEPT !.pipe = @ \o frames] ELSE streams[i]]

DoneUntold(s) ==
  <<Status(s)>> \o (IF s.partial = 0 THEN <<>> ELSE <<Frame("partial", s.partial)>>)
                \o (IF s.judge = 0 THEN <<>> ELSE <<Frame("judge", s.judge)>>)
\* What a stream is told when it connects.
Replay(s) ==
  DoneUntold(s) \o (IF s.phase = "done" THEN <<Frame("done", 0)>> ELSE <<>>)

-----------------------------------------------------------------------------
(* The runner *)

\* 409 while a review runs.
MayStart(source) == phase # "running"

\* The runner is reserved before the source is looked up.
Start(by, source) ==
  /\ MayStart(source) /\ launches < MaxRun /\ launches' = launches + 1
  /\ by = "other" => Others
  /\ lookup' = [before |-> phase, by |-> by]
  /\ phase' = "running" /\ current' = source
  /\ UNCHANGED <<run, flow, tree, left, session, tab, streams, last>>

NotFound ==
  /\ Unknowns /\ lookup # NoLookup
  /\ phase' = lookup.before /\ lookup' = NoLookup
  /\ UNCHANGED <<current, launches, run, flow, tree, left, session, tab, streams, last>>

\* The session is reset, and the run names a worktree of its own; the browser
\* that asked forgets what it shows and asks for the record.
Found ==
  /\ lookup # NoLookup /\ lookup' = NoLookup
  /\ run' = run + 1 /\ flow' = "preparing" /\ tree' = FALSE
  /\ session' = [Blank EXCEPT !.phase = "reviewing", !.of = run']
  /\ Emit(<<Status(session')>>)
  /\ IF lookup.by = "tab"
     THEN /\ shown' = [shown EXCEPT !.record = 0, !.phase = "none", !.of = 0, !.asked = TRUE,
                                    !.error = FALSE]
          /\ gets' = gets \cup {[for |-> "load", answer |-> "asked"]}
     ELSE UNCHANGED <<shown, gets>>
  /\ last' = [phase |-> "running", of |-> current]
  /\ UNCHANGED <<phase, current, launches, left, mine>>

\* The branch of a merge request is created anew, which git refuses while
\* another worktree has it; a branch that is checked out is detached.
TreeRefused == current \notin Branches /\ current \in left

AddTree ==
  /\ flow = "preparing" /\ ~ TreeRefused
  /\ flow' = "reviewing" /\ tree' = TRUE
  /\ UNCHANGED <<runner, run, left, session, tab, streams, last>>

\* The fetch, or the worktree, fails: there is nothing to clean up.
PrepareFails ==
  /\ Fails \/ TreeRefused
  /\ flow = "preparing" /\ flow' = "failed"
  /\ UNCHANGED <<runner, run, tree, left, session, tab, streams, last>>

Reports ==
  /\ flow = "reviewing" /\ session.partial # run
  /\ session' = [session EXCEPT !.partial = run]
  /\ Emit(<<Frame("partial", run)>>)
  /\ UNCHANGED <<runner, run, flow, tree, left, tab, last>>

Judges ==
  /\ flow = "reviewing" /\ session.judge # run
  /\ session' = [session EXCEPT !.judge = run, !.phase = "judging"]
  /\ Emit(<<Status(session'), Frame("judge", run)>>)
  /\ UNCHANGED <<runner, run, flow, tree, left, tab, last>>

ReviewDone ==
  /\ flow = "reviewing" /\ flow' = "cleaning"
  /\ session' = [session EXCEPT !.record = run, !.phase = "done"]
  /\ Emit(<<Status(session'), Frame("done", 0)>>)
  /\ UNCHANGED <<runner, run, tree, left, tab, last>>

ReviewFails ==
  /\ Fails /\ flow = "reviewing" /\ flow' = "failed"
  /\ UNCHANGED <<runner, run, tree, left, session, tab, streams, last>>

CleansOnSuccess == tree' = (tree /\ flow = "failed") /\ UNCHANGED left

\* The removal is a best effort, and its failure is told to nobody.
Cleans ==
  \/ tree' = FALSE /\ UNCHANGED left
  \/ Fails /\ tree /\ tree' = TRUE /\ left' = left \cup {current}

Outcome == IF flow = "cleaning" THEN "done" ELSE "error"

TellsError ==
  IF flow = "failed"
  THEN /\ session' = [session EXCEPT !.phase = "error"]
       /\ Emit(<<Status(session')>>)
  ELSE UNCHANGED <<session, streams>>

\* The clean-up is total: it never turns a review that is done into a failure.
RunEnds ==
  /\ flow \in {"cleaning", "failed"} /\ flow' = "none"
  /\ Cleans /\ TellsError
  /\ phase' = Outcome
  /\ last' = [last EXCEPT !.phase = phase']
  /\ UNCHANGED <<current, lookup, launches, run, tab>>

-----------------------------------------------------------------------------
(* The browser *)

\* The server reads the record: 202 when there is none.
Answers(g) ==
  /\ g \in gets /\ g.answer = "asked"
  /\ gets' = (gets \ {g}) \cup
       {[for |-> g.for, answer |-> IF session.record = 0 THEN "none" ELSE "record",
         of |-> session.record]}
  /\ UNCHANGED <<runner, run, flow, tree, left, session, shown, mine, streams, last>>

\* A request that fails shows its error, whatever it was for: by then a done
\* event has closed the stream, and load() opens none.
AnswerFails(g) ==
  /\ Fails /\ g \in gets /\ g.answer = "asked" /\ gets' = gets \ {g}
  /\ shown' = [shown EXCEPT !.error = TRUE]
  /\ UNCHANGED <<runner, run, flow, tree, left, session, mine, streams, last>>

\* The button beside the error loads again.
Retry ==
  /\ shown.error /\ shown.record = 0
  /\ shown' = [shown EXCEPT !.error = FALSE]
  /\ gets' = gets \cup {[for |-> "load", answer |-> "asked"]}
  /\ UNCHANGED <<runner, run, flow, tree, left, session, mine, streams, last>>

GotRecord(g) ==
  /\ g \in gets /\ g.answer = "record" /\ gets' = gets \ {g}
  /\ shown' = [shown EXCEPT !.record = g.of]
  /\ UNCHANGED <<runner, run, flow, tree, left, session, mine, streams, last>>

Unopened == {i \in DOMAIN streams : streams[i].state = "closed"}

\* load() opens a stream when there is no record; the answer to a done event
\* that finds none changes nothing.
GotNone(g) ==
  /\ g \in gets /\ g.answer = "none" /\ gets' = gets \ {g}
  /\ IF g.for = "load"
     THEN \E i \in Unopened :
            /\ \A j \in Unopened : i <= j
            /\ mine' = i
            /\ streams' = [streams EXCEPT ![i].state = "connecting"]
     ELSE UNCHANGED <<mine, streams>>
  /\ UNCHANGED <<runner, run, flow, tree, left, session, shown, last>>

Connect(i) ==
  /\ streams[i].state = "connecting"
  /\ streams' = [streams EXCEPT ![i] = [state |-> "open", pipe |-> Replay(session)]]
  /\ UNCHANGED <<runner, run, flow, tree, left, session, tab, last>>

Drop(i) ==
  /\ Drops /\ streams[i].state = "open"
  /\ streams' = [streams EXCEPT ![i] = [state |-> "connecting", pipe |-> <<>>]]
  /\ UNCHANGED <<runner, run, flow, tree, left, session, tab, last>>

\* A done event closes the stream the browser calls its own.
OnDone(i) ==
  /\ mine' = 0
  /\ gets' = gets \cup {[for |-> "done", answer |-> "asked"]}
  /\ streams' = [j \in DOMAIN streams |->
       IF j = mine THEN Closed
       ELSE IF j = i THEN [streams[i] EXCEPT !.pipe = Tail(@)] ELSE streams[j]]
  /\ UNCHANGED shown

Receive(i) ==
  /\ streams[i].state = "open" /\ streams[i].pipe # <<>>
  /\ LET frame == Head(streams[i].pipe) IN
     \/ frame.kind = "done" /\ OnDone(i)
     \/ /\ frame.kind # "done"
        /\ shown' = CASE frame.kind = "status" -> [shown EXCEPT !.phase = frame.what.phase,
                                                               !.of = frame.what.of]
                      [] frame.kind = "partial" -> [shown EXCEPT !.partial = frame.what]
                      [] frame.kind = "judge" -> [shown EXCEPT !.judge = frame.what]
        /\ streams' = [streams EXCEPT ![i].pipe = Tail(@)]
        /\ UNCHANGED <<mine, gets>>
  /\ UNCHANGED <<runner, run, flow, tree, left, session, last>>

Next ==
  \/ \E source \in Sources : Start("tab", source) \/ Start("other", source)
  \/ NotFound \/ Found \/ AddTree \/ PrepareFails \/ Reports \/ Judges
  \/ ReviewDone \/ ReviewFails \/ RunEnds
  \/ \E g \in gets : Answers(g) \/ AnswerFails(g) \/ GotRecord(g) \/ GotNone(g)
  \/ Retry
  \/ \E i \in DOMAIN streams : Connect(i) \/ Drop(i) \/ Receive(i)

Spec == Init /\ [][Next]_vars

-----------------------------------------------------------------------------
(* Properties *)

Phases == {"idle", "running", "done", "error"}
Streaming == {i \in DOMAIN streams : streams[i].state # "closed"}

\* Nothing is on its way to the browser, and no start is being looked up.
Quiet ==
  /\ lookup = NoLookup /\ gets = {}
  /\ \A i \in Streaming : streams[i].state = "open" /\ streams[i].pipe = <<>>

\* Every variable has its type; a run, or a look-up, is under way exactly when
\* the runner says so, and never both.
TypeOK ==
  /\ phase \in Phases /\ current \in Sources \cup {NoSource}
  /\ session.phase \in {"reviewing", "judging", "done", "error"}
  /\ flow \in {"none", "preparing", "reviewing", "cleaning", "failed"}
  /\ mine \in 0..MaxStreams /\ left \subseteq Sources
  /\ (phase = "running") = (flow # "none" \/ lookup # NoLookup)
  /\ flow = "none" \/ lookup = NoLookup

\* A review that is over has left no worktree, however it ended, but one that
\* git would not remove.
TreeGoes == flow = "none" /\ tree => last.of \in left

\* The session has the record of its run exactly when it says that it is done:
\* nothing that happens after the record is shown takes it back but a new run.
DoneIsDone ==
  /\ session.phase = "done" <=> session.record # 0
  /\ session.record \in {0, run}
  /\ phase = "error" /\ Quiet => session.phase = "error"

\* What the runner says of its last review is what that review came to.
StatusIsTheRuns ==
  phase \in {"done", "error"} => last = [phase |-> phase, of |-> current]

\* When all has arrived a browser that has launched a review shows a record, or
\* listens to a session that has none yet, or shows that a request failed, with
\* the button that asks again: it is never left waiting for nothing.
ViewSettles ==
  Quiet /\ shown.asked =>
    \/ shown.record # 0 \/ shown.error
    \/ Streaming # {} /\ session.phase # "done"

\* The browser has one stream at most.
OneStream == Cardinality(Streaming) <= 1

\* The partials and the judge's decisions on the screen are those of the run
\* whose status is beside them.
PartialsAreOfTheRun ==
  shown.of # 0 => {shown.partial, shown.judge} \subseteq {0, shown.of}
=============================================================================
