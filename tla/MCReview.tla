------------------------------ MODULE MCReview -------------------------------
(****************************************************************************)
(* Small instances of the modules about what a person is shown and takes    *)
(* delivery of: a task in the browser, the dual review and its judge, the   *)
(* review sessions, and the ship and the merge. They are checked in one     *)
(* run: `part' says which of them moves, and the others rest.               *)
(****************************************************************************)
EXTENDS Naturals, Delivery

CONSTANTS
  Parts,  \* those of the parts below that this run explores
  BoardTurns, BoardSaid, BoardPipe,  \* the board's bounds,
  CutSaid, PurgedTurns,              \* and those of the boards that lose the stream
  Reviewed, Branched,                \* what is reviewed, the branches of it,
  Reviews, SessionStreams,           \* and how often; and
  AloneReviews, AloneStreams         \* for the browser that is alone

\* The ship and the merge of one task are this module's own.

VARIABLE part  \* the one that moves

\* A task's record and conversation in a browser: with a stream that stays up,
\* one that is cut under an open conversation, one whose task is purged
\* meanwhile, and one that is cut with no conversation open.
VARIABLES boardRecord, journal, said, link, pipe, asked, answers, seen,
          events, bubbles
boardVars == <<boardRecord, journal, said, link, pipe, asked, answers, seen,
               events, bubbles>>
Board == INSTANCE Board WITH
  MaxTurn <- BoardTurns, MaxSaid <- BoardSaid, PipeBound <- BoardPipe,
  Opened <- TRUE, Drops <- FALSE, Purges <- FALSE, record <- boardRecord
CutBoard == INSTANCE Board WITH
  MaxTurn <- BoardTurns, MaxSaid <- CutSaid, PipeBound <- BoardPipe,
  Opened <- TRUE, Drops <- TRUE, Purges <- FALSE, record <- boardRecord
PurgedBoard == INSTANCE Board WITH
  MaxTurn <- PurgedTurns, MaxSaid <- CutSaid, PipeBound <- BoardPipe,
  Opened <- TRUE, Drops <- TRUE, Purges <- TRUE, record <- boardRecord
ClosedBoard == INSTANCE Board WITH
  MaxTurn <- BoardTurns, MaxSaid <- BoardSaid, PipeBound <- BoardPipe,
  Opened <- FALSE, Drops <- TRUE, Purges <- FALSE, record <- boardRecord

\* Two lanes and a judge: security findings, criticals outside every hunk and
\* lanes that fail, a judge that scores anew, and lanes that share no
\* finding.
VARIABLES lane, report, reported, judge, decisions, dualRecord
dualVars == <<lane, report, reported, judge, decisions, dualRecord>>
Dual == INSTANCE DualReview WITH
  Kinds <- {"plain", "security"}, Severities <- {1},
  Wheres <- {"first", "no-line"}, MaxFindings <- [A |-> 2, B |-> 1],
  Rescores <- {}, Faults <- FALSE, Overlaps <- TRUE, record <- dualRecord
GroundedDual == INSTANCE DualReview WITH
  Kinds <- {"plain"}, Severities <- {1, 3}, Wheres <- {"off-hunk", "first"},
  MaxFindings <- [A |-> 2, B |-> 1], Rescores <- {}, Faults <- TRUE,
  Overlaps <- TRUE, record <- dualRecord
ScoredDual == INSTANCE DualReview WITH
  Kinds <- {"plain"}, Severities <- {1, 3},
  Wheres <- {"nowhere", "off-hunk", "first"},
  MaxFindings <- [A |-> 1, B |-> 1], Rescores <- {3}, Faults <- TRUE,
  Overlaps <- TRUE, record <- dualRecord
ApartDual == INSTANCE DualReview WITH
  Kinds <- {"plain", "security"}, Severities <- {1}, Wheres <- {"first"},
  MaxFindings <- [A |-> 2, B |-> 1], Rescores <- {}, Faults <- TRUE,
  Overlaps <- FALSE, record <- dualRecord

\* The reviews of two browsers, and those of one whose stream may be cut.
VARIABLES phase, current, lookup, launches, run, flow, tree, left, session,
          shown, mine, streams, gets, last
sessionVars == <<phase, current, lookup, launches, run, flow, tree, left,
                 session, shown, mine, streams, gets, last>>
Session == INSTANCE ReviewSession WITH
  Sources <- Reviewed, Branches <- Branched, MaxRun <- Reviews,
  MaxStreams <- SessionStreams, Unknowns <- TRUE, Fails <- TRUE,
  Drops <- FALSE, Others <- TRUE
Alone == INSTANCE ReviewSession WITH
  Sources <- Reviewed, Branches <- Branched, MaxRun <- AloneReviews,
  MaxStreams <- AloneStreams, Unknowns <- FALSE, Fails <- TRUE,
  Drops <- TRUE, Others <- FALSE

ASSUME PartsAreSound ==
  /\ Parts \subseteq {"delivery", "board", "board cut", "board purged",
                     "board closed", "dual", "dual grounds", "dual scores",
                     "dual apart", "session", "session alone"}
  /\ ParametersAreSound /\ Board!ParametersAreSound
  /\ CutBoard!ParametersAreSound /\ PurgedBoard!ParametersAreSound
  /\ ClosedBoard!ParametersAreSound /\ Dual!ParametersAreSound
  /\ GroundedDual!ParametersAreSound /\ ScoredDual!ParametersAreSound
  /\ ApartDual!ParametersAreSound /\ Session!ParametersAreSound
  /\ Alone!ParametersAreSound

reviewVars == <<part, vars, boardVars, dualVars, sessionVars>>

\* The parts that do not move rest where they start, each in one of its initial
\* states.
ReviewInit ==
  /\ part \in Parts
  /\ Init /\ Board!Init /\ Dual!Init
  /\ IF part = "session alone" THEN Alone!Init ELSE Session!Init
  /\ part = "delivery" \/ opts = [auto_ship |-> FALSE, auto_merge |-> FALSE]

ReviewNext ==
  /\ UNCHANGED part
  /\ \/ /\ part = "delivery" /\ Next
        /\ UNCHANGED <<boardVars, dualVars, sessionVars>>
     \/ /\ part = "board" /\ Board!Next
        /\ UNCHANGED <<vars, dualVars, sessionVars>>
     \/ /\ part = "board cut" /\ CutBoard!Next
        /\ UNCHANGED <<vars, dualVars, sessionVars>>
     \/ /\ part = "board purged" /\ PurgedBoard!Next
        /\ UNCHANGED <<vars, dualVars, sessionVars>>
     \/ /\ part = "board closed" /\ ClosedBoard!Next
        /\ UNCHANGED <<vars, dualVars, sessionVars>>
     \/ /\ part = "dual" /\ Dual!Next
        /\ UNCHANGED <<vars, boardVars, sessionVars>>
     \/ /\ part = "dual grounds" /\ GroundedDual!Next
        /\ UNCHANGED <<vars, boardVars, sessionVars>>
     \/ /\ part = "dual scores" /\ ScoredDual!Next
        /\ UNCHANGED <<vars, boardVars, sessionVars>>
     \/ /\ part = "dual apart" /\ ApartDual!Next
        /\ UNCHANGED <<vars, boardVars, sessionVars>>
     \/ /\ part = "session" /\ Session!Next
        /\ UNCHANGED <<vars, boardVars, dualVars>>
     \/ /\ part = "session alone" /\ Alone!Next
        /\ UNCHANGED <<vars, boardVars, dualVars>>

ReviewSpec == ReviewInit /\ [][ReviewNext]_reviewVars
------------------------------------------------------------------------------
(* Properties *)

\* Whatever answer overtakes whatever frame, the journal on the screen is in its
\* order; the live messages are those of the turn the agent is in; and what was
\* told while the stream was down is asked for again (useTasks.ts, hydrateStore).
ScreenKeepsUp ==
  /\ part \in {"board", "board cut", "board purged"} => Board!JournalInOrder
  /\ part = "board" => Board!TypeOK /\ Board!BubblesAreOfTheTurn
  /\ part = "board cut" => CutBoard!JournalIsWhole
  /\ part = "board purged" => PurgedBoard!JournalIsWhole
  /\ part = "board closed" => ClosedBoard!BoardIsTheServers /\ ClosedBoard!NoDouble

\* No security finding that is in the diff is lost, nor what the judge kept or did
\* not decide, and the figures account for every finding that was reported. No
\* approval over a critical, whoever scored it; a lane whose findings were all
\* rejected does not drive the verdict; consensus is of both lanes; and the
\* narrative points to the findings of its own lane (dual-review.ts, reconcile).
VerdictHasItsGrounds ==
  /\ part = "dual" => Dual!TypeOK
  /\ part \in {"dual", "dual grounds", "dual scores", "dual apart"} =>
       /\ Dual!SecurityKept /\ Dual!KeptIsKept /\ Dual!StatsAddUp
       /\ Dual!NarrativePoints /\ Dual!NoCriticalApproved
  /\ part = "dual apart" => ApartDual!LostLaneIsSilent /\ ApartDual!ConsensusIsBoth

\* A review leaves no worktree but one that git would not remove, its session
\* has the record exactly when it says so, what the runner says of its last
\* review is what that came to, and a browser alone is never left with neither
\* a record, a stream nor an error to retry (mr-review-runner.ts, run; serve.ts;
\* useReviewSession.ts).
ReviewsEnd ==
  /\ part = "session" => Session!TypeOK /\ Session!TreeGoes /\ Session!DoneIsDone
  /\ part = "session alone" => Alone!StatusIsTheRuns /\ Alone!ViewSettles
==============================================================================
