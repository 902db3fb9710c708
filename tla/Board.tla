------------------------------- MODULE Board --------------------------------
(***************************************************************************)
(* One conversation on the board of one browser: the workspace's event     *)
(* stream (serveTaskEvents in packages/cli/src/serve.ts), which carries    *)
(* records, journal events and the agent's live messages in order and      *)
(* replays the records alone when it is opened again, and the browser's    *)
(* store (packages/web/src/composables/useTasks.ts), which takes them in   *)
(* and asks for the whole conversation over a connection of its own.       *)
(*                                                                         *)
(* A turn is launched, started, says some messages, speaks and ends; event *)
(* 2n-1 of the journal starts turn n, event 2n is its reply.               *)
(***************************************************************************)
EXTENDS Naturals, Sequences, SequencesExt

CONSTANTS
  MaxTurn, MaxSaid,  \* turns, and messages the agent streams in a turn
  PipeBound,         \* frames on their way
  Opened,            \* the conversation is open, its journal is asked for
  Drops,             \* the stream may be cut
  Purges             \* the server may come back without the task

ParametersAreSound ==
  /\ {MaxTurn, MaxSaid, PipeBound} \subseteq Nat \ {0}
  /\ {Opened, Drops, Purges} \subseteq BOOLEAN

Absent == [status |-> "absent", turn |-> 0]
Records == [status : {"waiting", "running"}, turn : 0..MaxTurn] \cup {Absent}

VARIABLES
  record, journal, said,  \* the server's: the record, the length of its journal,
                          \* and of what the turn has streamed
  link, pipe,             \* the stream is up; its frames
  asked, answers,         \* requests for the conversation; answers on their way
  seen, events, bubbles   \* the browser's: record, journal, live messages

vars == <<record, journal, said, link, pipe, asked, answers, seen, events, bubbles>>
server == <<record, journal, said>>
fetch == <<asked, answers>>
board == <<seen, events, bubbles>>

Init ==
  /\ record = [status |-> "waiting", turn |-> 0]
  /\ journal = 0 /\ said = 0
  /\ link = FALSE /\ pipe = <<>>
  /\ asked = 0 /\ answers = {}
  /\ seen = Absent /\ events = <<>> /\ bubbles = <<>>

-----------------------------------------------------------------------------
(* The server: every change is told to who listens *)

Frame(kind, what) == [kind |-> kind, what |-> what]
Emit(frame) == pipe' = IF link THEN Append(pipe, frame) ELSE pipe
Room == ~ link \/ Len(pipe) < PipeBound

Launch ==
  /\ Room /\ record.status = "waiting" /\ record.turn < MaxTurn
  /\ record' = [status |-> "running", turn |-> record.turn + 1]
  /\ said' = 0
  /\ Emit(Frame("task", record'))
  /\ UNCHANGED <<journal, link, fetch, board>>

TurnStarted ==
  /\ Room /\ record.status = "running" /\ journal = 2 * record.turn - 2
  /\ journal' = journal + 1
  /\ Emit(Frame("task_event", journal'))
  /\ UNCHANGED <<record, said, link, fetch, board>>

Says ==
  /\ Room /\ record.status = "running" /\ journal = 2 * record.turn - 1
  /\ said < MaxSaid /\ said' = said + 1
  /\ Emit(Frame("task_text", [turn |-> record.turn, seq |-> said']))
  /\ UNCHANGED <<record, journal, link, fetch, board>>

Speaks ==
  /\ Room /\ record.status = "running" /\ journal = 2 * record.turn - 1
  /\ journal' = journal + 1
  /\ Emit(Frame("task_event", journal'))
  /\ UNCHANGED <<record, said, link, fetch, board>>

TurnEnds ==
  /\ Room /\ record.status = "running" /\ journal = 2 * record.turn
  /\ record' = [record EXCEPT !.status = "waiting"]
  /\ Emit(Frame("task", record'))
  /\ UNCHANGED <<journal, said, link, fetch, board>>

\* Retention, while the server restarts and nobody listens.
Purge ==
  /\ Purges /\ ~ link /\ record.status = "waiting"
  /\ record' = Absent
  /\ UNCHANGED <<journal, said, link, pipe, fetch, board>>

-----------------------------------------------------------------------------
(* The stream, and the request *)

\* On connect: the records there are.
Replay == IF record = Absent THEN <<>> ELSE <<Frame("task", record)>>

\* The browser asks for the open conversation again on each connection.
Hydration == asked' = IF Opened THEN asked + 1 ELSE asked

Connect ==
  /\ ~ link /\ link' = TRUE
  /\ asked < 2 /\ Hydration
  /\ pipe' = Replay
  /\ UNCHANGED <<server, answers, board>>

Drop ==
  /\ Drops /\ link /\ link' = FALSE
  /\ pipe' = <<>>
  /\ UNCHANGED <<server, fetch, board>>

OpenConversation ==
  /\ Opened /\ asked = 0 /\ asked' = 1
  /\ UNCHANGED <<server, link, pipe, answers, board>>

\* The server reads the record and the journal; the answer comes when it comes.
Answered ==
  /\ asked > 0 /\ asked' = asked - 1
  /\ answers' = IF record = Absent THEN answers
                ELSE answers \cup {[record |-> record, journal |-> journal]}
  /\ UNCHANGED <<server, link, pipe, board>>

-----------------------------------------------------------------------------
(* The browser *)

Appended(s, x) == Append(s, x)
\* mergeEvent and mergeLiveMessage: by seq, the same seq rewrites.
MergeBySeq(s, x) ==
  IF s = <<>> \/ x.seq > s[Len(s)].seq THEN Append(s, x)
  ELSE LET at == CHOOSE i \in 1..Len(s) :
                   s[i].seq >= x.seq /\ \A j \in 1..(i - 1) : s[j].seq < x.seq
       IN IF s[at].seq = x.seq THEN [s EXCEPT ![at] = x] ELSE InsertAt(s, at, x)

KeepsLiveMessages(status) == status = "running"

\* upsertRecord
Upsert(r) ==
  /\ seen' = r
  /\ bubbles' = IF KeepsLiveMessages(r.status) THEN bubbles ELSE <<>>

\* A turn that starts, and its reply, take the live messages away.
SettlesLiveMessages(event) == TRUE

OnEvent(event) ==
  /\ events' = MergeBySeq(events, [seq |-> event])
  /\ bubbles' = IF SettlesLiveMessages(event) THEN <<>> ELSE bubbles
  /\ UNCHANGED seen

\* What comes for a task without a record is dropped.
Receive ==
  /\ pipe # <<>> /\ pipe' = Tail(pipe)
  /\ LET frame == Head(pipe) IN
     \/ frame.kind = "task" /\ Upsert(frame.what) /\ UNCHANGED events
     \/ frame.kind = "task_event" /\ seen # Absent /\ OnEvent(frame.what)
     \/ /\ frame.kind = "task_text" /\ seen # Absent
        /\ bubbles' = MergeBySeq(bubbles, frame.what)
        /\ UNCHANGED <<seen, events>>
     \/ /\ frame.kind # "task" /\ seen = Absent
        /\ UNCHANGED board
  /\ UNCHANGED <<server, link, fetch>>

\* hydrateStore
Hydrate(answer) ==
  /\ answer \in answers /\ answers' = answers \ {answer}
  /\ Upsert(answer.record)
  /\ events' = FoldLeft(MergeBySeq, events, [i \in 1..answer.journal |-> [seq |-> i]])
  /\ UNCHANGED <<server, link, pipe, asked>>

Next ==
  \/ Launch \/ TurnStarted \/ Says \/ Speaks \/ TurnEnds \/ Purge
  \/ Connect \/ Drop \/ OpenConversation \/ Answered \/ Receive
  \/ \E answer \in answers : Hydrate(answer)

Spec == Init /\ [][Next]_vars

-----------------------------------------------------------------------------
(* Properties *)

Quiet == link /\ pipe = <<>> /\ asked = 0 /\ answers = {}

\* Every variable has its type; the browser knows of nothing that is still to
\* come, and shows live messages in their order.
TypeOK ==
  /\ record \in Records /\ seen \in Records
  /\ journal \in 0..(2 * MaxTurn) /\ said \in 0..MaxSaid
  /\ link \in BOOLEAN /\ asked \in 0..2
  /\ Len(pipe) <= PipeBound
  /\ \A a \in answers : a.record \in Records /\ a.journal <= journal
  /\ \A i \in DOMAIN events : events[i].seq \in 1..journal
  /\ \A i, j \in DOMAIN bubbles : i < j => bubbles[i].seq < bubbles[j].seq

\* Whatever answer overtakes whatever frame, the journal is shown in its order
\* and no event of it twice.
JournalInOrder == \A i, j \in DOMAIN events : i < j => events[i].seq < events[j].seq

\* When all has arrived, the open conversation has its whole journal: what was
\* told while the stream was down was asked for again. Of a task that is gone
\* nothing can be asked.
JournalIsWhole ==
  Quiet /\ Opened /\ Absent \notin {record, seen} => Len(events) = journal

\* The live messages on the screen are those of the turn the agent is in.
BubblesAreOfTheTurn ==
  Quiet => \A i \in DOMAIN bubbles :
             bubbles[i].turn = record.turn /\ record.status = "running"

\* A turn's live messages hand over to its reply: the two are never on the screen
\* at once.
NoDouble ==
  \A i \in DOMAIN bubbles : \A j \in DOMAIN events :
    events[j].seq # 2 * bubbles[i].turn

\* When all has arrived, the board shows the record the server has: a late or
\* reconnecting browser rebuilds it from the replay.
BoardIsTheServers == Quiet => seen = record
=============================================================================
