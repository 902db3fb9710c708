------------------------------ MODULE Journal ------------------------------
(***************************************************************************)
(* The event journal of one task (packages/cli/src/tasks-store.ts):         *)
(* events.jsonl, one JSON line per event, written by appendTaskEvent from   *)
(* an in-memory cursor and read back by readTaskJournal.                    *)
(*                                                                          *)
(* A line is its seq (0 when it does not parse), the event it carries (a    *)
(* number, standing for the payload) and its length in units: a fragment    *)
(* is 1 unit, a whole line LineLength, and a newline 1 more.  The cursor    *)
(* compares sums of these, as the code compares the size of the file; a     *)
(* line is long enough that a few fragments never add up to one, so a file  *)
(* that comes back to a remembered size by chance is left out.              *)
(***************************************************************************)
EXTENDS Naturals, Sequences, SequencesExt

CONSTANTS MaxEvents,   \* events appended, in all
          MaxFaults,   \* torn writes, full disks, outside writes, restarts
          Opaque,      \* the journal may exist and refuse to be read
          Blurs,       \* task.json may refuse to be read for a moment
          Outside      \* somebody else may write to or cut the file

ParametersAreSound ==
  /\ {MaxEvents, MaxFaults} \subseteq Nat
  /\ {Opaque, Blurs, Outside} \subseteq BOOLEAN

VARIABLES
  lines,      \* events.jsonl, line by line
  open,       \* the last line has no newline
  readable,   \* the file can be read at this moment
  cursor,     \* journalCursors: <<>>, or one [seq, size, needsNewline]
  cache,      \* hubTicketIdCache: "unset", "null" or "ticket"
  legibleRecord, \* task.json can be read at this moment
  answered,   \* events appendTaskEvent has returned
  toHub,      \* events it has handed to the hub
  reader,     \* a reader that catches up with afterSeq: [seen, got]
  next,       \* the number of the next event
  faults

vars == <<lines, open, readable, cursor, cache, legibleRecord, answered, toHub,
          reader, next, faults>>

-----------------------------------------------------------------------------
(* Reading *)

LineLength == 20

IsLegible(line) == line.seq > 0

Whole(seq, event) == [seq |-> seq, event |-> event, length |-> LineLength]
Torn == [seq |-> 0, event |-> 0, length |-> 1]

Legible(file) == SelectSeq(file, IsLegible)

\* statSync(path).size: every line but an open last one ends with a newline.
Size(file, isOpen) ==
  FoldSeq(LAMBDA line, sum : sum + line.length + 1, 0, file) - (IF isOpen THEN 1 ELSE 0)

\* A plausible bug: the highest seq stops at the first line that is illegible.
HighestOfPrefix(file) ==
  LET stop == SelectInSeq(file, LAMBDA line : ~ IsLegible(line)) IN
  IF stop = 0 THEN Len(file) ELSE stop - 1

Highest(file) == FoldSeq(LAMBDA line, top : IF line.seq > top THEN line.seq ELSE top, 0, file)

\* readTaskJournal: `unreadable' is the absence of an answer, `dropped' what
\* the answer is short of.
Read(afterSeq) ==
  IF readable
    THEN [events     |-> SelectSeq(Legible(lines), LAMBDA line : line.seq > afterSeq),
          unreadable |-> FALSE,
          dropped    |-> Len(SelectSeq(lines, LAMBDA line : ~ IsLegible(line)))]
    ELSE [events |-> <<>>, unreadable |-> TRUE, dropped |-> 0]

\* readJournalCursor: one tolerant read; illegible lines do not reset the seq.
ReadCursor ==
  IF readable
    THEN [seq |-> Highest(lines), size |-> Size(lines, open), needsNewline |-> open]
    ELSE [seq |-> 0, size |-> 0, needsNewline |-> FALSE]

\* journalCursor: what is remembered, unless the file has another size.
Cursor ==
  IF cursor # <<>> /\ cursor[1].size = Size(lines, open) THEN cursor[1] ELSE ReadCursor

-----------------------------------------------------------------------------
(* Writing: what reaches the file is the line, or the start of it. *)

\* The bytes of `line' after what the file holds. Written after an open line
\* that nobody closed, they run into it, and the two are illegible as one.
Glued(line) ==
  [seq |-> 0, event |-> 0, length |-> Last(lines).length + line.length]

Written(line, closing) ==
  IF open /\ ~ closing THEN Append(Front(lines), Glued(line)) ELSE Append(lines, line)

\* What is known of the file once the line is in it.
Advanced(c) ==
  [seq |-> c.seq + 1, size |-> c.size + LineLength + 1 + (IF c.needsNewline THEN 1 ELSE 0),
   needsNewline |-> FALSE]

\* The hub's share of an append: the ticket id is looked up once per process.
TicketId == IF cache # "unset" THEN cache ELSE IF legibleRecord THEN "ticket" ELSE "null"

\* appendTaskEvent
AppendEvent ==
  LET c == Cursor IN
  /\ next <= MaxEvents
  /\ lines' = Written(Whole(c.seq + 1, next), c.needsNewline)
  /\ open' = FALSE
  /\ cursor' = <<Advanced(c)>>
  /\ cache' = TicketId
  /\ toHub' = IF TicketId = "ticket" THEN toHub \union {next} ELSE toHub
  /\ answered' = answered \union {next}
  /\ next' = next + 1
  /\ UNCHANGED <<readable, legibleRecord, reader, faults>>

\* appendFileSync throws: the disk took none of the line, or the start of it.
\* The cursor keeps what journalCursor had just stored.
AppendFails ==
  LET c == Cursor IN
  /\ next <= MaxEvents /\ faults < MaxFaults
  /\ \/ UNCHANGED <<lines, open>>
     \/ lines' = Written(Torn, c.needsNewline) /\ open' = TRUE
  /\ cursor' = <<c>>
  /\ next' = next + 1
  /\ faults' = faults + 1
  /\ UNCHANGED <<readable, cache, legibleRecord, answered, toHub, reader>>

\* The process starts again: nothing in memory survives.
Forget ==
  /\ cursor' = <<>>
  /\ cache' = "unset"

Restart ==
  /\ faults < MaxFaults
  /\ Forget
  /\ faults' = faults + 1
  /\ UNCHANGED <<lines, open, readable, legibleRecord, answered, toHub, reader, next>>

\* It dies inside an append: the start of the line is there, or all of it but
\* its newline, or all of it, and nobody was answered.
CrashMidAppend ==
  LET c == Cursor IN
  /\ next <= MaxEvents /\ faults < MaxFaults
  /\ \/ lines' = Written(Torn, c.needsNewline) /\ open' = TRUE
     \/ lines' = Written(Whole(c.seq + 1, next), c.needsNewline) /\ open' \in BOOLEAN
  /\ Forget
  /\ next' = next + 1
  /\ faults' = faults + 1
  /\ UNCHANGED <<readable, legibleRecord, answered, toHub, reader>>

-----------------------------------------------------------------------------
(* The world around the file *)

\* Another process of the same program appends: it has read the file.
OutsideAppend ==
  /\ Outside /\ readable /\ next <= MaxEvents /\ faults < MaxFaults
  /\ lines' = Written(Whole(Highest(lines) + 1, next), open)
  /\ open' = FALSE
  /\ next' = next + 1
  /\ faults' = faults + 1
  /\ UNCHANGED <<readable, cursor, cache, legibleRecord, answered, toHub, reader>>

\* The tail is cut, by hand or by the file system: the last line is torn.
CutTail ==
  /\ Outside /\ faults < MaxFaults
  /\ lines # <<>> /\ IsLegible(Last(lines))
  /\ lines' = Append(Front(lines), Torn)
  /\ open' = TRUE
  /\ faults' = faults + 1
  /\ UNCHANGED <<readable, cursor, cache, legibleRecord, answered, toHub, reader, next>>

Unreadable ==
  /\ Opaque /\ readable /\ faults < MaxFaults
  /\ readable' = FALSE
  /\ faults' = faults + 1
  /\ UNCHANGED <<lines, open, cursor, cache, legibleRecord, answered, toHub, reader, next>>

ReadableAgain ==
  /\ ~ readable
  /\ readable' = TRUE
  /\ UNCHANGED <<lines, open, cursor, cache, legibleRecord, answered, toHub, reader, next, faults>>

Blur ==
  /\ Blurs /\ legibleRecord /\ faults < MaxFaults
  /\ legibleRecord' = FALSE
  /\ faults' = faults + 1
  /\ UNCHANGED <<lines, open, readable, cursor, cache, answered, toHub, reader, next>>

Clear ==
  /\ ~ legibleRecord
  /\ legibleRecord' = TRUE
  /\ UNCHANGED <<lines, open, readable, cursor, cache, answered, toHub, reader, next, faults>>

\* readTaskEvents(cwd, id, {afterSeq}): a reader asks for what it has not seen.
CatchUp ==
  LET events == Read(reader.seen).events IN
  /\ events # <<>>
  /\ reader' = [seen |-> Last(events).seq,
                got  |-> reader.got \union {line.event : line \in ToSet(events)}]
  /\ UNCHANGED <<lines, open, readable, cursor, cache, legibleRecord, answered, toHub, next, faults>>

Init ==
  /\ lines = <<>> /\ open = FALSE /\ readable = TRUE
  /\ cursor = <<>> /\ cache = "unset" /\ legibleRecord = TRUE
  /\ answered = {} /\ toHub = {}
  /\ reader = [seen |-> 0, got |-> {}]
  /\ next = 1 /\ faults = 0

Next ==
  \/ AppendEvent \/ AppendFails \/ Restart \/ CrashMidAppend
  \/ OutsideAppend \/ CutTail \/ Unreadable \/ ReadableAgain \/ Blur \/ Clear
  \/ CatchUp

Spec == Init /\ [][Next]_vars

-----------------------------------------------------------------------------
(* Properties *)

Events == 1 .. MaxEvents

\* The types of the variables; a line's seq is never above the number of
\* events, and the cursor never claims a size the file has not had.
TypeOK ==
  /\ lines \in Seq([seq : 0 .. MaxEvents, event : 0 .. MaxEvents, length : Nat \ {0}])
  /\ open \in BOOLEAN /\ readable \in BOOLEAN /\ legibleRecord \in BOOLEAN
  /\ open => lines # <<>>
  /\ Len(cursor) <= 1
  /\ \A c \in ToSet(cursor) :
       c \in [seq : 0 .. MaxEvents, size : Nat, needsNewline : BOOLEAN]
  /\ cache \in {"unset", "null", "ticket"}
  /\ answered \subseteq Events /\ toHub \subseteq answered
  /\ reader.seen \in 0 .. MaxEvents /\ reader.got \subseteq Events
  /\ next \in 1 .. MaxEvents + 1 /\ faults \in 0 .. MaxFaults

\* tasks-store.ts 586-590: each event is numbered one past the highest seq on
\* disk, whatever was torn, cut, added or forgotten in between. Two legible
\* lines never carry the same seq nor stand in the wrong order.
SeqsAscend ==
  LET file == Legible(lines) IN
  \A i, j \in DOMAIN file : i < j => file[i].seq < file[j].seq

\* The size is the only thing the cursor is checked against, so a remembered
\* size that is the file's own must come with the right seq and the right tail:
\* whatever could not be read, half failed or was written by another, an append
\* never trusts a cursor that is wrong about either.
CursorKnowsTheFile ==
  \A c \in ToSet(cursor) :
    c.size = Size(lines, open) => c.seq = Highest(lines) /\ c.needsNewline = open

\* A broken tail sacrifices itself only: nothing the program writes makes an
\* earlier event illegible, and an event it has answered can be read back at
\* once.
GluesNothing ==
  (~ OutsideAppend /\ ~ CutTail) =>
    /\ IsPrefix(Legible(lines), Legible(lines'))
    /\ \A event \in answered' \ answered :
         \E line \in ToSet(lines') : line.event = event

\* A reader that catches up from the last seq it saw is missing nothing up to
\* there: whatever crashed or failed between two calls, no event appears later
\* under a seq the reader is already past.
CatchUpMissesNothing ==
  \A line \in ToSet(Legible(lines)) :
    line.seq <= reader.seen => line.event \in reader.got

\* The cached ticket id never goes stale: every event of the task that
\* appendTaskEvent answers has been handed to the hub, in this process and in
\* the next.
HubHearsAll == answered \subseteq toHub

=============================================================================
