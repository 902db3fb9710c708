----------------------------- MODULE HubOutbox -----------------------------
(***************************************************************************)
(* What a runner tells its hub, and what becomes of it when the hub cannot  *)
(* be reached (packages/cli/src/task-hub.ts): transitions are posted at     *)
(* once, journal lines are batched, what could not be sent is appended to   *)
(* .codesema/hub-outbox.jsonl, and the daemon's tick replays that file.     *)
(*                                                                          *)
(* An item is one transition or one journal line, numbered in the order     *)
(* they are handed over; an entry is what one request carries.  The hub is  *)
(* external: a post reaches it or not, and its answer comes back or not.    *)
(***************************************************************************)
EXTENDS Naturals, Sequences, SequencesExt, FiniteSets, Selection

CONSTANTS MaxItems,   \* items handed over
          BatchMax,   \* HUB_EVENT_BATCH_MAX
          MaxFaults,  \* unanswered posts, failed writes, crashes, lost credentials
          Overlap,    \* an answer may arrive while the outbox is replayed
          Tears       \* a crash may leave half an outbox line

ParametersAreSound ==
  /\ {MaxItems, MaxFaults} \subseteq Nat /\ BatchMax \in Nat \ {0}
  /\ {Overlap, Tears} \subseteq BOOLEAN

VARIABLES
  handed,     \* how many items have been handed over
  batch,      \* pendingEventBatches: the journal lines waiting for company
  posting,    \* the entries on their way to the hub
  outbox,     \* the file: entries, and Scrap where a line does not parse
  open,       \* its last line has no newline
  flush,      \* <<>>, or one replay under way: [todo, kept, creds]
  connected,  \* loadSyncCredentials() answers
  received,   \* how many times the hub has received each item
  spoken,     \* items whose loss or refusal was logged
  crashed,    \* items a crash took from memory
  doubtful,   \* items the hub may have received without our knowing
  faults

vars == <<handed, batch, posting, outbox, open, flush, connected, received, spoken,
          crashed, doubtful, faults>>

Items == 1 .. MaxItems
Entry(kind, items) == [kind |-> kind, items |-> items]
Scrap == Entry("scrap", <<>>)
IsEntry(line) == line.kind # "scrap"

InEntries(entries) == UNION {ToSet(entry.items) : entry \in entries}
InFile(file) == InEntries(ToSet(file))

Flushing == flush # <<>>
Todo == flush[1].todo
Kept == flush[1].kept

Received(items) == [i \in Items |-> received[i] + (IF i \in items THEN 1 ELSE 0)]

-----------------------------------------------------------------------------
(* Handing over *)

\* reportHubTransition: without credentials it is logged and dropped.
ReportTransition ==
  /\ handed < MaxItems
  /\ handed' = handed + 1
  /\ IF connected
       THEN posting' = posting \union {Entry("transition", <<handed + 1>>)} /\ UNCHANGED spoken
       ELSE spoken' = spoken \union {handed + 1} /\ UNCHANGED posting
  /\ UNCHANGED <<batch, outbox, open, flush, connected, received, crashed, doubtful, faults>>

\* flushEventBatch: the batch leaves the table before anything is awaited.
Send(events) ==
  /\ batch' = <<>>
  /\ IF connected
       THEN posting' = posting \union {Entry("events", events)} /\ UNCHANGED spoken
       ELSE spoken' = spoken \union ToSet(events) /\ UNCHANGED posting

BatchFull(events) == Len(events) >= BatchMax

\* queueHubEvent: a full batch is sent at once.
QueueEvent ==
  LET events == Append(batch, handed + 1) IN
  /\ handed < MaxItems
  /\ handed' = handed + 1
  /\ IF BatchFull(events)
       THEN Send(events)
       ELSE batch' = events /\ UNCHANGED <<posting, spoken>>
  /\ UNCHANGED <<outbox, open, flush, connected, received, crashed, doubtful, faults>>

\* The batch has waited HUB_EVENT_BATCH_DELAY_MS.
BatchTimer ==
  /\ batch # <<>>
  /\ Send(batch)
  /\ UNCHANGED <<handed, outbox, open, flush, connected, received, crashed, doubtful, faults>>

-----------------------------------------------------------------------------
(* The answers to direct posts *)

\* appendToOutbox writes the line after whatever the file ends with.
Appended(entry) ==
  IF open THEN Append(Front(outbox), Scrap) ELSE Append(outbox, entry)

Accepted(entry) ==
  /\ received' = Received(ToSet(entry.items))
  /\ UNCHANGED <<outbox, open, spoken, doubtful, faults>>

\* A 4xx: logged and abandoned.
Refused(entry) ==
  /\ spoken' = spoken \union ToSet(entry.items)
  /\ UNCHANGED <<outbox, open, received, doubtful, faults>>

\* No answer, or a 5xx: the hub may have received it all the same. The entry
\* goes to the outbox, or is logged as lost when the file cannot be written.
Unanswered(entry) ==
  /\ faults < MaxFaults /\ faults' = faults + 1
  /\ Overlap \/ ~ Flushing
  /\ \/ UNCHANGED <<received, doubtful>>
     \/ received' = Received(ToSet(entry.items)) /\ doubtful' = doubtful \union ToSet(entry.items)
  /\ \/ outbox' = Appended(entry) /\ open' = FALSE /\ UNCHANGED spoken
     \/ spoken' = spoken \union ToSet(entry.items) /\ UNCHANGED <<outbox, open>>

Answer ==
  \E entry \in posting :
    /\ posting' = posting \ {entry}
    /\ Accepted(entry) \/ Refused(entry) \/ Unanswered(entry)
    /\ UNCHANGED <<handed, batch, flush, connected, crashed>>

-----------------------------------------------------------------------------
(* flushHubOutbox, once per daemon tick: the file is read, each entry is      *)
(* posted and awaited, and the file is rewritten with what could not be sent. *)

FlushStart ==
  /\ ~ Flushing /\ outbox # <<>>
  /\ flush' = <<[todo |-> Only(outbox, {line \in ToSet(outbox) : IsEntry(line)}), kept |-> <<>>,
                  creds |-> connected]>>
  /\ UNCHANGED <<handed, batch, posting, outbox, open, connected, received, spoken, crashed,
                 doubtful, faults>>

\* A plausible bug: whatever was not accepted is kept for another try.
KeepUnlessAccepted(outcome) == outcome # "accepted"

\* A plausible bug: an entry is tried once more and then let go.
KeepNothing(outcome) == FALSE

\* Only what may work later is kept.
KeepOn(outcome) == outcome \in {"unanswered", "disconnected"}

\* One entry is replayed; `disconnected' posts nothing.
FlushPost ==
  /\ Flushing /\ Todo # <<>>
  /\ \E outcome \in {"accepted", "refused", "unanswered", "disconnected"} :
       LET items == ToSet(Head(Todo).items) IN
       /\ (outcome = "disconnected") = ~ flush[1].creds
       /\ flush' = <<[flush[1] EXCEPT
                        !.todo = Tail(Todo),
                        !.kept = IF KeepOn(outcome) THEN Append(Kept, Head(Todo)) ELSE Kept]>>
       /\ \/ outcome = "accepted" /\ received' = Received(items) /\ UNCHANGED doubtful
          \/ outcome = "unanswered" /\ received' = Received(items)
             /\ doubtful' = doubtful \union items
          \/ outcome # "accepted" /\ UNCHANGED <<received, doubtful>>
       /\ spoken' = IF outcome = "refused" THEN spoken \union items ELSE spoken
       /\ IF outcome = "unanswered"
            THEN faults < MaxFaults /\ faults' = faults + 1
            ELSE UNCHANGED faults
  /\ UNCHANGED <<handed, batch, posting, outbox, open, connected, crashed>>

FlushEnd ==
  /\ Flushing /\ Todo = <<>>
  /\ outbox' = Kept /\ open' = FALSE
  /\ flush' = <<>>
  /\ UNCHANGED <<handed, batch, posting, connected, received, spoken, crashed, doubtful, faults>>

\* The rewrite throws before it touches the file: the same entries come again.
FlushEndFails ==
  /\ Flushing /\ Todo = <<>> /\ faults < MaxFaults
  /\ flush' = <<>>
  /\ doubtful' = doubtful \union InFile(outbox)
  /\ faults' = faults + 1
  /\ UNCHANGED <<handed, batch, posting, outbox, open, connected, received, spoken, crashed>>

-----------------------------------------------------------------------------
(* The process and its machine *)

Memory == ToSet(batch) \union InEntries(posting)

\* The process dies. What it held is gone; a replay that had posted entries
\* leaves them in the file; a rewrite it was in may leave the file empty, an
\* append it was in may leave half a line.
Crash ==
  /\ faults < MaxFaults
  /\ batch' = <<>> /\ posting' = {} /\ flush' = <<>>
  /\ \/ UNCHANGED <<outbox, open>> /\ crashed' = crashed \union Memory
     \/ /\ Flushing /\ Todo = <<>>
        /\ outbox' = <<>> /\ open' = FALSE
        /\ crashed' = crashed \union Memory \union InFile(outbox)
     \/ /\ Tears /\ posting # {}
        /\ outbox' = Append(IF open THEN Front(outbox) ELSE outbox, Scrap) /\ open' = TRUE
        /\ crashed' = crashed \union Memory
  /\ doubtful' = doubtful \union InEntries(posting) \union (IF Flushing THEN InFile(outbox) ELSE {})
  /\ faults' = faults + 1
  /\ UNCHANGED <<handed, connected, received, spoken>>

Disconnect ==
  /\ connected /\ faults < MaxFaults
  /\ connected' = FALSE
  /\ faults' = faults + 1
  /\ UNCHANGED <<handed, batch, posting, outbox, open, flush, received, spoken, crashed, doubtful>>

Connect ==
  /\ ~ connected
  /\ connected' = TRUE
  /\ UNCHANGED <<handed, batch, posting, outbox, open, flush, received, spoken, crashed,
                 doubtful, faults>>

Init ==
  /\ handed = 0 /\ batch = <<>> /\ posting = {}
  /\ outbox = <<>> /\ open = FALSE /\ flush = <<>> /\ connected = TRUE
  /\ received = [i \in Items |-> 0]
  /\ spoken = {} /\ crashed = {} /\ doubtful = {}
  /\ faults = 0

Next ==
  \/ ReportTransition \/ QueueEvent \/ BatchTimer \/ Answer
  \/ FlushStart \/ FlushPost \/ FlushEnd \/ FlushEndFails
  \/ Crash \/ Disconnect \/ Connect

\* A post is answered or times out after HUB_REQUEST_TIMEOUT_MS, the batch
\* timer fires, and the daemon ticks for as long as it runs.
Fairness ==
  /\ WF_vars(BatchTimer) /\ WF_vars(Answer)
  /\ WF_vars(FlushStart) /\ WF_vars(FlushPost) /\ WF_vars(FlushEnd)

Spec == Init /\ [][Next]_vars /\ Fairness

-----------------------------------------------------------------------------
(* Properties *)

Entries == [kind : {"transition", "events"}, items : Seq(Items)] \union {Scrap}

\* The types of the variables; a batch never reaches its limit without being
\* sent, and an open line is the scrap a crash left.
TypeOK ==
  /\ handed \in 0 .. MaxItems
  /\ batch \in Seq(Items) /\ Len(batch) < BatchMax
  /\ posting \subseteq Entries
  /\ outbox \in Seq(Entries)
  /\ open => outbox # <<>> /\ Last(outbox) = Scrap
  /\ Len(flush) <= 1
  /\ Flushing => Todo \in Seq(Entries \ {Scrap}) /\ Kept \in Seq(Entries \ {Scrap})
  /\ connected \in BOOLEAN
  /\ received \in [Items -> Nat]
  /\ {spoken, crashed, doubtful} \subseteq SUBSET (1 .. handed)
  /\ faults \in 0 .. MaxFaults

\* task-hub.ts 3-5: a failure that could not be recovered by the outbox is
\* always logged, never swallowed. Every item handed over has reached the hub,
\* or is still in memory or in the file, or was logged, or died with the
\* process that held it.
NothingVanishes ==
  \A i \in 1 .. handed :
    \/ received[i] > 0
    \/ i \in spoken \union crashed \union Memory \union InFile(outbox)
    \/ Flushing /\ i \in InFile(Todo) \union InFile(Kept)

\* The hub is told a thing twice only for a cause: its answer did not come
\* back, or the process stopped between the post and the rewrite of the file.
RepeatsHaveACause == \A i \in Items : received[i] > 1 => i \in doubtful

\* With credentials to send it, the outbox is emptied in the end: a hub that
\* refuses an entry does not have it offered again for ever, and neither a
\* crash nor an illegible line stops the replay.
Drains == <>[]connected => <>[](outbox = <<>>)
=============================================================================
