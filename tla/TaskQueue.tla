----------------------------- MODULE TaskQueue ------------------------------
(***************************************************************************)
(* queue.json of one project when it goes bad: torn bytes, a file that     *)
(* cannot be opened, records that will not parse just now, writes that     *)
(* fail. What a read hands back, what a write repairs, and what the boot   *)
(* makes of it all. TaskRunner has the line of a healthy file.             *)
(***************************************************************************)
EXTENDS Naturals, FiniteSets, Sequences, Functions, Selection

CONSTANTS Tasks,      \* task ids, in the order of their created_at
          QueueMax,   \* QUEUE_ENTRIES_MAX
          Junk,       \* an item of the file no reader can use
          Hiccups,    \* whether the file may refuse to open for a while
          MaxFaults   \* bound: how many times something outside spoils a read

ParametersAreSound ==
  /\ Tasks \subseteq Nat /\ IsFiniteSet(Tasks)
  /\ QueueMax \in Nat \ {0} /\ Junk \notin Tasks
  /\ Hiccups \in BOOLEAN /\ MaxFaults \in Nat

VARIABLES
  record,    \* the status in each task.json, or "none"
  blind,     \* the records that exist and will not parse just now
  file,      \* queue.json: absent, good, bad (no list in it), shut (EACCES...)
  evidence,  \* queue.json.corrupt
  reported,  \* degradedReports: the last degradation said of this file
  told,      \* history: the tasks whose lost place somebody was told of
  waiting,   \* history: the tasks the queue has accepted and that have not left
  faults     \* how many faults there have been

vars == <<record, blind, file, evidence, reported, told, waiting, faults>>

NoFile == [kind |-> "absent", items |-> <<>>]
GoodFile(line) == [kind |-> "good", items |-> line]
Files == [kind : {"absent", "good", "bad", "shut"}, items : Seq(Tasks \union {Junk})]
Silent == [kind |-> "none", short |-> 0, cut |-> 0, lost |-> {}]

Upto(s, n) == SubSeq(s, 1, IF Len(s) <= n THEN Len(s) ELSE n)

\* The numbers of S, the smallest first.
Ascending(S) ==
  [k \in 1..Cardinality(S) |-> CHOOSE x \in S : Cardinality({y \in S : y < x}) = k - 1]

-----------------------------------------------------------------------------
(***************************************************************************)
(* Reading the file.                                                       *)
(***************************************************************************)

\* The entries readQueue makes out: ids, each once, no more than the cap.
Entries(f) ==
  LET firsts == {i \in 1..Len(f.items) : /\ f.items[i] \in Tasks
                                         /\ \A j \in 1..(i - 1) : f.items[j] # f.items[i]}
      at == Ascending(firsts)
  IN  IF f.kind = "good" THEN Upto([k \in 1..Len(at) |-> f.items[at[k]]], QueueMax)
                         ELSE <<>>

\* readQueue's verdict: no list at all, or some of it that was not taken.
Spoilt(f, entries) ==
  \/ f.kind \in {"bad", "shut"}
  \/ f.kind = "good" /\ Len(entries) # Len(f.items)

Degraded(f) == Spoilt(f, Entries(f))

\* listTasks: the records that parse.
Listed(r) == {t \in Tasks : r[t] # "none" /\ t \notin blind}
Queued(r) == {t \in Listed(r) : r[t] = "queued"}

\* Variant of the definition below: what cannot be read is gone.
KeptIfListed(entries, r) == Only(entries, Queued(r))

\* The entries that stay: those of queued records, and those of records that
\* exist but say nothing.
Kept(entries, r) ==
  Only(entries, Queued(r) \union {t \in blind : r[t] # "none"})

\* Queued records the file does not know, oldest first.
Orphans(kept, r) == Ascending(Queued(r) \ Range(kept))

\* Variant of the definition below: those the file does not know come first.
OrphansFirst(kept, r) == Orphans(kept, r) \o kept

\* reconciledEntries, before the cap.
Whole(kept, r) == kept \o Orphans(kept, r)

\* Records that have no place and could have had one.
Lost(spoilt, line, r) ==
  IF spoilt THEN {t \in Tasks : r[t] # "none"} \ (Listed(r) \union Range(line)) ELSE {}

\* readQueue and reconciledEntries: what the file says, the line it should
\* hold, the degradation to report (or Silent) and the tasks this concerns.
Reading(f, r) ==
  LET entries == Entries(f)
      spoilt == Spoilt(f, entries)
      whole == Whole(Kept(entries, r), r)
      next == Upto(whole, QueueMax)
      lost == Lost(spoilt, next, r)
  IN  [entries |-> entries, spoilt |-> spoilt, next |-> next, over |-> Len(whole) > QueueMax,
       reason |-> IF spoilt \/ lost # {} \/ Len(whole) > QueueMax
                    THEN [kind |-> f.kind, short |-> Len(f.items) - Len(entries),
                          cut |-> Len(whole) - Len(next), lost |-> lost]
                    ELSE Silent,
       named |-> lost \union (Range(whole) \ Range(next))]

\* What a read hands back: the entries, or the line rebuilt from the records.
Handed(reading) == IF reading.spoilt THEN reading.next ELSE reading.entries
Line(f, r) == Handed(Reading(f, r))

\* A degradation is said once, and forgotten when the file reads clean or is
\* written.
Tells(reading) ==
  /\ told' = IF reading.spoilt /\ reading.reason # reported
               THEN told \union reading.named ELSE told
  /\ reported' = IF reading.spoilt /\ file' = file THEN reading.reason ELSE Silent

-----------------------------------------------------------------------------
(***************************************************************************)
(* Writing it.                                                             *)
(***************************************************************************)
Secured(reading) == IF reading.spoilt /\ evidence = NoFile THEN file ELSE evidence

\* write(): done, or failed before or after the bad bytes were copied. Bytes
\* that cannot be read cannot be copied, and then nothing is written, unless
\* those of an earlier incident are kept already.
Store(line, reading) ==
  \/ /\ file.kind # "shut" \/ evidence # NoFile
     /\ file' = GoodFile(line) /\ evidence' = Secured(reading)
  \/ /\ file' = file
     /\ evidence' \in {evidence} \union
                       (IF file.kind = "shut" THEN {} ELSE {Secured(reading)})

Quiet == UNCHANGED <<file, evidence>>

Full(line) == Len(line) >= QueueMax

-----------------------------------------------------------------------------
(***************************************************************************)
(* The operations. A gesture writes 'queued' into the record before it     *)
(* asks for the place in line.                                             *)
(***************************************************************************)
Enqueue(t) ==
  LET r == [record EXCEPT ![t] = "queued"]
      reading == Reading(file, r)
      line == Handed(reading)
      longer == Append(line, t)
  IN  /\ t \notin blind /\ record[t] # "queued"
      /\ record' = r
      /\ \/ /\ t \in Range(line)
            /\ Quiet
            /\ waiting' = waiting \union {t}
         \/ /\ t \notin Range(line) /\ Full(line)
            /\ Quiet
            /\ waiting' = waiting
         \/ /\ t \notin Range(line) /\ ~Full(line)
            /\ Store(longer, reading)
            /\ waiting' = IF file' = GoodFile(longer) THEN waiting \union {t} ELSE waiting
      /\ Tells(reading)
      /\ UNCHANGED <<blind, faults>>

\* A read, and the write of the line without some of its tasks: remove,
\* removeMany. A write that fails is swallowed by the caller.
Remove(gone) ==
  LET reading == Reading(file, record)
  IN  /\ gone \subseteq Range(Handed(reading))
      /\ Store(Only(Handed(reading), Tasks \ gone), reading)
      /\ Tells(reading)

\* A task leaves the line for the status it leaves it for.
Leave(t) ==
  /\ t \notin blind /\ record[t] = "queued"
  /\ Remove({t})
  /\ record' = [record EXCEPT ![t] = "other"]
  /\ waiting' = waiting \ {t}
  /\ UNCHANGED <<blind, faults>>

\* The pump's sweep: the entries in front of the first runnable one that are
\* not waiting any more. What cannot be read is stepped over.
Stale ==
  LET line == Line(file, record)
      before == {j \in 1..Len(line) : \A k \in 1..j : line[k] \notin Queued(record)}
  IN  {t \in {line[j] : j \in before} : t \in Listed(record) \/ record[t] = "none"}

Sweep ==
  /\ Stale # {}
  /\ Remove(Stale)
  /\ UNCHANGED <<record, blind, waiting, faults>>

\* A listing: it writes nothing, but speaks up.
List ==
  LET reading == Reading(file, record)
  IN  /\ reading.spoilt \/ reported # Silent
      /\ Quiet /\ Tells(reading)
      /\ UNCHANGED <<record, blind, waiting, faults>>

\* A new process, reconciling. With no file at all, whoever is queued is an
\* orphan of a session that died and is set aside.
BootWithoutFile ==
  /\ file.kind = "absent"
  /\ record' = [t \in Tasks |-> IF t \in Queued(record) THEN "other" ELSE record[t]]
  /\ waiting' = {}
  /\ reported' = Silent
  /\ UNCHANGED <<blind, file, evidence, told, faults>>

Rewrites(reading) == reading.reason # Silent \/ reading.entries # reading.next

Boot ==
  LET reading == Reading(file, record)
  IN  /\ file.kind # "absent"
      /\ \/ Rewrites(reading) /\ Store(reading.next, reading)
         \/ ~Rewrites(reading) /\ Quiet
      /\ reported' = Silent
      /\ told' = told \union reading.named
      /\ waiting' = IF file' = GoodFile(reading.next)
                      THEN waiting \union (Range(reading.next) \intersect Queued(record))
                      ELSE waiting
      /\ UNCHANGED <<record, blind, faults>>

-----------------------------------------------------------------------------
(***************************************************************************)
(* What happens to the files from outside.                                 *)
(***************************************************************************)
Fault == faults < MaxFaults /\ faults' = faults + 1

\* Some of the items are not legible any more, or none is.
Damage ==
  /\ Fault /\ file.kind = "good"
  /\ \/ file' = [kind |-> "bad", items |-> <<>>]
     \/ \E torn \in SUBSET (1..Len(file.items)) \ {{}} :
          file' = GoodFile([i \in 1..Len(file.items) |->
                              IF i \in torn THEN Junk ELSE file.items[i]])
  /\ UNCHANGED <<record, blind, evidence, reported, told, waiting>>

\* The file cannot be opened, and can again.
Shut ==
  /\ Fault /\ Hiccups /\ file.kind = "good"
  /\ file' = [file EXCEPT !.kind = "shut"]
  /\ UNCHANGED <<record, blind, evidence, reported, told, waiting>>

Reopen ==
  /\ file.kind = "shut"
  /\ file' = [file EXCEPT !.kind = "good"]
  /\ UNCHANGED <<record, blind, evidence, reported, told, waiting, faults>>

\* A human deletes the file, or a task.
Wipe ==
  /\ Fault /\ file.kind # "absent"
  /\ file' = NoFile /\ waiting' = {}
  /\ UNCHANGED <<record, blind, evidence, reported, told>>

DeleteTask(t) ==
  /\ Fault /\ record[t] # "none"
  /\ record' = [record EXCEPT ![t] = "none"]
  /\ blind' = blind \ {t} /\ waiting' = waiting \ {t}
  /\ UNCHANGED <<file, evidence, reported, told>>

\* A record stops parsing for a while.
Blur(t) ==
  /\ Fault /\ record[t] # "none" /\ t \notin blind
  /\ blind' = blind \union {t}
  /\ UNCHANGED <<record, file, evidence, reported, told, waiting>>

Clear(t) ==
  /\ t \in blind
  /\ blind' = blind \ {t}
  /\ UNCHANGED <<record, file, evidence, reported, told, waiting, faults>>

Init ==
  /\ record = [t \in Tasks |-> "none"] /\ blind = {}
  /\ file = NoFile /\ evidence = NoFile /\ reported = Silent
  /\ told = {} /\ waiting = {} /\ faults = 0

Outside == \/ Damage \/ Shut \/ Reopen \/ Wipe
           \/ \E t \in Tasks : DeleteTask(t) \/ Blur(t) \/ Clear(t)

Next == \/ \E t \in Tasks : Enqueue(t) \/ Leave(t)
        \/ Sweep \/ List \/ BootWithoutFile \/ Boot
        \/ Outside

Spec == Init /\ [][Next]_vars

-----------------------------------------------------------------------------
(***************************************************************************)
(* What the preview answers, and what the creation would.                  *)
(***************************************************************************)

\* projectedAdmission: the rank at the end of the reconciled line, 0 for a
\* refusal. (Who starts at once is the pump's affair.)
Projection ==
  LET line == Reading(file, record).next
  IN  IF Full(line) THEN 0 ELSE Len(line) + 1

\* The rank enqueue answers.
Admission(t) ==
  LET line == Line(file, [record EXCEPT ![t] = "queued"])
  IN  IF t \in Range(line) THEN CHOOSE i \in 1..Len(line) : line[i] = t
      ELSE IF Full(line) THEN 0 ELSE Len(line) + 1

-----------------------------------------------------------------------------
\* Every variable stays in its type; the file never holds more than its
\* cap, and the line read from it has no duplicates, whatever is written there.
TypeOK ==
  /\ record \in [Tasks -> {"none", "queued", "other"}]
  /\ blind \subseteq {t \in Tasks : record[t] # "none"}
  /\ file \in Files /\ evidence \in Files
  /\ told \subseteq Tasks /\ waiting \subseteq Tasks
  /\ faults \in 0..MaxFaults
  /\ Len(file.items) <= QueueMax
  /\ LET line == Line(file, record)
     IN  line \in Seq(Tasks) /\ IsInjective(line) /\ Len(line) <= QueueMax

\* Nobody the queue has accepted drops out of it in silence: once the file
\* reads well again, whoever waited is in it, or its lost place was said.
WaitersKept ==
  ~Degraded(file) =>
    \A t \in waiting : t \in Range(file.items) \/ t \in told

\* What the preview announces is what a creation would get, as long as the
\* file is damaged (both rebuild it) or lists nobody but waiting tasks.
PreviewTells ==
  \A t \in Tasks :
    /\ t \notin Range(file.items) /\ \A u \in Tasks : record[u] # "none" => u < t
    /\ LET reading == Reading(file, record)
       IN  reading.spoilt \/ reading.entries = reading.next
    => Projection = Admission(t)

InOneOrder(a, b) == Only(a, Range(b)) = Only(b, Range(a))
NewcomersLast(a, b) ==
  \A i, j \in 1..Len(b) : b[i] \notin Range(a) /\ b[j] \in Range(a) => j < i

\* (Below, blind is read unprimed: only the outside changes it.)
\* No operation and no repair makes a task overtake another: two tasks that
\* stay in line stay in their order, and unless the file that held the ranks is
\* damaged, whoever comes in comes in behind them.
KeepsRanks ==
  <<file, record>>' # <<file, record>> /\ ~Outside =>
    LET before == Line(file, record)
        after == Line(file', record')
    IN  before # after => /\ InOneOrder(before, after)
                          /\ ~Degraded(file) => NewcomersLast(before, after)
RanksKept == [][KeepsRanks]_vars

\* A file that went bad is never overwritten before some evidence is kept, and
\* the evidence of the first incident is never replaced.
KeepsEvidence ==
  /\ ~Outside /\ Degraded(file) /\ file' # file => evidence' # NoFile
  /\ evidence # NoFile => evidence' = evidence

\* A boot settles the file: booted again on the same records, it finds nothing
\* to rewrite and nothing to say. (A line past the cap is never settled.)
SettlesAtBoot ==
  Boot => LET after == Reading(file', record')
          IN  ~after.spoilt /\ ~after.over => ~Rewrites(after)
=============================================================================
