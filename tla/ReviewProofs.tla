---------------------------- MODULE ReviewProofs ----------------------------
(***************************************************************************)
(* What a person is shown and takes delivery of, for any number of turns,  *)
(* messages, frames, reviews, streams and crashes.                         *)
(*                                                                         *)
(* The delivery's own promises, whoever asks for ships: what makes them    *)
(* hold is told in three layers, one push and one merge at a time          *)
(* (OneAtATime), nobody else's write under a step (Owned), and markers     *)
(* that tell the truth to the boot (Approved).                             *)
(*                                                                         *)
(* The board: every event of the journal that an open conversation lacks   *)
(* is still to come (OpenInv), a live message on the screen has its turn   *)
(* or what takes it away behind it (LiveInv), and the record that a closed *)
(* conversation lacks is the last one in the stream (ClosedInv).           *)
(*                                                                         *)
(* The reviews: the session has the record of its run or nothing           *)
(* (SessionFollows), a worktree that stays is known to (TreeLeft), and a   *)
(* browser that is alone waits for a record or listens to a stream that    *)
(* will tell of one (ViewHolds).                                           *)
(***************************************************************************)
EXTENDS MCReview, SelectionProofs

Pushing(w) == pc[w] \in {"push", "pushed"}
Merging(w) == pc[w] \in {"call", "answered", "noted", "publish"}

\* The sets `shipping' and `merging' let one caller through.
OneAtATime ==
  \A v, w \in Callers :
    /\ Pushing(v) /\ Pushing(w) => v = w
    /\ Merging(v) /\ Merging(w) => v = w

RecordTyped ==
  /\ status \in Statuses /\ cycle_step \in Steps
  /\ opts \in [auto_ship : BOOLEAN, auto_merge : BOOLEAN]
  /\ copy \in [Callers -> [status : Statuses, step : Steps]]

FlagsTyped ==
  /\ checking \in BOOLEAN /\ up \in BOOLEAN /\ mr \in BOOLEAN /\ landed \in BOOLEAN
  /\ behind \in BOOLEAN /\ merged \in BOOLEAN /\ published \in BOOLEAN
  /\ turns \in 0 .. MaxTurns /\ crashes \in 0 .. MaxCrashes

CallersTyped ==
  /\ pc \in [Callers -> Stages]
  /\ ~up => \A w \in Callers : pc[w] = "idle"

Typed == RecordTyped /\ FlagsTyped /\ CallersTyped

IInv == Typed /\ OneAtATime /\ MergedIsFinal

-----------------------------------------------------------------------------
(***************************************************************************)
(* How the callers move.                                                   *)
(***************************************************************************)

\* A caller moves on by itself: the others stay where they are.
LEMMA Moves ==
  ASSUME NEW w \in Callers, NEW s \in Stages, pc \in [Callers -> Stages], At(w, s)
  PROVE  /\ pc' \in [Callers -> Stages] /\ pc'[w] = s
         /\ \A v \in Callers : v # w => pc'[v] = pc[v]
BY DEF At

\* Where a ship may leave its caller.
LEMMA AfterShipStages ==
  ASSUME NEW w \in Callers, NEW s \in Steps
  PROVE  AfterShip(w, s) \in {"idle", "merge"}
BY DEF AfterShip, Callers, Steps

\* The stage a step of a ship or of a merge leaves its caller at.
NextStage(w) ==
  /\ pc'[w] \in {"push"} => ~shipping
  /\ pc'[w] = "pushed" => pc[w] = "push"
  /\ pc'[w] = "call" => ~merging /\ ~merged
  /\ pc'[w] \in {"answered", "noted", "publish"} => pc[w] \in {"call", "answered", "noted"}

\* A step of a ship or of a merge moves its own caller alone, and only from stage to stage.
LEMMA StepsMove ==
  ASSUME IInv, NEW w \in Callers, Ship(w) \/ Merge(w)
  PROVE  /\ up /\ pc' \in [Callers -> Stages]
         /\ \A v \in Callers : v # w => pc'[v] = pc[v]
         /\ NextStage(w)
         /\ merged' => merged \/ pc[w] = "answered"
<1> USE DEF IInv, Typed, RecordTyped, FlagsTyped, CallersTyped
<1>1. /\ AfterShip(w, cycle_step) \in {"idle", "merge"}
      /\ AfterShip(w, "none") \in {"idle", "merge"}
      /\ cycle_step' \in Steps => AfterShip(w, cycle_step') \in {"idle", "merge"}
  BY AfterShipStages DEF Steps
<1>2. up
  BY
     DEF Ship, Merge, ShipBusy, ShipRefused, ShipStarts, PushLands, PushFails, ShipWrites,
         MergeSkipped,
     MergeKnown, MergeEvaluates, ForgeMerges, ForgeRefuses, MergeJournaled, MergeCleared, Publishes
<1>3. ASSUME NEW s \in Stages, At(w, s), UNCHANGED merged, s \in {"idle", "merge"}
      PROVE  /\ pc' \in [Callers -> Stages] /\ \A v \in Callers : v # w => pc'[v] = pc[v]
             /\ NextStage(w) /\ (merged' => merged)
  BY <1>3, Moves DEF NextStage
<1>4. CASE ShipBusy(w) \/ ShipRefused(w)
  BY <1>1, <1>2, <1>3, <1>4 DEF ShipBusy, ShipRefused, Stages
<1>5. CASE ShipStarts(w) \/ PushLands(w)
  BY <1>2, <1>5, Moves DEF ShipStarts, PushLands, Stages, NextStage
<1>6. CASE PushFails(w) \/ ShipWrites(w)
  <2>1. cycle_step' \in Steps
    BY <1>6 DEF PushFails, ShipWrites, Saves, Steps
  <2> QED
    BY <1>1, <1>2, <1>3, <1>6, <2>1 DEF PushFails, ShipWrites, Stages
<1>7. CASE MergeSkipped(w) \/ MergeKnown(w) \/ ForgeRefuses(w) \/ Publishes(w)
  BY <1>2, <1>3, <1>7 DEF MergeSkipped, MergeKnown, ForgeRefuses, Publishes, Stages
<1>8. CASE MergeEvaluates(w)
  BY <1>2, <1>3, <1>8, Moves DEF MergeEvaluates, Stages, NextStage
<1>9. CASE ForgeMerges(w) \/ MergeJournaled(w) \/ MergeCleared(w)
  BY <1>2, <1>9, Moves DEF ForgeMerges, MergeJournaled, MergeCleared, Stages, NextStage
<1> QED
  BY <1>4, <1>5, <1>6, <1>7, <1>8, <1>9 DEF Ship, Merge

-----------------------------------------------------------------------------
(***************************************************************************)
(* One push and one merge at a time.                                       *)
(***************************************************************************)

\* What everybody but the two steps leaves of the callers: where they were, but
\* for one that starts a step or all that stop.
Elsewhere ==
  \/ \E s \in Statuses : Settles(s)
  \/ HookThrows \/ PersonAsksToShip \/ Reply \/ Abandon \/ Checks \/ TargetMoves
  \/ Crash \/ Boot

\* No other step takes a caller into a push or a merge.
LEMMA ElsewhereMoves ==
  ASSUME IInv, Elsewhere
  PROVE  /\ pc' \in [Callers -> Stages]
         /\ \A w \in Callers : pc'[w] = pc[w] \/ pc'[w] \in {"idle", "ship", "merge"}
         /\ merged' = merged /\ copy' = copy
<1> USE DEF IInv, Typed, RecordTyped, FlagsTyped, CallersTyped
<1>1. ASSUME NEW v \in Callers, NEW s \in Stages, At(v, s), s \in {"idle", "ship", "merge"}
      PROVE  /\ pc' \in [Callers -> Stages]
             /\ \A w \in Callers : pc'[w] = pc[w] \/ pc'[w] \in {"idle", "ship", "merge"}
  BY <1>1, Moves
<1>2. CASE (\E s \in Statuses : Settles(s)) \/ HookThrows \/ PersonAsksToShip
  BY <1>1, <1>2 DEF Settles, HookThrows, PersonAsksToShip, Callers, Stages
<1>3. CASE Reply \/ Abandon \/ Checks \/ TargetMoves
  BY <1>3 DEF Reply, Abandon, Checks, TargetMoves, rest, forge
<1>4. CASE Crash
  BY <1>4 DEF Crash, Callers, Stages, forge
<1>5. CASE Boot
  BY <1>1, <1>5 DEF Boot, Callers, Stages, Steps, forge
<1> QED
  BY <1>2, <1>3, <1>4, <1>5 DEF Elsewhere

\* Every step is one of a ship, of a merge, or of the rest.
LEMMA NextIsThem ==
  ASSUME [Next]_vars
  PROVE  (\E w \in Callers : Ship(w) \/ Merge(w)) \/ Elsewhere \/ UNCHANGED vars
BY DEF Next, Elsewhere, Statuses

\* What the steps write in the record.
LEMMA RecordKept ==
  ASSUME IInv, [Next]_vars PROVE RecordTyped'
<1> USE DEF IInv, Typed, RecordTyped, Statuses, Steps
<1>1. ASSUME NEW w \in Callers, Ship(w) PROVE RecordTyped'
  <2>1. opts' = opts
    BY <1>1 DEF Ship, ShipBusy, ShipRefused, ShipStarts, PushLands, PushFails, ShipWrites, rest
  <2>2. CASE ShipBusy(w) \/ ShipRefused(w) \/ ShipStarts(w) \/ PushLands(w)
    BY <2>1, <2>2 DEF ShipBusy, ShipRefused, ShipStarts, PushLands, Saves
  <2>3. CASE PushFails(w) \/ ShipWrites(w)
    BY <2>1, <2>3 DEF PushFails, ShipWrites, Saves
  <2> QED
    BY <1>1, <2>2, <2>3 DEF Ship
<1>2. ASSUME NEW w \in Callers, Merge(w) PROVE RecordTyped'
  <2>1. opts' = opts
    BY <1>2 DEF Merge, MergeSkipped, MergeKnown, MergeEvaluates, ForgeMerges, ForgeRefuses,
       MergeJournaled, MergeCleared, Publishes, rest
  <2>2. CASE MergeSkipped(w) \/ MergeKnown(w) \/ ForgeMerges(w) \/ MergeJournaled(w) \/ Publishes(w)
    BY <2>1, <2>2 DEF MergeSkipped, MergeKnown, ForgeMerges, MergeJournaled, Publishes, Saves
  <2>3. CASE MergeEvaluates(w)
    BY <2>1, <2>3 DEF MergeEvaluates, Saves
  <2>4. CASE ForgeRefuses(w) \/ MergeCleared(w)
    BY <2>1, <2>4 DEF ForgeRefuses, MergeCleared, Saves
  <2> QED
    BY <1>2, <2>2, <2>3, <2>4 DEF Merge
<1>3. CASE Elsewhere
  BY <1>3
     DEF Elsewhere, Settles, HookThrows, PersonAsksToShip, Reply, Abandon, Checks, TargetMoves,
         Crash,
     Boot, Saves, rest
<1>4. CASE UNCHANGED vars
  BY <1>4 DEF vars
<1> QED
  BY <1>1, <1>2, <1>3, <1>4, NextIsThem

\* What they make of the forge, the journal and the budgets.
LEMMA FlagsKept ==
  ASSUME ParametersAreSound, IInv, [Next]_vars PROVE FlagsTyped'
<1>1. MaxCrashes \in Nat /\ MaxTurns \in Nat
  BY DEF ParametersAreSound
<1> USE DEF IInv, Typed, FlagsTyped, forge, rest
<1>2. ASSUME NEW w \in Callers, Ship(w) \/ Merge(w) PROVE FlagsTyped'
  BY <1>2 DEF Ship, ShipBusy, ShipRefused, ShipStarts, PushLands, PushFails, ShipWrites, Merge,
     MergeSkipped, MergeKnown, MergeEvaluates, ForgeMerges, ForgeRefuses, MergeJournaled,
         MergeCleared,
     Publishes
<1>3. CASE (\E s \in Statuses : Settles(s)) \/ HookThrows \/ PersonAsksToShip \/ Abandon \/ Checks
           \/ TargetMoves \/ Boot
  BY <1>3 DEF Settles, HookThrows, PersonAsksToShip, Abandon, Checks, TargetMoves, Boot
<1>4. CASE Reply
  <2>1. behind' \in BOOLEAN
    BY <1>4 DEF Reply
  <2> QED
    BY <1>1, <1>4, <2>1 DEF Reply
<1>5. CASE Crash
  <2>1. turns' \in 0 .. MaxTurns /\ crashes' \in 0 .. MaxCrashes
    BY <1>1, <1>5 DEF Crash
  <2> QED
    BY <1>5, <2>1, Zenon DEF Crash
<1>6. CASE UNCHANGED vars
  BY <1>6 DEF vars
<1> QED
  BY <1>2, <1>3, <1>4, <1>5, <1>6, NextIsThem DEF Elsewhere

\* A process that is down has nobody at work.
LEMMA CallersKept ==
  ASSUME IInv, [Next]_vars PROVE CallersTyped'
<1> USE DEF IInv, Typed, CallersTyped
<1>1. ASSUME NEW w \in Callers, Ship(w) \/ Merge(w) PROVE CallersTyped'
  <2>1. up /\ pc' \in [Callers -> Stages]
    BY <1>1, StepsMove
  <2>2. up' = up
    BY <1>1 DEF Ship, ShipBusy, ShipRefused, ShipStarts, PushLands, PushFails, ShipWrites, Merge,
       MergeSkipped, MergeKnown, MergeEvaluates, ForgeMerges, ForgeRefuses, MergeJournaled,
           MergeCleared,
       Publishes, rest
  <2> QED
    BY <2>1, <2>2
<1>2. CASE Elsewhere
  <2>1. pc' \in [Callers -> Stages]
    BY <1>2, ElsewhereMoves
  <2>2. ~up' => \A w \in Callers : pc'[w] = "idle"
    BY <1>2
       DEF Elsewhere, Settles, HookThrows, PersonAsksToShip, Reply, Abandon, Checks, TargetMoves,
       Crash, Boot, MayGesture, GivesWay, rest, Callers
  <2> QED
    BY <2>1, <2>2
<1>3. CASE UNCHANGED vars
  BY <1>3 DEF vars
<1> QED
  BY <1>1, <1>2, <1>3, NextIsThem

\* One push and one merge at a time, whoever asks.
LEMMA Exclusive ==
  ASSUME IInv, [Next]_vars PROVE OneAtATime' /\ MergedIsFinal'
<1>1. CASE \E w \in Callers : Ship(w) \/ Merge(w)
  <2>1. PICK w \in Callers : Ship(w) \/ Merge(w)
    BY <1>1
  <2>2. /\ \A v \in Callers : v # w => pc'[v] = pc[v]
        /\ NextStage(w) /\ (merged' => merged \/ pc[w] = "answered")
    BY <2>1, StepsMove
  <2>3. Pushing(w)' => Pushing(w) \/ ~shipping
    BY <2>2 DEF NextStage, Pushing
  <2>4. Merging(w)' => Merging(w) \/ ~merging
    BY <2>2 DEF NextStage, Merging
  <2>5. OneAtATime'
    BY <2>2, <2>3, <2>4 DEF IInv, OneAtATime, Pushing, Merging, shipping, merging
  <2>6. pc'[w] = "call" => ~merged /\ pc[w] # "answered"
    BY <2>1, <2>2 DEF NextStage, merging
  <2>7. MergedIsFinal'
    BY <2>2, <2>6 DEF IInv, MergedIsFinal, OneAtATime, Merging
  <2> QED
    BY <2>5, <2>7
<1>2. CASE Elsewhere
  BY <1>2, ElsewhereMoves DEF IInv, OneAtATime, MergedIsFinal, Pushing, Merging
<1>3. CASE UNCHANGED vars
  BY <1>3 DEF vars, IInv, OneAtATime, MergedIsFinal, Pushing, Merging
<1> QED
  BY <1>1, <1>2, <1>3, NextIsThem

\* The delivery starts with nobody in a step.
LEMMA InitHolds == ASSUME ParametersAreSound, Init PROVE IInv
<1>1. MaxCrashes \in Nat /\ MaxTurns \in Nat
  BY DEF ParametersAreSound
<1>2. RecordTyped
  BY DEF Init, RecordTyped, Statuses, Steps
<1>3. FlagsTyped
  <2>1. turns \in 0 .. MaxTurns /\ crashes \in 0 .. MaxCrashes
    BY <1>1 DEF Init
  <2> QED
    BY <2>1, Zenon DEF Init, FlagsTyped
<1>4. CallersTyped /\ OneAtATime /\ MergedIsFinal
  BY DEF Init, CallersTyped, OneAtATime, MergedIsFinal, Pushing, Merging, Stages
<1> QED
  BY <1>2, <1>3, <1>4 DEF IInv, Typed

\* The types, one push and one merge at a time, and a merge that is final.
LEMMA InvHolds == ASSUME ParametersAreSound PROVE Spec => []IInv
<1>1. Init => IInv
  BY InitHolds
<1>2. IInv /\ [Next]_vars => IInv'
  BY RecordKept, FlagsKept, CallersKept, Exclusive DEF IInv, Typed
<1> QED
  BY <1>1, <1>2, PTL DEF Spec

\* A merge in the journal is not asked of the forge again, whatever crashes,
\* throws, or is asked for by whom (runMergeStep's first look, D20).
THEOREM MergesAreFinal == ASSUME ParametersAreSound PROVE Spec => []MergedIsFinal
<1>1. IInv => MergedIsFinal
  BY DEF IInv
<1> QED
  BY <1>1, InvHolds, PTL

\* The types, for any number of turns and crashes.
THEOREM DeliveryTyped == ASSUME ParametersAreSound PROVE Spec => []TypeOK
<1>1. IInv => TypeOK
  BY DEF IInv, Typed, RecordTyped, FlagsTyped, CallersTyped, TypeOK
<1> QED
  BY <1>1, InvHolds, PTL

-----------------------------------------------------------------------------
(***************************************************************************)
(* What a step holds across its await.                                     *)
(***************************************************************************)

\* A push is of a task whose review is over, a merge of a shipped one: so that
\* each kind of step keeps the other off its record.
Owned ==
  \A w \in Callers :
    /\ Pushing(w) => status = copy[w].status /\ status \in {"review_ok", "review_ko"}
    /\ Merging(w) /\ pc[w] # "publish" => status = copy[w].status /\ status = "shipped"

\* A ship keeps nobody else's write under a step.
LEMMA ShipOwns ==
  ASSUME IInv, Owned, NEW w \in Callers, Ship(w) PROVE Owned'
<1>1. /\ pc' \in [Callers -> Stages] /\ NextStage(w)
      /\ \A v \in Callers : v # w => pc'[v] = pc[v]
  BY StepsMove
<1>2. copy \in [Callers -> [status : Statuses, step : Steps]]
  BY DEF IInv, Typed, RecordTyped
<1>3. CASE ShipBusy(w) \/ ShipRefused(w)
  <2>1. status' = status /\ copy' = copy
    BY <1>3 DEF ShipBusy, ShipRefused, Saves
  <2>2. PICK s \in {"idle", "merge"} : At(w, s)
    BY <1>3, AfterShipStages DEF ShipBusy, ShipRefused, IInv, Typed, RecordTyped, Steps
  <2>3. pc'[w] \in {"idle", "merge"}
    BY <2>2, Moves DEF IInv, Typed, CallersTyped, Stages
  <2> QED
    BY <1>1, <2>1, <2>3 DEF Owned, Pushing, Merging
<1>4. CASE ShipStarts(w)
  <2>1. status' = status /\ copy'[w].status = status /\ status \in {"review_ok", "review_ko"}
    BY <1>2, <1>4 DEF ShipStarts, Shippable
  <2>2. \A v \in Callers : v # w => copy'[v] = copy[v]
    BY <1>2, <1>4 DEF ShipStarts
  <2>3. pc'[w] = "push"
    BY <1>4, Moves DEF ShipStarts, IInv, Typed, CallersTyped, Stages
  <2> QED
    BY <1>1, <2>1, <2>2, <2>3 DEF Owned, Pushing, Merging
<1>5. CASE PushLands(w) \/ PushFails(w)
  <2>1. Pushing(w) /\ status' = status /\ copy' = copy
    BY <1>5 DEF Owned, Pushing, PushLands, PushFails, Saves
  <2>2. ~Merging(w)'
    BY <1>1, <1>5, <2>1
       DEF NextStage, Pushing, Merging, IInv, Typed, CallersTyped, shipping, merging,
       PushLands, PushFails, At, AfterShip, Callers, Stages
  <2> QED
    BY <1>1, <2>1, <2>2 DEF Owned, Pushing, Merging
<1>6. CASE ShipWrites(w)
  <2>1. Pushing(w) /\ status \in {"review_ok", "review_ko"} /\ copy' = copy
    BY <1>6 DEF Owned, Pushing, ShipWrites
  <2>2. \A v \in Callers : v # w => ~Pushing(v) /\ (Merging(v) => pc[v] = "publish")
    BY <2>1 DEF IInv, OneAtATime, Owned
  <2>3. ~Pushing(w)' /\ ~Merging(w)'
    BY <1>6, AfterShipStages, Moves
       DEF ShipWrites, Saves, IInv, Typed, CallersTyped, Pushing, Merging,
       Steps, Stages
  <2> QED
    BY <1>1, <2>1, <2>2, <2>3 DEF Owned, Pushing, Merging
<1> QED
  BY <1>3, <1>4, <1>5, <1>6 DEF Ship

\* A merge keeps nobody else's write under a step.
LEMMA MergeOwns ==
  ASSUME IInv, Owned, NEW w \in Callers, Merge(w) PROVE Owned'
<1>1. /\ pc' \in [Callers -> Stages] /\ NextStage(w)
      /\ \A v \in Callers : v # w => pc'[v] = pc[v]
  BY StepsMove
<1>2. copy \in [Callers -> [status : Statuses, step : Steps]]
  BY DEF IInv, Typed, RecordTyped
<1>3. CASE MergeSkipped(w) \/ MergeKnown(w) \/ Publishes(w)
  <2>1. status' = status /\ copy' = copy /\ pc'[w] = "idle"
    BY <1>3, Moves
       DEF MergeSkipped, MergeKnown, Publishes, Saves, IInv, Typed, CallersTyped, Stages
  <2> QED
    BY <1>1, <2>1 DEF Owned, Pushing, Merging
<1>4. CASE MergeEvaluates(w)
  <2>1. /\ ~merging /\ status = "shipped"
        /\ \A v \in Callers : ~Pushing(v) /\ ~Merging(v)
    BY <1>4 DEF MergeEvaluates, Owned, merging, Merging
  <2>2. CASE UNCHANGED copy /\ At(w, "idle")
    <3>1. pc'[w] = "idle"
      BY <2>2, Moves DEF IInv, Typed, CallersTyped, Stages
    <3> QED
      BY <1>1, <2>1, <3>1 DEF Owned, Pushing, Merging
  <2>3. CASE /\ copy' = [copy EXCEPT ![w] = [status |-> status, step |-> cycle_step]]
             /\ At(w, "call") /\ status' = status
    <3>1. pc'[w] = "call" /\ copy'[w].status = status
      BY <1>2, <2>3, Moves DEF IInv, Typed, CallersTyped, Stages
    <3> QED
      BY <1>1, <2>1, <2>3, <3>1 DEF Owned, Pushing, Merging
  <2> QED
    BY <1>4, <2>2, <2>3 DEF MergeEvaluates
<1>5. CASE ForgeMerges(w) \/ MergeJournaled(w) \/ MergeCleared(w)
  <2>1. Merging(w) /\ pc[w] # "publish" /\ status' = status /\ copy' = copy
    BY <1>5 DEF ForgeMerges, MergeJournaled, MergeCleared, Saves, Owned, Merging
  <2>2. pc'[w] \in {"answered", "noted", "publish"}
    BY <1>5, Moves
       DEF ForgeMerges, MergeJournaled, MergeCleared, IInv, Typed, CallersTyped, Stages
  <2> QED
    BY <1>1, <2>1, <2>2 DEF Owned, Pushing, Merging
<1>6. CASE ForgeRefuses(w)
  <2>1. Merging(w) /\ status = "shipped" /\ copy' = copy
    BY <1>6 DEF ForgeRefuses, Owned, Merging
  <2>2. \A v \in Callers : v # w => ~Pushing(v) /\ ~Merging(v)
    BY <2>1 DEF IInv, OneAtATime, Owned
  <2>3. pc'[w] = "idle"
    BY <1>6, Moves DEF ForgeRefuses, IInv, Typed, CallersTyped, Stages
  <2> QED
    BY <1>1, <2>1, <2>2, <2>3 DEF Owned, Pushing, Merging
<1> QED
  BY <1>3, <1>4, <1>5, <1>6 DEF Merge

\* The rest of the system gives way to whoever is in a step.
LEMMA OthersOwn ==
  ASSUME ~Throws, IInv, Owned, Elsewhere PROVE Owned'
<1>1. /\ \A w \in Callers : pc'[w] = pc[w] \/ pc'[w] \in {"idle", "ship", "merge"}
      /\ copy' = copy
  BY ElsewhereMoves
<1>2. status' = status \/ \A w \in Callers : ~Pushing(w)' /\ (Merging(w)' => pc'[w] = "publish")
  <2>1. CASE \E s \in Statuses : Settles(s)
    BY <1>1, <2>1 DEF Settles, Owned, Pushing, Merging
  <2>2. CASE Reply \/ Abandon
    BY <1>1, <2>2 DEF Reply, Abandon, MayGesture, shipping, merging, Pushing, Merging
  <2>3. CASE Crash
    BY <2>3 DEF Crash, Callers, Pushing, Merging
  <2>4. CASE PersonAsksToShip \/ Checks \/ TargetMoves \/ Boot
    BY <2>4 DEF PersonAsksToShip, Checks, TargetMoves, Boot
  <2> QED
    BY <2>1, <2>2, <2>3, <2>4 DEF Elsewhere, HookThrows
<1> QED
  BY <1>1, <1>2 DEF Owned, Pushing, Merging

\* Nobody else writes under a step, unless the hook throws.
LEMMA OwnedHolds == ASSUME ParametersAreSound, ~Throws PROVE Spec => []Owned
<1>1. Init => Owned
  BY DEF Init, Owned, Pushing, Merging, Callers
<1>2. IInv /\ Owned /\ [Next]_vars => Owned'
  BY ShipOwns, MergeOwns, OthersOwn, NextIsThem DEF vars, Owned, Pushing, Merging
<1> QED
  BY <1>1, <1>2, InvHolds, PTL DEF Spec

\* The record a push or a merge holds is still the one on disk when it writes it
\* back: shipping, merging and the turn's claim keep all others off (the `valid
\* by exclusion' of ship, task-server.ts), unless the hook throws.
THEOREM StepsOwn == ASSUME ParametersAreSound, ~Throws PROVE Spec => []StepsOwnTheRecord
<1>1. Owned => StepsOwnTheRecord
  BY DEF Owned, StepsOwnTheRecord, Pushing, Merging
<1> QED
  BY <1>1, OwnedHolds, PTL

-----------------------------------------------------------------------------
(***************************************************************************)
(* What is pushed without being asked for.                                 *)
(***************************************************************************)

\* A marker names the step its record is ready for.
MarkerTells ==
  /\ cycle_step = "ship" => status = "review_ok"
  /\ cycle_step = "merge" => status = "shipped"

\* A hook that is about to ship has settled an approval, which somebody else may
\* have shipped meanwhile; a boot is about to ship what its marker named, and
\* is alone.
Approved ==
  /\ MarkerTells
  /\ pc["hook"] = "ship" => status \notin {"turn", "review_ko"}
  /\ pc["boot"] = "ship" => status = "review_ok" /\ pc["hook"] = "idle" /\ pc["person"] = "idle"
  /\ UnattendedShipsAreApproved

\* What a step makes of the record it owns.
LEMMA StepsWrite ==
  ASSUME IInv, Owned, NEW w \in Callers, Ship(w) \/ Merge(w)
  PROVE  /\ status' \in {status, "shipped", "waiting_for_you"}
         /\ cycle_step' \in {"none", cycle_step} \/ (cycle_step' = "merge" /\ status' = "shipped")
         /\ status' # status => (cycle_step' = "none" \/ status' = "shipped")
         /\ cycle_step' = "ship" => status' = status
<1> USE DEF Owned, Pushing, Merging
<1>1. CASE Ship(w)
  BY <1>1 DEF Ship, ShipBusy, ShipRefused, ShipStarts, PushLands, PushFails, ShipWrites, Saves
<1>2. CASE Merge(w)
  BY <1>2
     DEF Merge, MergeSkipped, MergeKnown, MergeEvaluates, ForgeMerges, ForgeRefuses,
         MergeJournaled,
     MergeCleared, Publishes, Saves
<1> QED
  BY <1>1, <1>2

\* A ship and a merge keep markers that tell the truth.
LEMMA StepsApprove ==
  ASSUME IInv, Owned, Approved, NEW w \in Callers, Ship(w) \/ Merge(w) PROVE Approved'
<1>1. /\ pc' \in [Callers -> Stages] /\ NextStage(w)
      /\ \A v \in Callers : v # w => pc'[v] = pc[v]
  BY StepsMove
<1>2. MarkerTells'
  BY StepsWrite DEF Approved, MarkerTells
<1>3. pc[w] # "idle" /\ pc'[w] # "ship"
  <2>1. pc[w] # "idle"
    BY
       DEF Ship, ShipBusy, ShipRefused, ShipStarts, PushLands, PushFails, ShipWrites, Merge,
           MergeSkipped,
       MergeKnown, MergeEvaluates, ForgeMerges, ForgeRefuses, MergeJournaled, MergeCleared,
           Publishes
  <2>2. cycle_step' \in Steps
    BY StepsWrite DEF IInv, Typed, RecordTyped, Steps
  <2>3. \E s \in Stages : s # "ship" /\ At(w, s)
    <3>1. CASE Ship(w)
      BY <2>2, <3>1, AfterShipStages
         DEF Ship, ShipBusy, ShipRefused, ShipStarts, PushLands, PushFails,
         ShipWrites, IInv, Typed, RecordTyped, Steps, Stages
    <3>2. CASE Merge(w)
      BY <3>2 DEF Merge, MergeSkipped, MergeKnown, MergeEvaluates, ForgeMerges, ForgeRefuses,
         MergeJournaled, MergeCleared, Publishes, Stages
    <3> QED
      BY <3>1, <3>2
  <2> QED
    BY <2>1, <2>3, Moves DEF IInv, Typed, CallersTyped
<1>4. /\ pc'["hook"] = "ship" => status' \notin {"turn", "review_ko"}
      /\ pc'["boot"] = "ship" => status' = "review_ok" /\ pc'["hook"] = "idle"
         /\ pc'["person"] = "idle"
  BY <1>1, <1>3, StepsWrite DEF Approved, Callers
<1>5. UnattendedShipsAreApproved'
  <2>1. CASE ShipStarts(w)
    <3>1. copy'[w].status = status /\ status \in {"review_ok", "review_ko"} /\ pc[w] = "ship"
      BY <2>1 DEF ShipStarts, Shippable, IInv, Typed, RecordTyped
    <3>2. \A v \in Callers : v # w => copy'[v] = copy[v]
      BY <2>1 DEF ShipStarts, IInv, Typed, RecordTyped
    <3> QED
      BY <1>1, <3>1, <3>2 DEF Approved, UnattendedShipsAreApproved, Callers
  <2>2. CASE MergeEvaluates(w)
    <3>1. pc'[w] \notin {"push", "pushed"}
      BY <1>1, <2>2, Moves DEF MergeEvaluates, IInv, Typed, CallersTyped, Stages
    <3>2. \A v \in Callers : v # w => copy'[v] = copy[v]
      BY <2>2 DEF MergeEvaluates, IInv, Typed, RecordTyped
    <3> QED
      BY <1>1, <3>1, <3>2 DEF Approved, UnattendedShipsAreApproved, Callers
  <2>3. CASE ~ShipStarts(w) /\ ~MergeEvaluates(w)
    <3>1. copy' = copy
      BY <2>3
         DEF Ship, ShipBusy, ShipRefused, PushLands, PushFails, ShipWrites, Merge, MergeSkipped,
         MergeKnown, ForgeMerges, ForgeRefuses, MergeJournaled, MergeCleared, Publishes
    <3>2. pc'[w] # "push"
      <4>1. cycle_step' \in Steps
        BY StepsWrite DEF IInv, Typed, RecordTyped, Steps
      <4>2. \E s \in Stages : s # "push" /\ At(w, s)
        BY <2>3, <4>1, AfterShipStages DEF Ship, ShipBusy, ShipRefused, PushLands, PushFails,
           ShipWrites, Merge, MergeSkipped, MergeKnown, ForgeMerges, ForgeRefuses, MergeJournaled,
           MergeCleared, Publishes, IInv, Typed, RecordTyped, Steps, Stages
      <4> QED
        BY <4>2, Moves DEF IInv, Typed, CallersTyped
    <3> QED
      BY <1>1, <3>1, <3>2 DEF Approved, UnattendedShipsAreApproved, Callers, NextStage
  <2> QED
    BY <2>1, <2>2, <2>3
<1> QED
  BY <1>2, <1>4, <1>5 DEF Approved

\* So does the rest of the system.
LEMMA OthersApprove ==
  ASSUME ~Throws, ~Others, IInv, Approved, Elsewhere PROVE Approved'
<1>1. /\ \A w \in Callers : pc'[w] = pc[w] \/ pc'[w] \in {"idle", "ship", "merge"}
      /\ copy' = copy /\ pc' \in [Callers -> Stages]
  BY ElsewhereMoves
<1>2. UnattendedShipsAreApproved'
  BY <1>1 DEF Approved, UnattendedShipsAreApproved, Callers
<1> USE DEF Approved, MarkerTells, Callers, IInv, Typed, CallersTyped
<1>3. CASE \E s \in Statuses : Settles(s)
  <2>1. PICK s \in Statuses : Settles(s)
    BY <1>3
  <2>2. status = "turn" /\ cycle_step \notin {"ship", "merge"} /\ pc["boot"] # "ship"
    BY <2>1 DEF Settles
  <2>3. pc'["boot"] = pc["boot"]
    BY <2>1, Moves DEF Settles, Stages
  <2>4. CASE opts.auto_ship /\ s = "review_ok"
    BY <1>2, <2>1, <2>2, <2>3, <2>4 DEF Settles, Saves
  <2>5. CASE ~(opts.auto_ship /\ s = "review_ok")
    <3>1. pc'["hook"] = "idle" /\ status' = s /\ cycle_step' = cycle_step
      BY <2>1, <2>5 DEF Settles, Saves, At
    <3> QED
      BY <1>2, <2>2, <2>3, <3>1
  <2> QED
    BY <2>4, <2>5
<1>4. CASE PersonAsksToShip
  <2>1. pc["boot"] # "ship" /\ pc'["boot"] = pc["boot"] /\ pc'["hook"] = pc["hook"]
    BY <1>4, Moves DEF PersonAsksToShip, GivesWay, Stages
  <2> QED
    BY <1>2, <1>4, <2>1 DEF PersonAsksToShip
<1>5. CASE Reply \/ Abandon
  <2>1. pc["boot"] # "ship" /\ pc["hook"] = "idle" /\ pc' = pc /\ cycle_step' = "none"
    BY <1>5 DEF Reply, Abandon, MayGesture, GivesWay, Saves
  <2> QED
    BY <1>2, <2>1
<1>6. CASE Checks \/ TargetMoves
  BY <1>2, <1>6 DEF Checks, TargetMoves
<1>7. CASE Crash
  BY <1>2, <1>7 DEF Crash
<1>8. CASE Boot
  <2>1. UNCHANGED <<status, cycle_step>> /\ \A w \in Callers : pc[w] = "idle"
    BY <1>8 DEF Boot
  <2>2. pc'["boot"] = "ship" => cycle_step = "ship"
    BY <1>8 DEF Boot, At
  <2>3. pc'["hook"] = "idle" /\ pc'["person"] = "idle"
    BY <1>8, <2>1 DEF Boot, At
  <2> QED
    BY <1>2, <2>1, <2>2, <2>3
<1> QED
  BY <1>3, <1>4, <1>5, <1>6, <1>7, <1>8 DEF Elsewhere, HookThrows

\* The markers tell the truth to the boot.
LEMMA ApprovedHolds == ASSUME ParametersAreSound, ~Throws, ~Others PROVE Spec => []Approved
<1>1. Init => Approved
  BY DEF Init, Approved, MarkerTells, UnattendedShipsAreApproved, Callers
<1>2. IInv /\ Owned /\ Approved /\ [Next]_vars => Approved'
  BY StepsApprove, OthersApprove, NextIsThem
     DEF vars, Approved, MarkerTells, UnattendedShipsAreApproved
<1> QED
  BY <1>1, <1>2, InvHolds, OwnedHolds, PTL DEF Spec

\* The delivery is sound: the types hold, the merge is final, steps own their
\* records unless the hook throws, and nothing but approved work is pushed
\* unattended unless the hook throws or the boot has other tasks to resume first.
THEOREM DeliveryHolds == ASSUME ParametersAreSound PROVE Spec => []DeliveryIsSound
<1>1. CASE Throws
  <2>1. TypeOK /\ MergedIsFinal => DeliveryIsSound
    BY <1>1 DEF DeliveryIsSound
  <2> QED
    BY <2>1, DeliveryTyped, MergesAreFinal, PTL
<1>2. CASE ~Throws /\ Others
  <2>1. TypeOK /\ MergedIsFinal /\ StepsOwnTheRecord => DeliveryIsSound
    BY <1>2 DEF DeliveryIsSound
  <2>2. Spec => []MergedIsFinal
    BY MergesAreFinal
  <2>3. Spec => []StepsOwnTheRecord
    BY <1>2, StepsOwn
  <2> QED
    BY <2>1, <2>2, <2>3, DeliveryTyped, PTL
<1>3. CASE ~Throws /\ ~Others
  <2>1. TypeOK /\ MergedIsFinal /\ StepsOwnTheRecord /\ Approved => DeliveryIsSound
    BY DEF DeliveryIsSound, Approved
  <2>2. Spec => []MergedIsFinal
    BY MergesAreFinal
  <2>3. Spec => []StepsOwnTheRecord
    BY <1>3, StepsOwn
  <2>4. Spec => []Approved
    BY <1>3, ApprovedHolds
  <2> QED
    BY <2>1, <2>2, <2>3, <2>4, DeliveryTyped, PTL
<1> QED
  BY <1>1, <1>2, <1>3

-----------------------------------------------------------------------------
(***************************************************************************)
(* The boards.                                                             *)
(***************************************************************************)

\* A board whose stream may be cut and whose task may be purged: every open board
\* takes only steps of this one.
AnyBoard == INSTANCE Board WITH
  MaxTurn <- BoardTurns + PurgedTurns, MaxSaid <- BoardSaid + CutSaid,
  PipeBound <- BoardPipe, Opened <- TRUE, Drops <- TRUE, Purges <- TRUE,
  record <- boardRecord

Gone == [status |-> "absent", turn |-> 0]
TaskRecords == [status : {"waiting", "running"}, turn : Nat]
JournalEvents == [seq : Nat]
Texts == [turn : Nat, seq : Nat]
Frames ==
  [kind : {"task"}, what : TaskRecords]
    \cup [kind : {"task_event"}, what : Nat]
    \cup [kind : {"task_text"}, what : Texts]

\* In the order of their numbers, and none twice.
Ascending(s) == \A i, j \in DOMAIN s : i < j => s[i].seq < s[j].seq

-----------------------------------------------------------------------------

\* m is s with x in its place.
IsMerge(m, s, x, E) ==
  /\ m \in Seq(E) /\ Ascending(m)
  /\ \A i \in DOMAIN m : m[i] = x \/ \E j \in DOMAIN s : m[i] = s[j]
  /\ \E i \in DOMAIN m : m[i] = x
  /\ \A j \in DOMAIN s : s[j].seq = x.seq \/ \E i \in DOMAIN m : m[i] = s[j]

\* mergeEvent and mergeLiveMessage: the list stays in its order, has the new entry,
\* and of the others loses at most the one of the same number.
LEMMA MergeKeepsOrder ==
  ASSUME NEW E, \A e \in E : e.seq \in Nat, NEW s \in Seq(E), Ascending(s), NEW x \in E
  PROVE  IsMerge(AnyBoard!MergeBySeq(s, x), s, x, E)
<1> DEFINE m == AnyBoard!MergeBySeq(s, x)
           n == Len(s)
           Seq1(i) == s[i].seq
<1>0. n \in Nat /\ DOMAIN s = 1 .. n /\ \A i \in 1 .. n : s[i] \in E /\ s[i].seq \in Nat
  OBVIOUS
<1>1. x.seq \in Nat
  OBVIOUS
<1>4. \A i, j \in 1 .. n : i < j => s[i].seq < s[j].seq
  <2> HIDE DEF n
  <2> QED
    BY <1>0 DEF Ascending
<1>2. CASE s = <<>> \/ x.seq > s[Len(s)].seq
  <2>1. m = Append(s, x)
    BY <1>2 DEF AnyBoard!MergeBySeq
  <2>2. /\ m \in Seq(E) /\ Len(m) = n + 1 /\ DOMAIN m = 1 .. (n + 1) /\ m[n + 1] = x
        /\ \A i \in 1 .. n : m[i] = s[i]
    <3> HIDE DEF m, IsMerge
    <3> QED
      BY <1>0, <2>1
  <2>3. \A i \in 1 .. n : s[i].seq < x.seq
    <3> SUFFICES ASSUME NEW i \in 1 .. n PROVE s[i].seq < x.seq
      OBVIOUS
    <3> HIDE DEF m, IsMerge
    <3>1. n \in 1 .. n /\ s # <<>>
      BY <1>0
    <3>2. i = n \/ s[i].seq < s[n].seq
      <4> HIDE DEF n
      <4>1. i = n \/ i < n
        BY <1>0
      <4> QED
        BY <1>4, <3>1, <4>1
    <3>3. x.seq > s[n].seq
      BY <1>2, <3>1
    <3> HIDE DEF n
    <3> QED
      BY <1>0, <1>1, <3>1, <3>2, <3>3
  <2> HIDE DEF m, IsMerge
  <2>4. Ascending(m)
    <3> SUFFICES ASSUME NEW i \in 1 .. (n + 1), NEW j \in 1 .. (n + 1), i < j
                 PROVE  m[i].seq < m[j].seq
      BY <2>2 DEF Ascending
    <3>1. CASE j = n + 1
      BY <1>0, <2>2, <2>3, <3>1
    <3>2. CASE j # n + 1
      <4>1. i \in 1 .. n /\ j \in 1 .. n
        BY <1>0, <3>2
      <4> QED
        BY <1>0, <2>2, <4>1 DEF Ascending
    <3> QED
      BY <3>1, <3>2
  <2>5. \A i \in DOMAIN m : m[i] = x \/ \E j \in DOMAIN s : m[i] = s[j]
    BY <1>0, <2>2
  <2>6. \A j \in DOMAIN s : \E i \in DOMAIN m : m[i] = s[j]
    BY <1>0, <2>2
  <2>7. \E i \in DOMAIN m : m[i] = x
    BY <1>0, <2>2
  <2> QED
    BY <2>2, <2>4, <2>5, <2>6, <2>7 DEF m, IsMerge
<1>3. CASE ~ (s = <<>> \/ x.seq > s[Len(s)].seq)
  <2> DEFINE Fits(i) == s[i].seq >= x.seq /\ \A j \in 1 .. (i - 1) : s[j].seq < x.seq
             at == CHOOSE i \in 1 .. Len(s) : Fits(i)
             Late == {i \in 1 .. n : s[i].seq >= x.seq}
  <2>1. n \in Late
    <3>1. n \in 1 .. n
      BY <1>0, <1>3
    <3> QED
      BY <1>0, <1>1, <1>3, <3>1
  <2>2. PICK k \in Late : \A i \in Late : k <= i
    <3>1. Late \in SUBSET Nat
      BY <1>0
    <3> HIDE DEF Late
    <3> QED
      BY <2>1, <3>1, LeastOfNats
  <2>3. Fits(k)
    <3> SUFFICES ASSUME NEW j \in 1 .. (k - 1) PROVE s[j].seq < x.seq
      OBVIOUS
    <3>1. j \in 1 .. n /\ ~ (k <= j)
      BY <1>0
    <3>2. j \notin Late
      <4> HIDE DEF Late
      <4> QED
        BY <2>2, <3>1
    <3> QED
      BY <1>0, <1>1, <3>1, <3>2
  <2>4. at \in 1 .. n /\ Fits(at)
    <3> HIDE DEF Fits
    <3> QED
      BY <2>3
  <2>5. m = IF s[at].seq = x.seq THEN [s EXCEPT ![at] = x] ELSE AnyBoard!InsertAt(s, at, x)
    BY <1>3 DEF AnyBoard!MergeBySeq
  <2> HIDE DEF at
  <2>6. \A j \in 1 .. n : j < at => s[j].seq < x.seq
    BY <1>0, <2>4
  <2>7. \A j \in 1 .. n : at < j => s[at].seq < s[j].seq
    BY <1>0, <2>4 DEF Ascending
  <2> HIDE DEF m, IsMerge
  <2>8. CASE s[at].seq = x.seq
    <3>1. /\ m \in Seq(E) /\ DOMAIN m = 1 .. n /\ m[at] = x
          /\ \A i \in 1 .. n : i # at => m[i] = s[i]
      BY <1>0, <2>4, <2>5, <2>8
    <3>2. \A i \in 1 .. n : m[i].seq = s[i].seq
      BY <2>8, <3>1
    <3>3. Ascending(m)
      BY <1>0, <3>1, <3>2 DEF Ascending
    <3>4. \A i \in DOMAIN m : m[i] = x \/ \E j \in DOMAIN s : m[i] = s[j]
      BY <1>0, <3>1
    <3>5. \A j \in DOMAIN s : s[j].seq = x.seq \/ \E i \in DOMAIN m : m[i] = s[j]
      BY <1>0, <2>8, <3>1
    <3>6. \E i \in DOMAIN m : m[i] = x
      BY <2>4, <3>1
    <3> QED
      BY <3>1, <3>3, <3>4, <3>5, <3>6 DEF m, IsMerge
  <2>9. CASE s[at].seq # x.seq
    <3>1. m = SubSeq(s, 1, at - 1) \o <<x>> \o SubSeq(s, at, Len(s))
      BY <2>5, <2>9 DEF AnyBoard!InsertAt
    <3> DEFINE a == SubSeq(s, 1, at - 1)
               b == SubSeq(s, at, n)
    <3>2. a \in Seq(E) /\ Len(a) = at - 1 /\ \A i \in 1 .. (at - 1) : a[i] = s[i]
      BY <1>0, <2>4
    <3>3. b \in Seq(E) /\ Len(b) = n - at + 1 /\ \A i \in 1 .. (n - at + 1) : b[i] = s[at + i - 1]
      BY <1>0, <2>4
    <3> HIDE DEF a, b
    <3> DEFINE c == a \o <<x>>
    <3>4. c \in Seq(E) /\ Len(c) = at /\ c[at] = x /\ \A i \in 1 .. (at - 1) : c[i] = s[i]
      <4>1. c = Append(a, x) /\ Len(a) + 1 = at
        BY <1>0, <2>4, <3>2
      <4> HIDE DEF c
      <4>2. /\ c \in Seq(E) /\ Len(c) = Len(a) + 1 /\ c[Len(a) + 1] = x
            /\ \A i \in 1 .. Len(a) : c[i] = a[i]
        BY <3>2, <4>1
      <4>3. c \in Seq(E) /\ Len(c) = at /\ c[at] = x
        BY <4>1, <4>2
      <4>4. \A i \in 1 .. (at - 1) : c[i] = s[i]
        BY <3>2, <4>2
      <4> QED
        BY <4>3, <4>4
    <3>5. m = c \o b
      BY <3>1 DEF a, b
    <3> HIDE DEF c
    <3>6. m \in Seq(E) /\ Len(m) = n + 1 /\ DOMAIN m = 1 .. (n + 1)
      <4>1. m \in Seq(E) /\ Len(m) = Len(c) + Len(b)
        BY <3>3, <3>4, <3>5, ConcatProperties
      <4>2. Len(c) + Len(b) = n + 1
        BY <1>0, <2>4, <3>3, <3>4
      <4> QED
        BY <1>0, <4>1, <4>2
    <3>7. /\ \A i \in 1 .. (n + 1) : i < at => m[i] = s[i]
          /\ m[at] = x
          /\ \A i \in 1 .. (n + 1) : i > at => m[i] = s[i - 1]
      <4>1. \A i \in 1 .. at : m[i] = c[i]
        BY <1>0, <2>4, <3>3, <3>4, <3>5
      <4>2. ASSUME NEW i \in 1 .. (n + 1), i > at PROVE m[i] = s[i - 1]
        <5>1. i - at \in 1 .. (n - at + 1) /\ at + (i - at) - 1 = i - 1
          BY <1>0, <2>4, <4>2
        <5>2. m[i] = b[i - at]
          BY <1>0, <2>4, <3>3, <3>4, <3>5, <4>2
        <5> QED
          BY <3>3, <5>1, <5>2
      <4>3. at \in 1 .. at /\ \A i \in 1 .. (n + 1) : i < at => i \in 1 .. at /\ i \in 1 .. (at - 1)
        BY <1>0, <2>4
      <4>4. m[at] = x
        BY <3>4, <4>1, <4>3
      <4>5. ASSUME NEW i \in 1 .. (n + 1), i < at PROVE m[i] = s[i]
        BY <3>4, <4>1, <4>3, <4>5
      <4> QED
        BY <4>2, <4>4, <4>5
    <3>8. x.seq < s[at].seq
      BY <1>0, <1>1, <2>4, <2>9
    <3>9. Ascending(m)
      <4> SUFFICES ASSUME NEW i \in 1 .. (n + 1), NEW j \in 1 .. (n + 1), i < j
                   PROVE  m[i].seq < m[j].seq
        BY <3>6 DEF Ascending
      <4>1. CASE j < at
        <5>1. i \in 1 .. n /\ j \in 1 .. n /\ i < at
          BY <1>0, <2>4, <4>1
        <5> QED
          BY <1>0, <3>7, <4>1, <5>1 DEF Ascending
      <4>2. CASE j = at
        <5>1. i \in 1 .. n /\ i < at
          BY <1>0, <2>4, <4>2
        <5> QED
          BY <2>6, <3>7, <4>2, <5>1
      <4>3. CASE j > at
        <5>1. j - 1 \in 1 .. n /\ at \in 1 .. n /\ at <= j - 1 /\ m[j] = s[j - 1]
          BY <1>0, <2>4, <3>7, <4>3
        <5>2. s[at].seq <= s[j - 1].seq
          BY <1>0, <2>7, <5>1
        <5>3. CASE i < at
          <6>1. i \in 1 .. n /\ m[i] = s[i] /\ s[i].seq < x.seq
            BY <1>0, <2>4, <2>6, <3>7, <5>3
          <6> QED
            BY <1>0, <1>1, <3>8, <5>1, <5>2, <6>1
        <5>4. CASE i = at
          BY <1>0, <1>1, <3>7, <3>8, <5>1, <5>2, <5>4
        <5>5. CASE i > at
          <6>1. i - 1 \in 1 .. n /\ m[i] = s[i - 1] /\ i - 1 < j - 1
            BY <1>0, <2>4, <3>7, <5>5
          <6> QED
            BY <1>0, <5>1, <6>1 DEF Ascending
        <5> QED
          BY <1>0, <2>4, <5>3, <5>4, <5>5
      <4> QED
        BY <1>0, <2>4, <4>1, <4>2, <4>3
    <3>10. \A i \in DOMAIN m : m[i] = x \/ \E j \in DOMAIN s : m[i] = s[j]
      <4> TAKE i \in DOMAIN m
      <4>1. CASE i < at
        BY <1>0, <2>4, <3>6, <3>7, <4>1
      <4>2. CASE i = at
        BY <3>7, <4>2
      <4>3. CASE i > at
        <5>1. i - 1 \in 1 .. n /\ m[i] = s[i - 1]
          BY <1>0, <2>4, <3>6, <3>7, <4>3
        <5> QED
          BY <1>0, <5>1
      <4> QED
        BY <1>0, <2>4, <3>6, <4>1, <4>2, <4>3
    <3>11. \A j \in DOMAIN s : \E i \in DOMAIN m : m[i] = s[j]
      <4> TAKE j \in DOMAIN s
      <4>1. CASE j < at
        BY <1>0, <2>4, <3>6, <3>7, <4>1
      <4>2. CASE j >= at
        <5>1. j + 1 \in 1 .. (n + 1) /\ j + 1 > at /\ (j + 1) - 1 = j
          BY <1>0, <2>4, <4>2
        <5> QED
          BY <3>6, <3>7, <5>1
      <4> QED
        BY <1>0, <2>4, <4>1, <4>2
    <3>12. \E i \in DOMAIN m : m[i] = x
      BY <1>0, <2>4, <3>6, <3>7
    <3> QED
      BY <3>6, <3>9, <3>10, <3>11, <3>12 DEF m, IsMerge
  <2> QED
    BY <2>8, <2>9
<1> QED
  BY <1>2, <1>3

\* The numbers that a list has.
Seqs(s) == {s[i].seq : i \in DOMAIN s}

\* So a merged list has the numbers it had and that of the entry.
LEMMA MergeAddsOne ==
  ASSUME NEW E, \A e \in E : e.seq \in Nat, NEW s \in Seq(E), Ascending(s), NEW x \in E
  PROVE  Seqs(AnyBoard!MergeBySeq(s, x)) = Seqs(s) \cup {x.seq}
<1> DEFINE m == AnyBoard!MergeBySeq(s, x)
<1>1. IsMerge(m, s, x, E)
  BY MergeKeepsOrder
<1> HIDE DEF m
<1>2. Seqs(m) \subseteq Seqs(s) \cup {x.seq}
  BY <1>1 DEF Seqs, IsMerge
<1>3. Seqs(s) \subseteq Seqs(m)
  BY <1>1 DEF Seqs, IsMerge
<1>4. x.seq \in Seqs(m)
  BY <1>1 DEF Seqs, IsMerge
<1>5. Seqs(m) = Seqs(s) \cup {x.seq}
  BY <1>2, <1>3, <1>4
<1> QED
  BY <1>5 DEF m

\* hydrateStore: the answer's journal is merged event by event; what comes of it is
\* in order, and is what was there and the whole of that journal.
LEMMA HydrateKeepsOrder ==
  ASSUME NEW n \in Nat, NEW s \in Seq(JournalEvents), Ascending(s)
  PROVE  LET h == AnyBoard!FoldLeft(AnyBoard!MergeBySeq, s, [i \in 1 .. n |-> [seq |-> i]])
         IN  h \in Seq(JournalEvents) /\ Ascending(h) /\ Seqs(h) = Seqs(s) \cup 1 .. n
<1> DEFINE e == [i \in 1 .. n |-> [seq |-> i]]
           X == {q \in Seq(JournalEvents) : Ascending(q)}
           Op(q, i) == AnyBoard!MergeBySeq(q, e[i])
           G == [p \in X \X (1 .. n) |-> Op(p[1], p[2])]
           Right(iter) == iter = [T \in SUBSET (1 .. n) |->
                                    IF T = {} THEN s ELSE Op(iter[T \ {Max(T)}], Max(T))]
           folded == CHOOSE iter : Right(iter)
           h == AnyBoard!FoldLeft(AnyBoard!MergeBySeq, s, e)
<1>0. DOMAIN e = 1 .. n /\ \A i \in 1 .. n : e[i] \in JournalEvents /\ e[i].seq = i
  BY DEF JournalEvents
<1>1. h = folded[1 .. n]
  <2>1. h = (CHOOSE iter : iter = [T \in SUBSET (DOMAIN e) |->
                             IF T = {} THEN s ELSE Op(iter[T \ {Max(T)}], Max(T))])[DOMAIN e]
    <3> HIDE DEF e
    <3> QED
      BY DEF AnyBoard!FoldLeft, AnyBoard!MapThenFoldSet, AnyBoard!Max, Max
  <2> HIDE DEF e
  <2> QED
    BY <1>0, <2>1
<1> HIDE DEF e
<1>2. ASSUME NEW q \in X, NEW i \in 1 .. n
      PROVE  Op(q, i) \in X /\ Seqs(Op(q, i)) = Seqs(q) \cup {i}
  <2>1. \A c \in JournalEvents : c.seq \in Nat
    BY DEF JournalEvents
  <2>2. q \in Seq(JournalEvents) /\ Ascending(q) /\ e[i] \in JournalEvents /\ e[i].seq = i
    BY <1>0
  <2>3. Op(q, i) \in Seq(JournalEvents) /\ Ascending(Op(q, i))
    BY <2>1, <2>2, MergeKeepsOrder DEF IsMerge
  <2>4. Seqs(Op(q, i)) = Seqs(q) \cup {i}
    BY <2>1, <2>2, MergeAddsOne
  <2> QED
    BY <2>3, <2>4
<1> HIDE DEF Op
<1>3. s \in X
  OBVIOUS
<1>4. G \in [X \X (1 .. n) -> X] /\ \A q \in X, i \in 1 .. n : G[<<q, i>>] = Op(q, i)
  <2> HIDE DEF X
  <2> QED
    BY <1>2
<1> HIDE DEF G, X
<1>5. PICK f \in [SUBSET (1 .. n) -> X] :
        \A T \in SUBSET (1 .. n) : f[T] = IF T = {} THEN s ELSE G[<<f[T \ {Max(T)}], Max(T)>>]
  <2>1. n \in Nat /\ s \in X /\ G \in [X \X (1 .. n) -> X]
    BY <1>3, <1>4
  <2>2. PICK f : IsFold(f, n, X, s, G)
    BY <2>1, FoldExists
  <2> QED
    BY <2>2 DEF IsFold
<1>6. ASSUME NEW T \in SUBSET (1 .. n), T # {}
      PROVE  T \ {Max(T)} \in SUBSET (1 .. n) /\ Max(T) \in 1 .. n
  BY <1>6, MaxIs
<1>7. Right(f)
  <2>1. ASSUME NEW T \in SUBSET (1 .. n)
        PROVE  f[T] = IF T = {} THEN s ELSE Op(f[T \ {Max(T)}], Max(T))
    BY <1>4, <1>5, <1>6
  <2> QED
    BY <2>1
<1>8. Right(folded)
  <2> HIDE DEF Right
  <2> QED
    BY <1>7
<1> HIDE DEF folded
<1> DEFINE Good(k) == folded[1 .. k] \in X /\ Seqs(folded[1 .. k]) = Seqs(s) \cup 1 .. k
           S == {k \in 0 .. n : Good(k)}
<1>9. 0 \in S
  <2>1. 1 .. 0 = {} /\ {} \in SUBSET (1 .. n)
    OBVIOUS
  <2>2. folded[{}] = s
    BY <1>8, <2>1
  <2>3. Good(0)
    BY <1>3, <2>1, <2>2
  <2> HIDE DEF Good
  <2> QED
    BY <2>3
<1>10. ASSUME NEW k \in 0 .. n, k \in S, k < n PROVE k + 1 \in S
  <2>1. Good(k)
    <3> HIDE DEF Good
    <3> QED
      BY <1>10
  <2>2. /\ k + 1 \in 1 .. n /\ k + 1 \in 0 .. n /\ 1 .. (k + 1) \in SUBSET (1 .. n)
        /\ 1 .. (k + 1) # {} /\ Max(1 .. (k + 1)) = k + 1 /\ (1 .. (k + 1)) \ {k + 1} = 1 .. k
    <3>1. k + 1 \in Nat \ {0} /\ (k + 1) - 1 = k
      OBVIOUS
    <3>2. Max(1 .. (k + 1)) = k + 1 /\ (1 .. (k + 1)) \ {k + 1} = 1 .. ((k + 1) - 1)
      BY <3>1, MaxOfSegment
    <3> QED
      BY <1>10, <3>1, <3>2
  <2>3. folded[1 .. (k + 1)] = Op(folded[1 .. k], k + 1)
    BY <1>8, <2>2
  <2>4. Op(folded[1 .. k], k + 1) \in X
        /\ Seqs(Op(folded[1 .. k], k + 1)) = Seqs(folded[1 .. k]) \cup {k + 1}
    BY <1>2, <2>1, <2>2
  <2>5. (1 .. k) \cup {k + 1} = 1 .. (k + 1)
    OBVIOUS
  <2>6. Good(k + 1)
    BY <2>1, <2>3, <2>4, <2>5
  <2> HIDE DEF Good
  <2> QED
    BY <2>2, <2>6
<1>11. Good(n)
  <2>1. 0 .. n \subseteq S
    <3> HIDE DEF S
    <3> QED
      BY <1>9, <1>10, Climb
  <2> HIDE DEF Good
  <2> QED
    BY <2>1
<1>12. h \in X /\ Seqs(h) = Seqs(s) \cup 1 .. n
  <2> HIDE DEF h
  <2> QED
    BY <1>1, <1>11
<1>13. h \in Seq(JournalEvents) /\ Ascending(h)
  <2> HIDE DEF h
  <2> QED
    BY <1>12 DEF X
<1> QED
  BY <1>12, <1>13 DEF e, h

-----------------------------------------------------------------------------
(***************************************************************************)
(* What every board keeps.                                                 *)
(***************************************************************************)

BoardTyped ==
  /\ journal \in Nat /\ said \in Nat /\ link \in BOOLEAN
  /\ boardRecord \in TaskRecords \cup {Gone} /\ seen \in TaskRecords \cup {Gone}
  /\ pipe \in Seq(Frames) /\ answers \in SUBSET [record : TaskRecords, journal : Nat]
  /\ events \in Seq(JournalEvents) /\ bubbles \in Seq(Texts)

\* The journal and the record go together: event 2n-1 starts turn n, event 2n is
\* its reply.
JournalFollows ==
  /\ boardRecord.status = "waiting" => journal = 2 * boardRecord.turn
  /\ boardRecord.status = "running" =>
       /\ boardRecord.turn >= 1
       /\ journal \in {2 * boardRecord.turn - 2, 2 * boardRecord.turn - 1,
                       2 * boardRecord.turn}

\* Nothing that is on its way or on the screen is ahead of the journal.
NothingAhead ==
  /\ \A i \in DOMAIN pipe : pipe[i].kind = "task_event" => pipe[i].what \in 1 .. journal
  /\ \A a \in answers : a.journal <= journal
  /\ Seqs(events) \subseteq 1 .. journal

BoardInv ==
  /\ BoardTyped /\ JournalFollows /\ NothingAhead
  /\ Ascending(events) /\ Ascending(bubbles) /\ (~ link => pipe = <<>>)

\* A frame is sent: it is the last one, if the stream is up.
LEMMA Emitted ==
  ASSUME NEW F, NEW p \in Seq(F), NEW f \in F, NEW q, NEW on \in BOOLEAN,
         q = IF on THEN Append(p, f) ELSE p
  PROVE  /\ q \in Seq(F) /\ DOMAIN p \subseteq DOMAIN q
         /\ \A i \in DOMAIN p : q[i] = p[i]
         /\ \A i \in DOMAIN q : i \in DOMAIN p \/ (on /\ q[i] = f /\ \A j \in DOMAIN p : j < i)
         /\ on => Len(p) + 1 \in DOMAIN q /\ q[Len(p) + 1] = f
         /\ on => Len(q) = Len(p) + 1
         /\ ~ on => q = p
<1>1. CASE on
  <2>1. /\ q \in Seq(F) /\ Len(q) = Len(p) + 1 /\ DOMAIN q = 1 .. (Len(p) + 1)
        /\ q[Len(p) + 1] = f /\ \A i \in 1 .. Len(p) : q[i] = p[i]
    BY <1>1
  <2>2. DOMAIN p = 1 .. Len(p) /\ Len(p) \in Nat
    OBVIOUS
  <2> QED
    BY <1>1, <2>1, <2>2
<1>2. CASE ~ on
  BY <1>2
<1> QED
  BY <1>1, <1>2

\* A frame is taken: the others move up.
LEMMA Taken ==
  ASSUME NEW F, NEW p \in Seq(F), p # <<>>, NEW q, q = Tail(p)
  PROVE  /\ q \in Seq(F) /\ Len(q) = Len(p) - 1
         /\ 1 \in DOMAIN p /\ Head(p) = p[1] /\ Head(p) \in F
         /\ \A i \in DOMAIN q : i + 1 \in DOMAIN p /\ q[i] = p[i + 1]
         /\ \A i \in DOMAIN p : i = 1 \/ (i - 1 \in DOMAIN q /\ q[i - 1] = p[i])
<1>1. DOMAIN p = 1 .. Len(p) /\ Len(p) \in Nat \ {0}
  OBVIOUS
<1>2. /\ q \in Seq(F) /\ Len(q) = Len(p) - 1 /\ DOMAIN q = 1 .. (Len(p) - 1)
      /\ \A i \in 1 .. (Len(p) - 1) : q[i] = p[i + 1]
  BY <1>1
<1> QED
  BY <1>1, <1>2

\* What the frames are.
LEMMA FrameTypes ==
  /\ \A r \in TaskRecords : AnyBoard!Frame("task", r) \in Frames
  /\ \A n \in Nat : AnyBoard!Frame("task_event", n) \in Frames
  /\ \A t \in Texts : AnyBoard!Frame("task_text", t) \in Frames
  /\ \A k, w : AnyBoard!Frame(k, w).kind = k /\ AnyBoard!Frame(k, w).what = w
  /\ \A f \in Frames : /\ f.kind \in {"task", "task_event", "task_text"}
                       /\ f.kind = "task" => f.what \in TaskRecords
                       /\ f.kind = "task_event" => f.what \in Nat
                       /\ f.kind = "task_text" => f.what \in Texts
BY DEF AnyBoard!Frame, Frames

\* The step of a record.
LEMMA RecordTypes ==
  /\ AnyBoard!Absent = Gone /\ Gone \notin TaskRecords /\ Gone.status = "absent"
  /\ \A r \in TaskRecords : r.status \in {"waiting", "running"} /\ r.turn \in Nat
  /\ \A n \in Nat : [status |-> "running", turn |-> n] \in TaskRecords
  /\ \A r \in TaskRecords : /\ [r EXCEPT !.status = "waiting"] \in TaskRecords
                            /\ [r EXCEPT !.status = "waiting"].turn = r.turn
                            /\ [r EXCEPT !.status = "waiting"].status = "waiting"
BY DEF AnyBoard!Absent, Gone, TaskRecords

-----------------------------------------------------------------------------

\* The stream is opened, with a conversation to ask for again or without.
Connects == AnyBoard!Connect \/ ClosedBoard!Connect

\* A step of the server's leaves the browser alone, and tells what it does.
ServerSteps ==
  \/ AnyBoard!Launch \/ AnyBoard!TurnStarted \/ AnyBoard!Says
  \/ AnyBoard!Speaks \/ AnyBoard!TurnEnds

\* A turn that is launched, starts, says, speaks and ends keeps what is true of a board.
LEMMA ServerKeeps ==
  ASSUME BoardInv, ServerSteps
  PROVE  BoardInv'
<1> USE DEF BoardInv, BoardTyped, AnyBoard!Emit, AnyBoard!fetch, AnyBoard!board
<1> DEFINE R == boardRecord
<1>0. /\ journal \in Nat /\ link \in BOOLEAN /\ pipe \in Seq(Frames)
      /\ R \in TaskRecords /\ R.turn \in Nat /\ R.status \in {"waiting", "running"}
  BY RecordTypes DEF ServerSteps, AnyBoard!Launch, AnyBoard!TurnStarted, AnyBoard!Says,
     AnyBoard!Speaks, AnyBoard!TurnEnds
<1>1. ASSUME NEW f \in Frames, pipe' = IF link THEN Append(pipe, f) ELSE pipe,
             UNCHANGED <<link, answers, seen, events, bubbles>>,
             boardRecord' \in TaskRecords, said' \in Nat, journal' \in Nat, journal <= journal',
             f.kind = "task_event" => f.what \in 1 .. journal',
             JournalFollows'
      PROVE  BoardInv'
  <2>1. /\ pipe' \in Seq(Frames) /\ ~ link => pipe' = pipe
        /\ \A i \in DOMAIN pipe' : (i \in DOMAIN pipe /\ pipe'[i] = pipe[i]) \/ pipe'[i] = f
    BY <1>0, <1>1, Emitted
  <2>2. 1 .. journal \subseteq 1 .. journal'
    BY <1>0, <1>1
  <2>3. BoardTyped'
    BY <1>1, <2>1
  <2>4. \A i \in DOMAIN pipe' : pipe'[i].kind = "task_event" => pipe'[i].what \in 1 .. journal'
    BY <1>1, <2>1, <2>2 DEF NothingAhead
  <2>5. \A a \in answers' : a.journal <= journal'
    <3>1. \A a \in answers : a.journal \in Nat
      OBVIOUS
    <3> QED
      BY <1>0, <1>1, <3>1 DEF NothingAhead
  <2>6. Seqs(events)' \subseteq 1 .. journal'
    BY <1>1, <2>2 DEF NothingAhead, Seqs
  <2>7. Ascending(events)' /\ Ascending(bubbles)' /\ (~ link => pipe = <<>>)'
    BY <1>1, <2>1 DEF Ascending
  <2> QED
    BY <1>1, <2>3, <2>4, <2>5, <2>6, <2>7 DEF NothingAhead
<1>2. CASE AnyBoard!Launch
  <2>1. /\ R.status = "waiting" /\ boardRecord' = [status |-> "running", turn |-> R.turn + 1]
        /\ pipe' = IF link THEN Append(pipe, AnyBoard!Frame("task", boardRecord')) ELSE pipe
        /\ UNCHANGED <<journal, link, answers, seen, events, bubbles>> /\ said' \in Nat
    BY <1>2 DEF AnyBoard!Launch
  <2>2. boardRecord' \in TaskRecords /\ boardRecord'.status = "running"
        /\ boardRecord'.turn = R.turn + 1
    BY <1>0, <2>1, RecordTypes
  <2>3. JournalFollows'
    BY <1>0, <2>1, <2>2 DEF JournalFollows
  <2>4. AnyBoard!Frame("task", boardRecord') \in Frames
        /\ AnyBoard!Frame("task", boardRecord').kind = "task"
    BY <2>2, FrameTypes
  <2> QED
    BY <1>0, <1>1, <2>1, <2>2, <2>3, <2>4
<1>3. CASE AnyBoard!TurnStarted \/ AnyBoard!Speaks
  <2>1. /\ R.status = "running" /\ journal' = journal + 1
        /\ journal \in {2 * R.turn - 2, 2 * R.turn - 1}
        /\ pipe' = IF link THEN Append(pipe, AnyBoard!Frame("task_event", journal')) ELSE pipe
        /\ UNCHANGED <<boardRecord, link, answers, seen, events, bubbles>> /\ said' \in Nat
    BY <1>3 DEF AnyBoard!TurnStarted, AnyBoard!Speaks
  <2>2. JournalFollows'
    <3>1. R.turn >= 1
      BY <2>1 DEF JournalFollows
    <3> QED
      BY <1>0, <2>1, <3>1 DEF JournalFollows
  <2>3. journal' \in Nat /\ journal <= journal' /\ journal' \in 1 .. journal'
    BY <1>0, <2>1
  <2>4. AnyBoard!Frame("task_event", journal') \in Frames
        /\ AnyBoard!Frame("task_event", journal').what = journal'
    BY <2>3, FrameTypes
  <2> QED
    BY <1>0, <1>1, <2>1, <2>2, <2>3, <2>4
<1>4. CASE AnyBoard!Says
  <2> DEFINE t == [turn |-> R.turn, seq |-> said']
  <2>1. /\ said' \in Nat
        /\ pipe' = IF link THEN Append(pipe, AnyBoard!Frame("task_text", t)) ELSE pipe
        /\ UNCHANGED <<boardRecord, journal, link, answers, seen, events, bubbles>>
    BY <1>4 DEF AnyBoard!Says
  <2> HIDE DEF t
  <2>2. JournalFollows'
    BY <2>1 DEF JournalFollows
  <2>3. t \in Texts
    BY <1>0, <2>1 DEF t, Texts
  <2>4. AnyBoard!Frame("task_text", t) \in Frames
        /\ AnyBoard!Frame("task_text", t).kind = "task_text"
    BY <2>3, FrameTypes
  <2> QED
    BY <1>0, <1>1, <2>1, <2>2, <2>4
<1>5. CASE AnyBoard!TurnEnds
  <2>1. /\ R.status = "running" /\ boardRecord' = [boardRecord EXCEPT !.status = "waiting"]
        /\ journal = 2 * R.turn
        /\ pipe' = IF link THEN Append(pipe, AnyBoard!Frame("task", boardRecord')) ELSE pipe
        /\ UNCHANGED <<journal, link, answers, seen, events, bubbles>> /\ said' \in Nat
    BY <1>5 DEF AnyBoard!TurnEnds
  <2>2. boardRecord' \in TaskRecords /\ boardRecord'.status = "waiting"
        /\ boardRecord'.turn = R.turn
    BY <1>0, <2>1, RecordTypes
  <2>3. JournalFollows'
    BY <1>0, <2>1, <2>2 DEF JournalFollows
  <2>4. AnyBoard!Frame("task", boardRecord') \in Frames
        /\ AnyBoard!Frame("task", boardRecord').kind = "task"
    BY <2>2, FrameTypes
  <2>5. /\ pipe' = IF link THEN Append(pipe, AnyBoard!Frame("task", boardRecord')) ELSE pipe
        /\ UNCHANGED <<link, answers, seen, events, bubbles>>
        /\ said' \in Nat /\ journal' \in Nat /\ journal <= journal'
    BY <1>0, <2>1
  <2> QED
    BY <1>1, <2>2, <2>3, <2>4, <2>5
<1> QED
  BY <1>2, <1>3, <1>4, <1>5 DEF ServerSteps

\* The server's other steps, the connection and the request.
LinkSteps ==
  \/ AnyBoard!Purge \/ Connects \/ AnyBoard!Drop
  \/ AnyBoard!OpenConversation \/ AnyBoard!Answered

\* So do the stream and the request for a conversation.
LEMMA LinkKeeps ==
  ASSUME BoardInv, LinkSteps
  PROVE  BoardInv'
<1> USE DEF BoardInv, BoardTyped, NothingAhead, AnyBoard!server, AnyBoard!fetch, AnyBoard!board
<1>0. /\ journal' = journal /\ said' = said /\ UNCHANGED <<seen, events, bubbles>>
  BY
     DEF LinkSteps, Connects, AnyBoard!Purge, AnyBoard!Connect, ClosedBoard!Connect,
         AnyBoard!Drop,
     AnyBoard!OpenConversation, AnyBoard!Answered, ClosedBoard!server, ClosedBoard!board
<1>1. (Seqs(events) \subseteq 1 .. journal)' /\ Ascending(events)' /\ Ascending(bubbles)'
  BY <1>0 DEF Seqs, Ascending
<1>2. CASE AnyBoard!Purge
  <2>1. boardRecord' = Gone /\ Gone.status = "absent" /\ UNCHANGED <<link, pipe, answers>>
    BY <1>2, RecordTypes DEF AnyBoard!Purge
  <2>2. JournalFollows'
    BY <2>1 DEF JournalFollows
  <2> QED
    BY <1>0, <1>1, <2>1, <2>2
<1>3. CASE Connects
  <2>1. /\ link' = TRUE /\ UNCHANGED <<boardRecord, answers>>
        /\ pipe' = IF boardRecord = Gone THEN <<>> ELSE <<AnyBoard!Frame("task", boardRecord)>>
    BY <1>3, RecordTypes
    DEF Connects, AnyBoard!Connect, ClosedBoard!Connect, AnyBoard!Replay, ClosedBoard!Replay,
        ClosedBoard!Absent, AnyBoard!Absent, ClosedBoard!Frame, AnyBoard!Frame,
        ClosedBoard!server, ClosedBoard!board
  <2>2. /\ pipe' \in Seq(Frames)
        /\ \A i \in DOMAIN pipe' : pipe'[i].kind = "task"
    <3>1. CASE boardRecord = Gone
      BY <2>1, <3>1
    <3>2. CASE boardRecord # Gone
      <4>1. AnyBoard!Frame("task", boardRecord) \in Frames
            /\ AnyBoard!Frame("task", boardRecord).kind = "task"
        BY <3>2, FrameTypes
      <4> QED
        BY <2>1, <3>2, <4>1
    <3> QED
      BY <3>1, <3>2
  <2>3. JournalFollows'
    BY <1>0, <2>1 DEF JournalFollows
  <2> QED
    BY <1>0, <1>1, <2>1, <2>2, <2>3
<1>4. CASE AnyBoard!Drop
  <2>1. link' = FALSE /\ pipe' = <<>> /\ UNCHANGED <<boardRecord, answers>>
    BY <1>4 DEF AnyBoard!Drop
  <2>2. JournalFollows'
    BY <1>0, <2>1 DEF JournalFollows
  <2>3. pipe' \in Seq(Frames) /\ DOMAIN pipe' = {}
    BY <2>1
  <2> QED
    BY <1>0, <1>1, <2>1, <2>2, <2>3
<1>5. CASE AnyBoard!OpenConversation
  <2>1. UNCHANGED <<boardRecord, link, pipe, answers>>
    BY <1>5 DEF AnyBoard!OpenConversation
  <2>2. JournalFollows'
    BY <1>0, <2>1 DEF JournalFollows
  <2> QED
    BY <1>0, <1>1, <2>1, <2>2
<1>6. CASE AnyBoard!Answered
  <2> DEFINE a == [record |-> boardRecord, journal |-> journal]
  <2>1. /\ UNCHANGED <<boardRecord, link, pipe>>
        /\ answers' = IF boardRecord = Gone THEN answers ELSE answers \cup {a}
    BY <1>6, RecordTypes DEF AnyBoard!Answered
  <2>2. JournalFollows'
    BY <1>0, <2>1 DEF JournalFollows
  <2>3. boardRecord = Gone \/ a \in [record : TaskRecords, journal : Nat]
    OBVIOUS
  <2>4. a.journal <= journal
    OBVIOUS
  <2> HIDE DEF a
  <2>5. answers' \in SUBSET [record : TaskRecords, journal : Nat]
    BY <2>1, <2>3
  <2>6. \A b \in answers' : b.journal <= journal'
    BY <1>0, <2>1, <2>4
  <2> QED
    BY <1>0, <1>1, <2>1, <2>2, <2>5, <2>6
<1> QED
  BY <1>2, <1>3, <1>4, <1>5, <1>6 DEF LinkSteps

\* What a record, an event and a live message do to the lists of the browser.
LEMMA EventShown ==
  ASSUME BoardInv, NEW n \in 1 .. journal, AnyBoard!OnEvent(n)
  PROVE  /\ events' \in Seq(JournalEvents) /\ Ascending(events)'
         /\ Seqs(events') = Seqs(events) \cup {n}
         /\ bubbles' = <<>> /\ seen' = seen
<1> USE DEF BoardInv, BoardTyped
<1> DEFINE e == [seq |-> n]
<1>1. e \in JournalEvents /\ e.seq = n /\ \A c \in JournalEvents : c.seq \in Nat
  BY DEF JournalEvents
<1>2. events' = AnyBoard!MergeBySeq(events, e) /\ bubbles' = <<>> /\ seen' = seen
  BY DEF AnyBoard!OnEvent, AnyBoard!SettlesLiveMessages
<1> HIDE DEF e
<1>3. IsMerge(AnyBoard!MergeBySeq(events, e), events, e, JournalEvents)
  BY <1>1, MergeKeepsOrder
<1>4. Seqs(AnyBoard!MergeBySeq(events, e)) = Seqs(events) \cup {n}
  BY <1>1, MergeAddsOne
<1>5. Ascending(events)'
  BY <1>2, <1>3 DEF IsMerge, Ascending
<1> QED
  BY <1>2, <1>3, <1>4, <1>5 DEF IsMerge

\* A board with no live messages left.
LEMMA Cleared ==
  ASSUME NEW F, NEW s \in Seq(F), NEW t \in {s, <<>>}
  PROVE  t \in Seq(F) /\ (Ascending(s) => Ascending(t))
<1>1. CASE t = s
  BY <1>1
<1>2. CASE t = <<>>
  <2>1. <<>> \in Seq(F)
    OBVIOUS
  <2>2. Ascending(<<>>)
    BY DEF Ascending
  <2> QED
    BY <1>2, <2>1, <2>2
<1> QED
  BY <1>1, <1>2

\* The journal that an answer brings is merged into the one on the screen.
LEMMA AnswerShown ==
  ASSUME BoardInv, NEW a \in answers, AnyBoard!Hydrate(a)
  PROVE  /\ events' \in Seq(JournalEvents) /\ Ascending(events)'
         /\ Seqs(events') = Seqs(events) \cup 1 .. a.journal
         /\ seen' = a.record /\ a.record \in TaskRecords /\ bubbles' \in {bubbles, <<>>}
         /\ Ascending(bubbles)'
<1> USE DEF BoardInv, BoardTyped
<1> DEFINE h == AnyBoard!FoldLeft(AnyBoard!MergeBySeq, events,
                                  [i \in 1 .. a.journal |-> [seq |-> i]])
<1>1. events' = h /\ seen' = a.record /\ bubbles' \in {bubbles, <<>>}
  BY DEF AnyBoard!Hydrate, AnyBoard!Upsert
<1>2. a.journal \in Nat /\ a.record \in TaskRecords
  OBVIOUS
<1>3. h \in Seq(JournalEvents) /\ Ascending(h) /\ Seqs(h) = Seqs(events) \cup 1 .. a.journal
  BY <1>2, HydrateKeepsOrder
<1> HIDE DEF h
<1>4. Ascending(events)'
  BY <1>1, <1>3 DEF Ascending
<1>5. Ascending(bubbles)'
  BY <1>1 DEF Ascending
<1> QED
  BY <1>1, <1>2, <1>3, <1>4, <1>5

\* A live message is merged into those on the screen.
LEMMA TextShown ==
  ASSUME NEW s \in Seq(Texts), Ascending(s), NEW x \in Texts
  PROVE  IsMerge(AnyBoard!MergeBySeq(s, x), s, x, Texts)
<1>1. \A t \in Texts : t.seq \in Nat
  BY DEF Texts
<1> QED
  BY <1>1, MergeKeepsOrder

\* A frame that is read keeps what is true of a board.
LEMMA ReceiveKeeps ==
  ASSUME BoardInv, AnyBoard!Receive
  PROVE  BoardInv'
<1> USE DEF BoardInv, BoardTyped
<1> DEFINE f == Head(pipe)
<1>1. /\ pipe # <<>> /\ pipe' = Tail(pipe)
      /\ UNCHANGED <<boardRecord, journal, said, link, answers>>
  BY DEF AnyBoard!Receive, AnyBoard!server, AnyBoard!fetch
<1>2. /\ pipe' \in Seq(Frames) /\ 1 \in DOMAIN pipe /\ f = pipe[1] /\ f \in Frames
      /\ \A i \in DOMAIN pipe' : i + 1 \in DOMAIN pipe /\ pipe'[i] = pipe[i + 1]
  BY <1>1, Taken
<1>3. JournalFollows' /\ link' = link /\ link
  BY <1>1 DEF JournalFollows
<1>4. \A i \in DOMAIN pipe' : pipe'[i].kind = "task_event" => pipe'[i].what \in 1 .. journal'
  BY <1>1, <1>2 DEF NothingAhead
<1>5. \A a \in answers' : a.journal <= journal'
  BY <1>1 DEF NothingAhead
<1>6. ASSUME events' \in Seq(JournalEvents), Ascending(events)',
      Seqs(events') \subseteq 1 .. journal,
             seen' \in TaskRecords \cup {Gone}, bubbles' \in Seq(Texts), Ascending(bubbles)'
      PROVE  BoardInv'
  <2>1. Seqs(events)' \subseteq 1 .. journal'
    BY <1>1, <1>6 DEF Seqs
  <2>2. BoardTyped'
    BY <1>1, <1>2, <1>6
  <2> QED
    BY <1>3, <1>4, <1>5, <1>6, <2>1, <2>2 DEF NothingAhead
<1>7. UNCHANGED events => events' \in Seq(JournalEvents) /\ Ascending(events)'
                          /\ Seqs(events') \subseteq 1 .. journal
  BY DEF Ascending, NothingAhead
<1> HIDE DEF f
<1>8. CASE f.kind = "task" /\ AnyBoard!Upsert(f.what) /\ UNCHANGED events
  <2>1. seen' = f.what /\ bubbles' \in {bubbles, <<>>} /\ f.what \in TaskRecords
    BY <1>2, <1>8, FrameTypes DEF AnyBoard!Upsert
  <2>2. bubbles' \in Seq(Texts) /\ Ascending(bubbles')
    BY <2>1, Cleared
  <2>3. Ascending(bubbles)'
    BY <2>2 DEF Ascending
  <2> QED
    BY <1>6, <1>7, <1>8, <2>1, <2>2, <2>3
<1>9. CASE f.kind = "task_event" /\ AnyBoard!OnEvent(f.what)
  <2>1. f.what \in 1 .. journal
    BY <1>2, <1>9 DEF NothingAhead
  <2>2. /\ events' \in Seq(JournalEvents) /\ Ascending(events)'
        /\ Seqs(events') = Seqs(events) \cup {f.what} /\ bubbles' = <<>> /\ seen' = seen
    BY <1>9, <2>1, EventShown
  <2>3. Seqs(events') \subseteq 1 .. journal
    BY <2>1, <2>2 DEF NothingAhead
  <2>4. bubbles' \in Seq(Texts) /\ Ascending(bubbles)'
    BY <2>2 DEF Ascending
  <2> QED
    BY <1>6, <2>2, <2>3, <2>4
<1>10. CASE /\ f.kind = "task_text" /\ bubbles' = AnyBoard!MergeBySeq(bubbles, f.what)
            /\ UNCHANGED <<seen, events>>
  <2>1. IsMerge(bubbles', bubbles, f.what, Texts)
    BY <1>2, <1>10, FrameTypes, TextShown
  <2>2. bubbles' \in Seq(Texts) /\ Ascending(bubbles)'
    BY <2>1 DEF IsMerge, Ascending
  <2> QED
    BY <1>6, <1>7, <1>10, <2>2
<1>11. CASE UNCHANGED <<seen, events, bubbles>>
  <2>1. Ascending(bubbles)'
    BY <1>11 DEF Ascending
  <2> QED
    BY <1>6, <1>7, <1>11, <2>1
<1> QED
  BY <1>8, <1>9, <1>10, <1>11 DEF AnyBoard!Receive, AnyBoard!board, f

\* So does an answer that is merged.
LEMMA HydrateKeeps ==
  ASSUME BoardInv, NEW a \in answers, AnyBoard!Hydrate(a)
  PROVE  BoardInv'
<1> USE DEF BoardInv, BoardTyped
<1>1. /\ answers' \subseteq answers
      /\ UNCHANGED <<boardRecord, journal, said, link, pipe>>
  BY DEF AnyBoard!Hydrate, AnyBoard!server
<1>2. /\ events' \in Seq(JournalEvents) /\ Ascending(events)' /\ Ascending(bubbles)'
      /\ Seqs(events') = Seqs(events) \cup 1 .. a.journal
      /\ seen' \in TaskRecords /\ bubbles' \in {bubbles, <<>>}
  BY AnswerShown
<1>3. JournalFollows' /\ (~ link => pipe = <<>>)'
  BY <1>1 DEF JournalFollows
<1>4. Seqs(events)' \subseteq 1 .. journal'
  <2>1. a.journal \in Nat /\ a.journal <= journal
    BY DEF NothingAhead
  <2>2. 1 .. a.journal \subseteq 1 .. journal
    BY <2>1
  <2>3. Seqs(events)' = Seqs(events')
    BY DEF Seqs
  <2> QED
    BY <1>1, <1>2, <2>2, <2>3 DEF NothingAhead
<1>5. NothingAhead'
  <2>1. \A i \in DOMAIN pipe' : pipe'[i].kind = "task_event" => pipe'[i].what \in 1 .. journal'
    BY <1>1 DEF NothingAhead
  <2>2. \A b \in answers' : b.journal <= journal'
    BY <1>1 DEF NothingAhead
  <2> QED
    BY <1>4, <2>1, <2>2 DEF NothingAhead
<1>6. bubbles' \in Seq(Texts)
  BY <1>2, Cleared
<1>7. BoardTyped'
  BY <1>1, <1>2, <1>6
<1> QED
  BY <1>2, <1>3, <1>5, <1>7

\* Every step of every board keeps the journal in its order.
LEMMA BoardKeeps ==
  ASSUME BoardInv, AnyBoard!Next \/ Connects
  PROVE  BoardInv'
<1>1. CASE \E a \in answers : AnyBoard!Hydrate(a)
  BY <1>1, HydrateKeeps
<1>2. CASE AnyBoard!Receive
  BY <1>2, ReceiveKeeps
<1>3. CASE ServerSteps
  BY <1>3, ServerKeeps
<1>4. CASE LinkSteps
  BY <1>4, LinkKeeps
<1> QED
  BY <1>1, <1>2, <1>3, <1>4 DEF AnyBoard!Next, ServerSteps, LinkSteps, Connects

-----------------------------------------------------------------------------
(***************************************************************************)
(* An open conversation has its journal: what it has not is on its way.    *)
(***************************************************************************)

\* The number n of the journal is on the screen, or will be.
Coming(n) ==
  \/ asked > 0 \/ n \in Seqs(events)
  \/ \E i \in DOMAIN pipe : pipe[i].kind = "task_event" /\ pipe[i].what = n
  \/ \E a \in answers : n <= a.journal

OpenInv ==
  /\ asked \in Nat
  /\ link /\ seen = Gone /\ boardRecord # Gone => 1 \in DOMAIN pipe /\ pipe[1].kind = "task"
  /\ link /\ boardRecord # Gone => \A n \in 1 .. journal : Coming(n)

\* The numbers of a list in order that has all of them up to n.
LEMMA AllInOrder ==
  ASSUME NEW s \in Seq(JournalEvents), NEW n \in Nat, Ascending(s), Seqs(s) = 1 .. n
  PROVE  Len(s) = n
<1> DEFINE L == Len(s)
           f == [i \in 1 .. L |-> s[i].seq]
<1>1. L \in Nat /\ DOMAIN s = 1 .. L /\ \A i \in 1 .. L : s[i].seq \in Nat
  <2>1. \A c \in JournalEvents : c.seq \in Nat
    BY DEF JournalEvents
  <2>2. L \in Nat /\ DOMAIN s = 1 .. L /\ \A i \in 1 .. L : s[i] \in JournalEvents
    OBVIOUS
  <2> QED
    BY <2>1, <2>2
<1> HIDE DEF L
<1>2. \A i \in 1 .. L : s[i].seq \in 1 .. n
  BY <1>1 DEF Seqs
<1>3. \A k \in 1 .. n : \E i \in 1 .. L : s[i].seq = k
  BY <1>1 DEF Seqs
<1>4. \A i, j \in 1 .. L : s[i].seq = s[j].seq => i = j
  <2> SUFFICES ASSUME NEW i \in 1 .. L, NEW j \in 1 .. L, s[i].seq = s[j].seq, i # j PROVE FALSE
    OBVIOUS
  <2>1. i < j \/ j < i
    BY <1>1
  <2> QED
    BY <1>1, <2>1 DEF Ascending
<1>5. f \in Bijection(1 .. L, 1 .. n)
  BY <1>2, <1>3, <1>4 DEF Bijection, Injection, Surjection, IsInjective
<1>6. IsFiniteSet(1 .. L) /\ Cardinality(1 .. L) = L /\ Cardinality(1 .. n) = n
  BY <1>1, FS_Interval
<1>7. Cardinality(1 .. n) = Cardinality(1 .. L)
  <2>1. ExistsBijection(1 .. L, 1 .. n)
    BY <1>5 DEF ExistsBijection
  <2> QED
    BY <1>6, <2>1, FS_Bijection
<1> QED
  BY <1>6, <1>7 DEF L

\* Whatever is coming is still coming after a step that sends a frame.
LEMMA StillComing ==
  ASSUME BoardInv, NEW n,
         Coming(n), UNCHANGED <<asked, answers, events>>,
         DOMAIN pipe \subseteq DOMAIN pipe', \A i \in DOMAIN pipe : pipe'[i] = pipe[i]
  PROVE  Coming(n)'
BY DEF Coming, Seqs

\* What a turn tells is in the stream, of an open conversation.
LEMMA ServerOpen ==
  ASSUME BoardInv, OpenInv, ServerSteps
  PROVE  OpenInv'
<1> USE DEF BoardInv, BoardTyped, AnyBoard!Emit, AnyBoard!fetch, AnyBoard!board
<1>0. /\ journal \in Nat /\ link \in BOOLEAN /\ pipe \in Seq(Frames)
      /\ boardRecord \in TaskRecords /\ boardRecord.turn \in Nat
      /\ boardRecord.status \in {"waiting", "running"} /\ boardRecord # Gone
  BY RecordTypes DEF ServerSteps, AnyBoard!Launch, AnyBoard!TurnStarted, AnyBoard!Says,
     AnyBoard!Speaks, AnyBoard!TurnEnds
<1>1. ASSUME NEW f \in Frames, pipe' = IF link THEN Append(pipe, f) ELSE pipe,
             UNCHANGED <<link, asked, answers, seen, events>>,
             \/ journal' = journal
             \/ journal' = journal + 1 /\ f.kind = "task_event" /\ f.what = journal'
      PROVE  OpenInv'
  <2>1. /\ pipe' \in Seq(Frames) /\ DOMAIN pipe \subseteq DOMAIN pipe'
        /\ \A i \in DOMAIN pipe : pipe'[i] = pipe[i]
        /\ link => Len(pipe) + 1 \in DOMAIN pipe' /\ pipe'[Len(pipe) + 1] = f
    BY <1>0, <1>1, Emitted
  <2>2. link' /\ seen' = Gone /\ boardRecord' # Gone => 1 \in DOMAIN pipe' /\ pipe'[1].kind = "task"
    BY <1>0, <1>1, <2>1 DEF OpenInv
  <2>3. ASSUME NEW n \in 1 .. journal', link PROVE Coming(n)'
    <3>1. CASE n \in 1 .. journal
      <4>1. Coming(n)
        BY <1>0, <2>3, <3>1 DEF OpenInv
      <4> QED
        BY <1>1, <2>1, <4>1, StillComing
    <3>2. CASE n \notin 1 .. journal
      <4>1. n = journal' /\ f.kind = "task_event" /\ f.what = journal'
        BY <1>0, <1>1, <3>2
      <4> QED
        BY <2>1, <2>3, <4>1 DEF Coming
    <3> QED
      BY <3>1, <3>2
  <2> QED
    BY <1>1, <2>2, <2>3 DEF OpenInv
<1>2. CASE AnyBoard!Launch \/ AnyBoard!TurnEnds
  <2>1. /\ UNCHANGED <<journal, link, asked, answers, seen, events>>
        /\ pipe' = IF link THEN Append(pipe, AnyBoard!Frame("task", boardRecord')) ELSE pipe
    BY <1>2 DEF AnyBoard!Launch, AnyBoard!TurnEnds
  <2>2. boardRecord' \in TaskRecords
    BY <1>0, <1>2, RecordTypes DEF AnyBoard!Launch, AnyBoard!TurnEnds
  <2>3. AnyBoard!Frame("task", boardRecord') \in Frames
    BY <2>2, FrameTypes
  <2> QED
    BY <1>1, <2>1, <2>3
<1>3. CASE AnyBoard!TurnStarted \/ AnyBoard!Speaks
  <2>1. /\ UNCHANGED <<link, asked, answers, seen, events>> /\ journal' = journal + 1
        /\ pipe' = IF link THEN Append(pipe, AnyBoard!Frame("task_event", journal')) ELSE pipe
    BY <1>3 DEF AnyBoard!TurnStarted, AnyBoard!Speaks
  <2>2. /\ AnyBoard!Frame("task_event", journal') \in Frames
        /\ AnyBoard!Frame("task_event", journal').kind = "task_event"
        /\ AnyBoard!Frame("task_event", journal').what = journal'
    BY <1>0, <2>1, FrameTypes
  <2> QED
    BY <1>1, <2>1, <2>2
<1>4. CASE AnyBoard!Says
  <2> DEFINE t == [turn |-> boardRecord.turn, seq |-> said']
  <2>1. /\ UNCHANGED <<journal, link, asked, answers, seen, events>>
        /\ pipe' = IF link THEN Append(pipe, AnyBoard!Frame("task_text", t)) ELSE pipe
        /\ t \in Texts
    BY <1>0, <1>4 DEF AnyBoard!Says, Texts
  <2> HIDE DEF t
  <2>2. AnyBoard!Frame("task_text", t) \in Frames
    BY <2>1, FrameTypes
  <2> QED
    BY <1>1, <2>1, <2>2
<1> QED
  BY <1>2, <1>3, <1>4 DEF ServerSteps


\* The steps of an open board on its connection, and its answers.
LEMMA FetchOpen ==
  ASSUME BoardInv, OpenInv,
         \/ AnyBoard!Purge \/ AnyBoard!Connect \/ AnyBoard!Drop
         \/ AnyBoard!OpenConversation \/ AnyBoard!Answered
  PROVE  OpenInv'
<1> USE DEF BoardInv, BoardTyped, AnyBoard!server, AnyBoard!fetch, AnyBoard!board, OpenInv
<1>1. CASE AnyBoard!Purge
  BY <1>1 DEF AnyBoard!Purge
<1>2. CASE AnyBoard!Drop
  BY <1>2 DEF AnyBoard!Drop
<1>3. CASE AnyBoard!Connect
  <2>1. /\ asked' = asked + 1 /\ link' = TRUE /\ UNCHANGED <<boardRecord, journal>>
        /\ pipe' = IF boardRecord = Gone THEN <<>> ELSE <<AnyBoard!Frame("task", boardRecord)>>
    BY <1>3, RecordTypes DEF AnyBoard!Connect, AnyBoard!Hydration, AnyBoard!Replay
  <2>2. asked' \in Nat /\ asked' > 0
    BY <2>1
  <2>3. \A n : Coming(n)'
    BY <2>2 DEF Coming
  <2>4. boardRecord # Gone => 1 \in DOMAIN pipe' /\ pipe'[1].kind = "task"
    BY <2>1, FrameTypes
  <2> QED
    BY <2>1, <2>2, <2>3, <2>4
<1>4. CASE AnyBoard!OpenConversation
  <2>1. asked' = 1 /\ UNCHANGED <<boardRecord, journal, link, pipe, seen>>
    BY <1>4 DEF AnyBoard!OpenConversation
  <2>2. \A n : Coming(n)'
    BY <2>1 DEF Coming
  <2> QED
    BY <2>1, <2>2
<1>5. CASE AnyBoard!Answered
  <2> DEFINE a == [record |-> boardRecord, journal |-> journal]
  <2>1. /\ asked' = asked - 1 /\ asked > 0
        /\ UNCHANGED <<boardRecord, journal, link, pipe, seen, events, bubbles>>
        /\ answers' = IF boardRecord = Gone THEN answers ELSE answers \cup {a}
    BY <1>5, RecordTypes DEF AnyBoard!Answered
  <2>2. asked' \in Nat
    BY <2>1
  <2>3. ASSUME boardRecord # Gone, NEW n \in 1 .. journal PROVE Coming(n)'
    <3>1. a \in answers' /\ n <= a.journal
      BY <2>1, <2>3
    <3> QED
      BY <3>1 DEF Coming
  <2> QED
    BY <2>1, <2>2, <2>3
<1> QED
  BY <1>1, <1>2, <1>3, <1>4, <1>5

\* A frame that is read is shown: what is still to come is behind it, or asked for.
LEMMA ReceiveOpen ==
  ASSUME BoardInv, OpenInv, AnyBoard!Receive
  PROVE  OpenInv'
<1> USE DEF BoardInv, BoardTyped
<1> DEFINE f == Head(pipe)
<1>1. /\ pipe # <<>> /\ pipe' = Tail(pipe)
      /\ UNCHANGED <<boardRecord, journal, link, asked, answers>>
  BY DEF AnyBoard!Receive, AnyBoard!server, AnyBoard!fetch
<1>2. /\ f = pipe[1] /\ f \in Frames
      /\ \A i \in DOMAIN pipe : i = 1 \/ (i - 1 \in DOMAIN pipe' /\ pipe'[i - 1] = pipe[i])
  BY <1>1, Taken
<1>3. link
  BY <1>1
<1> HIDE DEF f
<1>4. boardRecord # Gone /\ seen' = Gone => FALSE
  <2>1. seen = Gone /\ boardRecord # Gone => f.kind = "task"
    BY <1>2, <1>3 DEF OpenInv
  <2>2. CASE f.kind = "task"
    <3>1. AnyBoard!Upsert(f.what)
      BY <2>2 DEF AnyBoard!Receive, f
    <3>2. f.what \in TaskRecords
      BY <1>2, <2>2, FrameTypes
    <3> QED
      BY <3>1, <3>2, RecordTypes DEF AnyBoard!Upsert
  <2>3. CASE f.kind # "task"
    <3>1. UNCHANGED seen
      BY <2>3 DEF AnyBoard!Receive, AnyBoard!OnEvent, AnyBoard!board, f
    <3> QED
      BY <2>1, <2>3, <3>1
  <2> QED
    BY <2>2, <2>3
<1>5. ASSUME boardRecord # Gone, NEW n \in 1 .. journal PROVE Coming(n)'
  <2>1. Coming(n)
    BY <1>3, <1>5 DEF OpenInv
  <2>2. n \in Seqs(events) => n \in Seqs(events')
    <3>1. CASE f.kind = "task_event" /\ AnyBoard!OnEvent(f.what)
      <4>1. f.what \in 1 .. journal
        BY <1>1, <1>2, <3>1, Taken DEF NothingAhead
      <4> QED
        BY <3>1, <4>1, EventShown
    <3>2. CASE ~ (f.kind = "task_event" /\ AnyBoard!OnEvent(f.what))
      <4>1. events' = events
        BY <3>2 DEF AnyBoard!Receive, AnyBoard!board, f
      <4> QED
        BY <4>1
    <3> QED
      BY <3>1, <3>2
  <2>3. Seqs(events)' = Seqs(events')
    BY DEF Seqs
  <2>4. CASE asked > 0 \/ n \in Seqs(events) \/ \E a \in answers : n <= a.journal
    BY <1>1, <2>2, <2>3, <2>4 DEF Coming
  <2>5. CASE \E i \in DOMAIN pipe : pipe[i].kind = "task_event" /\ pipe[i].what = n
    <3>1. PICK i \in DOMAIN pipe : pipe[i].kind = "task_event" /\ pipe[i].what = n
      BY <2>5
    <3>2. CASE i = 1
      <4>1. f.kind = "task_event" /\ f.what = n
        BY <1>2, <3>1, <3>2
      <4>2. seen # Gone
        BY <1>2, <1>3, <1>5, <4>1 DEF OpenInv
      <4>3. AnyBoard!OnEvent(n)
        BY <4>1, <4>2, RecordTypes DEF AnyBoard!Receive, f
      <4>4. n \in Seqs(events')
        BY <4>3, EventShown
      <4> QED
        BY <2>3, <4>4 DEF Coming
    <3>3. CASE i # 1
      BY <1>2, <3>1, <3>3 DEF Coming
    <3> QED
      BY <3>2, <3>3
  <2> QED
    BY <2>1, <2>4, <2>5 DEF Coming
<1> QED
  BY <1>1, <1>4, <1>5 DEF OpenInv

\* What an answer brings is shown.
LEMMA HydrateOpen ==
  ASSUME BoardInv, OpenInv, NEW a \in answers, AnyBoard!Hydrate(a)
  PROVE  OpenInv'
<1> USE DEF BoardInv, BoardTyped
<1>1. /\ answers' = answers \ {a}
      /\ UNCHANGED <<boardRecord, journal, link, pipe, asked>>
  BY DEF AnyBoard!Hydrate, AnyBoard!server
<1>2. Seqs(events') = Seqs(events) \cup 1 .. a.journal /\ seen' \in TaskRecords
  BY AnswerShown
<1>3. seen' # Gone
  BY <1>2, RecordTypes
<1>4. ASSUME link, boardRecord # Gone, NEW n \in 1 .. journal PROVE Coming(n)'
  <2>1. Coming(n)
    BY <1>4 DEF OpenInv
  <2>2. Seqs(events)' = Seqs(events')
    BY DEF Seqs
  <2>3. CASE n \in Seqs(events) \/ n \in 1 .. a.journal
    BY <1>2, <2>2, <2>3 DEF Coming
  <2>4. CASE n \notin Seqs(events) /\ n \notin 1 .. a.journal
    <3>1. ~ (n <= a.journal)
      <4>1. a.journal \in Nat /\ n \in Nat /\ n >= 1
        OBVIOUS
      <4> QED
        BY <2>4, <4>1
    <3>2. (\E b \in answers : n <= b.journal) => \E b \in answers' : n <= b.journal
      BY <1>1, <3>1
    <3> QED
      BY <1>1, <2>1, <2>4, <3>2 DEF Coming
  <2> QED
    BY <2>3, <2>4
<1> QED
  BY <1>1, <1>3, <1>4 DEF OpenInv

\* Every step leaves what an open conversation lacks still to come.
LEMMA OpenKeeps ==
  ASSUME BoardInv, OpenInv, AnyBoard!Next
  PROVE  OpenInv'
<1>1. CASE \E a \in answers : AnyBoard!Hydrate(a)
  BY <1>1, HydrateOpen
<1>2. CASE AnyBoard!Receive
  BY <1>2, ReceiveOpen
<1>3. CASE ServerSteps
  BY <1>3, ServerOpen
<1>4. CASE \/ AnyBoard!Purge \/ AnyBoard!Connect \/ AnyBoard!Drop
           \/ AnyBoard!OpenConversation \/ AnyBoard!Answered
  BY <1>4, FetchOpen
<1> QED
  BY <1>1, <1>2, <1>3, <1>4 DEF AnyBoard!Next, ServerSteps

\* What is left when all has arrived is the whole journal.
LEMMA OpenIsWhole ==
  ASSUME BoardInv, OpenInv, AnyBoard!Quiet, AnyBoard!Absent # boardRecord
  PROVE  Len(events) = journal
<1>1. \A n \in 1 .. journal : n \in Seqs(events)
  <2>1. /\ boardRecord # Gone /\ link /\ DOMAIN pipe = {} /\ ~ (asked > 0) /\ answers = {}
    BY RecordTypes DEF AnyBoard!Quiet
  <2> QED
    BY <2>1 DEF OpenInv, Coming
<1>2. Seqs(events) = 1 .. journal
  BY <1>1 DEF BoardInv, NothingAhead
<1> QED
  BY <1>2, AllInOrder DEF BoardInv, BoardTyped

-----------------------------------------------------------------------------
(***************************************************************************)
(* The live messages, with a stream that stays up.                         *)
(***************************************************************************)

\* Messages of turn t can still come.
TurnSpeaks(t) ==
  /\ boardRecord.status = "running" /\ t = boardRecord.turn
  /\ journal = 2 * boardRecord.turn - 1

\* A message is of the turn the agent is in, or an event behind it takes it away.
LiveInv ==
  /\ boardRecord # Gone
  /\ ~ link \/ seen = Gone => bubbles = <<>>
  /\ \A i \in DOMAIN bubbles :
       TurnSpeaks(bubbles[i].turn) \/ \E j \in DOMAIN pipe : pipe[j].kind = "task_event"
  /\ \A i \in DOMAIN pipe : pipe[i].kind = "task_text" =>
       \/ TurnSpeaks(pipe[i].what.turn)
       \/ \E j \in DOMAIN pipe : i < j /\ pipe[j].kind = "task_event"

\* What a turn says has its turn, until what takes it away is told.
LEMMA ServerLive ==
  ASSUME BoardInv, LiveInv, ServerSteps
  PROVE  LiveInv'
<1> USE DEF BoardInv, BoardTyped, AnyBoard!Emit, AnyBoard!fetch, AnyBoard!board
<1>0. /\ journal \in Nat /\ link \in BOOLEAN /\ pipe \in Seq(Frames)
      /\ boardRecord \in TaskRecords /\ boardRecord.turn \in Nat
      /\ boardRecord.status \in {"waiting", "running"}
  BY RecordTypes DEF ServerSteps, AnyBoard!Launch, AnyBoard!TurnStarted, AnyBoard!Says,
     AnyBoard!Speaks, AnyBoard!TurnEnds
<1>1. ASSUME NEW f \in Frames, pipe' = IF link THEN Append(pipe, f) ELSE pipe,
             UNCHANGED <<link, seen, bubbles>>, boardRecord' \in TaskRecords,
             \/ f.kind = "task_event"
             \/ f.kind = "task" /\ \A t : ~ TurnSpeaks(t)
             \/ /\ f.kind = "task_text" /\ UNCHANGED <<boardRecord, journal>>
                /\ TurnSpeaks(f.what.turn)
      PROVE  LiveInv'
  <2>1. /\ pipe' \in Seq(Frames) /\ DOMAIN pipe \subseteq DOMAIN pipe'
        /\ \A i \in DOMAIN pipe : pipe'[i] = pipe[i]
        /\ \A i \in DOMAIN pipe' : i \in DOMAIN pipe
                                   \/ (link /\ pipe'[i] = f /\ \A j \in DOMAIN pipe : j < i)
        /\ link => Len(pipe) + 1 \in DOMAIN pipe' /\ pipe'[Len(pipe) + 1] = f
        /\ ~ link => pipe' = pipe
    BY <1>0, <1>1, Emitted
  <2>2. boardRecord' # Gone /\ (~ link \/ seen = Gone => bubbles = <<>>)'
    BY <1>1, RecordTypes DEF LiveInv
  <2>3. ~ link => DOMAIN pipe' = {} /\ DOMAIN bubbles' = {}
    BY <1>1, <2>1 DEF LiveInv
  <2>4. CASE ~ link
    BY <2>2, <2>3, <2>4 DEF LiveInv
  <2>5. CASE link /\ f.kind = "task_event"
    <3>1. DOMAIN pipe = 1 .. Len(pipe) /\ Len(pipe) \in Nat
      BY <1>0
    <3>2. \A i \in DOMAIN pipe : i < Len(pipe) + 1
      BY <3>1
    <3>3. Len(pipe) + 1 \in DOMAIN pipe' /\ pipe'[Len(pipe) + 1].kind = "task_event"
      BY <2>1, <2>5
    <3>4. \A i \in DOMAIN pipe' : pipe'[i].kind = "task_text" => i \in DOMAIN pipe
      BY <2>1, <2>5
    <3> QED
      BY <2>2, <3>2, <3>3, <3>4 DEF LiveInv
  <2>6. CASE link /\ f.kind # "task_event"
    <3>1. \A t : TurnSpeaks(t) => TurnSpeaks(t)'
      <4>1. CASE f.kind = "task"
        BY <1>1, <4>1
      <4>2. CASE f.kind = "task_text"
        <5>1. UNCHANGED <<boardRecord, journal>>
          BY <1>1, <4>2
        <5> QED
          BY <5>1 DEF TurnSpeaks
      <4> QED
        BY <2>6, <4>1, <4>2, FrameTypes
    <3>2. \A i \in DOMAIN bubbles' :
            TurnSpeaks(bubbles[i].turn)' \/ \E j \in DOMAIN pipe' : pipe'[j].kind = "task_event"
      BY <1>1, <2>1, <3>1 DEF LiveInv, TurnSpeaks
    <3>3. ASSUME NEW i \in DOMAIN pipe', pipe'[i].kind = "task_text"
          PROVE  \/ TurnSpeaks(pipe[i].what.turn)'
                 \/ \E j \in DOMAIN pipe' : i < j /\ pipe'[j].kind = "task_event"
      <4>1. CASE i \in DOMAIN pipe
        BY <2>1, <3>1, <3>3, <4>1 DEF LiveInv, TurnSpeaks
      <4>2. CASE pipe'[i] = f
        <5>1. UNCHANGED <<boardRecord, journal>> /\ TurnSpeaks(f.what.turn)
          BY <1>1, <2>6, <3>3, <4>2
        <5> QED
          BY <4>2, <5>1 DEF TurnSpeaks
      <4> QED
        BY <2>1, <4>1, <4>2
    <3> QED
      BY <2>2, <3>2, <3>3 DEF LiveInv
  <2> QED
    BY <1>0, <2>4, <2>5, <2>6
<1>2. CASE AnyBoard!Launch \/ AnyBoard!TurnEnds
  <2>1. /\ UNCHANGED <<link, seen, bubbles>>
        /\ pipe' = IF link THEN Append(pipe, AnyBoard!Frame("task", boardRecord')) ELSE pipe
    BY <1>2 DEF AnyBoard!Launch, AnyBoard!TurnEnds
  <2>2. boardRecord' \in TaskRecords
    BY <1>0, <1>2, RecordTypes DEF AnyBoard!Launch, AnyBoard!TurnEnds
  <2>3. /\ AnyBoard!Frame("task", boardRecord') \in Frames
        /\ AnyBoard!Frame("task", boardRecord').kind = "task"
    BY <2>2, FrameTypes
  <2>4. \A t : ~ TurnSpeaks(t)
    BY <1>0, <1>2 DEF AnyBoard!Launch, AnyBoard!TurnEnds, TurnSpeaks
  <2> QED
    BY <1>1, <2>1, <2>2, <2>3, <2>4
<1>3. CASE AnyBoard!TurnStarted \/ AnyBoard!Speaks
  <2>1. /\ UNCHANGED <<boardRecord, link, seen, bubbles>> /\ journal' = journal + 1
        /\ pipe' = IF link THEN Append(pipe, AnyBoard!Frame("task_event", journal')) ELSE pipe
    BY <1>3 DEF AnyBoard!TurnStarted, AnyBoard!Speaks
  <2>2. /\ AnyBoard!Frame("task_event", journal') \in Frames
        /\ AnyBoard!Frame("task_event", journal').kind = "task_event"
    BY <1>0, <2>1, FrameTypes
  <2> QED
    BY <1>0, <1>1, <2>1, <2>2
<1>4. CASE AnyBoard!Says
  <2> DEFINE t == [turn |-> boardRecord.turn, seq |-> said']
  <2>1. /\ UNCHANGED <<boardRecord, journal, link, seen, bubbles>>
        /\ pipe' = IF link THEN Append(pipe, AnyBoard!Frame("task_text", t)) ELSE pipe
        /\ t \in Texts /\ TurnSpeaks(t.turn)
    BY <1>0, <1>4 DEF AnyBoard!Says, Texts, TurnSpeaks
  <2> HIDE DEF t
  <2>2. /\ AnyBoard!Frame("task_text", t) \in Frames
        /\ AnyBoard!Frame("task_text", t).kind = "task_text"
        /\ AnyBoard!Frame("task_text", t).what = t
    BY <2>1, FrameTypes
  <2> QED
    BY <1>0, <1>1, <2>1, <2>2
<1> QED
  BY <1>2, <1>3, <1>4 DEF ServerSteps

\* A live message that is shown has its turn, or what takes it away behind it.
LEMMA ReceiveLive ==
  ASSUME BoardInv, LiveInv, AnyBoard!Receive
  PROVE  LiveInv'
<1> USE DEF BoardInv, BoardTyped
<1> DEFINE f == Head(pipe)
<1>1. /\ pipe # <<>> /\ pipe' = Tail(pipe) /\ UNCHANGED <<boardRecord, journal, link>>
  BY DEF AnyBoard!Receive, AnyBoard!server, AnyBoard!fetch
<1>2. /\ 1 \in DOMAIN pipe /\ f = pipe[1] /\ f \in Frames
      /\ \A i \in DOMAIN pipe' : i + 1 \in DOMAIN pipe /\ pipe'[i] = pipe[i + 1]
      /\ \A i \in DOMAIN pipe : i = 1 \/ (i - 1 \in DOMAIN pipe' /\ pipe'[i - 1] = pipe[i])
      /\ DOMAIN pipe \subseteq Nat /\ DOMAIN pipe' \subseteq Nat
  <2>1. pipe' \in Seq(Frames) /\ pipe \in Seq(Frames)
    BY <1>1, Taken
  <2>2. DOMAIN pipe \subseteq Nat /\ DOMAIN pipe' \subseteq Nat
    BY <2>1
  <2> QED
    BY <1>1, <2>2, Taken
<1>3. link
  BY <1>1
<1>4. \A t : TurnSpeaks(t)' <=> TurnSpeaks(t)
  BY <1>1 DEF TurnSpeaks
<1> HIDE DEF f
<1>5. ASSUME NEW i \in DOMAIN pipe', pipe'[i].kind = "task_text"
      PROVE  \/ TurnSpeaks(pipe'[i].what.turn)
             \/ \E j \in DOMAIN pipe' : i < j /\ pipe'[j].kind = "task_event"
  <2>1. i + 1 \in DOMAIN pipe /\ pipe[i + 1].kind = "task_text" /\ pipe[i + 1] = pipe'[i]
    BY <1>2, <1>5
  <2>2. CASE TurnSpeaks(pipe[i + 1].what.turn)
    BY <2>1, <2>2
  <2>3. CASE \E j \in DOMAIN pipe : i + 1 < j /\ pipe[j].kind = "task_event"
    <3>1. PICK j \in DOMAIN pipe : i + 1 < j /\ pipe[j].kind = "task_event"
      BY <2>3
    <3>2. i \in Nat /\ j \in Nat /\ j # 1 /\ i < j - 1
      BY <1>2, <3>1
    <3> QED
      BY <1>2, <3>1, <3>2
  <2> QED
    BY <2>1, <2>2, <2>3 DEF LiveInv
<1>6. ASSUME ~ link \/ seen' = Gone => bubbles' = <<>>,
             \A i \in DOMAIN bubbles' :
               \/ TurnSpeaks(bubbles'[i].turn)
               \/ \E j \in DOMAIN pipe' : pipe'[j].kind = "task_event"
      PROVE  LiveInv'
  <2>1. \A i \in DOMAIN bubbles' :
          \/ TurnSpeaks(bubbles[i].turn)'
          \/ \E j \in DOMAIN pipe' : pipe'[j].kind = "task_event"
    BY <1>4, <1>6 DEF TurnSpeaks
  <2>2. \A i \in DOMAIN pipe' : pipe'[i].kind = "task_text" =>
          \/ TurnSpeaks(pipe[i].what.turn)'
          \/ \E j \in DOMAIN pipe' : i < j /\ pipe'[j].kind = "task_event"
    BY <1>4, <1>5 DEF TurnSpeaks
  <2> QED
    BY <1>1, <1>6, <2>1, <2>2 DEF LiveInv
<1>7. ASSUME f.kind # "task_event"
      PROVE  \A i \in DOMAIN bubbles :
               \/ TurnSpeaks(bubbles[i].turn)
               \/ \E j \in DOMAIN pipe' : pipe'[j].kind = "task_event"
  BY <1>2, <1>7 DEF LiveInv
<1>8. CASE f.kind = "task"
  <2>1. seen' = f.what /\ bubbles' \in {bubbles, <<>>} /\ f.what \in TaskRecords
    BY <1>2, <1>8, FrameTypes DEF AnyBoard!Receive, AnyBoard!Upsert, f
  <2>2. seen' # Gone
    BY <2>1, RecordTypes
  <2>3. CASE bubbles' = bubbles
    BY <1>3, <1>6, <1>7, <1>8, <2>2, <2>3
  <2>4. CASE bubbles' = <<>>
    BY <1>6, <2>4
  <2> QED
    BY <2>1, <2>3, <2>4
<1>9. CASE f.kind = "task_event" /\ AnyBoard!OnEvent(f.what)
  <2>1. bubbles' = <<>>
    BY <1>9 DEF AnyBoard!OnEvent, AnyBoard!SettlesLiveMessages
  <2> QED
    BY <1>6, <2>1
<1>10. CASE f.kind = "task_text" /\ seen # Gone /\ bubbles' = AnyBoard!MergeBySeq(bubbles, f.what)
            /\ UNCHANGED <<seen, events>>
  <2>1. IsMerge(bubbles', bubbles, f.what, Texts)
    BY <1>2, <1>10, FrameTypes, TextShown
  <2>2. \A i \in DOMAIN bubbles' : bubbles'[i] = f.what
        \/ \E j \in DOMAIN bubbles : bubbles'[i] = bubbles[j]
    BY <2>1 DEF IsMerge
  <2>3. TurnSpeaks(f.what.turn) \/ \E j \in DOMAIN pipe' : pipe'[j].kind = "task_event"
    <3>1. \/ TurnSpeaks(f.what.turn)
          \/ \E j \in DOMAIN pipe : 1 < j /\ pipe[j].kind = "task_event"
      BY <1>2, <1>10 DEF LiveInv
    <3> QED
      BY <1>2, <3>1
  <2>4. \A i \in DOMAIN bubbles :
          \/ TurnSpeaks(bubbles[i].turn)
          \/ \E j \in DOMAIN pipe' : pipe'[j].kind = "task_event"
    BY <1>7, <1>10
  <2>5. \A i \in DOMAIN bubbles' :
          \/ TurnSpeaks(bubbles'[i].turn)
          \/ \E j \in DOMAIN pipe' : pipe'[j].kind = "task_event"
    BY <2>2, <2>3, <2>4
  <2> QED
    BY <1>3, <1>6, <1>10, <2>5
<1>11. CASE seen = Gone /\ f.kind # "task" /\ UNCHANGED <<seen, events, bubbles>>
  <2>1. bubbles' = <<>>
    BY <1>11 DEF LiveInv
  <2> QED
    BY <1>6, <2>1
<1> QED
  BY <1>8, <1>9, <1>10, <1>11, RecordTypes DEF AnyBoard!Receive, AnyBoard!board, f

\* The connection and the request leave the live messages as they are.
LEMMA FetchLive ==
  ASSUME BoardInv, LiveInv,
         AnyBoard!Connect \/ AnyBoard!OpenConversation \/ AnyBoard!Answered
  PROVE  LiveInv'
<1> USE DEF BoardInv, BoardTyped, AnyBoard!server, AnyBoard!fetch, AnyBoard!board
<1>1. CASE AnyBoard!Connect
  <2>1. /\ link' = TRUE /\ ~ link /\ UNCHANGED <<boardRecord, journal, bubbles>>
        /\ pipe' = IF boardRecord = Gone THEN <<>> ELSE <<AnyBoard!Frame("task", boardRecord)>>
    BY <1>1, RecordTypes DEF AnyBoard!Connect, AnyBoard!Replay
  <2>2. \A i \in DOMAIN pipe' : pipe'[i].kind = "task"
    BY <2>1, FrameTypes
  <2> QED
    BY <2>1, <2>2 DEF LiveInv
<1>2. CASE AnyBoard!OpenConversation \/ AnyBoard!Answered
  <2>1. UNCHANGED <<boardRecord, journal, link, pipe, seen, bubbles>>
    BY <1>2 DEF AnyBoard!OpenConversation, AnyBoard!Answered
  <2> QED
    BY <2>1 DEF LiveInv, TurnSpeaks
<1> QED
  BY <1>1, <1>2

\* An answer that is merged leaves the live messages, or takes them away.
LEMMA HydrateLive ==
  ASSUME BoardInv, LiveInv, NEW a \in answers, AnyBoard!Hydrate(a)
  PROVE  LiveInv'
<1>1. UNCHANGED <<boardRecord, journal, link, pipe>>
  BY DEF AnyBoard!Hydrate, AnyBoard!server
<1>2. seen' \in TaskRecords /\ bubbles' \in {bubbles, <<>>}
  BY AnswerShown
<1>3. seen' # Gone
  BY <1>2, RecordTypes
<1>4. CASE bubbles' = bubbles
  BY <1>1, <1>3, <1>4 DEF LiveInv, TurnSpeaks
<1>5. CASE bubbles' = <<>>
  BY <1>1, <1>5 DEF LiveInv, TurnSpeaks
<1> QED
  BY <1>2, <1>4, <1>5

-----------------------------------------------------------------------------
(***************************************************************************)
(* A board with no conversation open, whose stream may be cut.             *)
(***************************************************************************)

\* The record the server has is the last one that was told.
RecordTold ==
  \/ \E i \in DOMAIN pipe :
       /\ pipe[i].kind = "task" /\ pipe[i].what = boardRecord
       /\ \A j \in DOMAIN pipe : i < j => pipe[j].kind # "task"
  \/ seen = boardRecord /\ \A i \in DOMAIN pipe : pipe[i].kind # "task"

\* A message is newer than every event before it, and its turn's reply is none of
\* them.
ClosedInv ==
  /\ asked = 0 /\ answers = {} /\ boardRecord # Gone
  /\ link => RecordTold
  /\ \A i \in DOMAIN bubbles : \A n \in Seqs(events) : n < 2 * bubbles[i].turn
  /\ \A i \in DOMAIN pipe : pipe[i].kind = "task_text" =>
       /\ \A n \in Seqs(events) : n < 2 * pipe[i].what.turn
       /\ \A j \in DOMAIN pipe :
            j < i /\ pipe[j].kind = "task_event" => pipe[j].what < 2 * pipe[i].what.turn

\* Every change of a record is the last record in the stream.
LEMMA ServerClosed ==
  ASSUME BoardInv, ClosedInv, ServerSteps
  PROVE  ClosedInv'
<1> USE DEF BoardInv, BoardTyped, AnyBoard!Emit, AnyBoard!fetch, AnyBoard!board
<1>0. /\ journal \in Nat /\ link \in BOOLEAN /\ pipe \in Seq(Frames)
      /\ boardRecord \in TaskRecords /\ boardRecord.turn \in Nat
      /\ boardRecord.status \in {"waiting", "running"}
  BY RecordTypes DEF ServerSteps, AnyBoard!Launch, AnyBoard!TurnStarted, AnyBoard!Says,
     AnyBoard!Speaks, AnyBoard!TurnEnds
<1>1. ASSUME NEW f \in Frames, pipe' = IF link THEN Append(pipe, f) ELSE pipe,
             UNCHANGED <<link, asked, answers, seen, events, bubbles>>,
             boardRecord' \in TaskRecords,
             \/ f.kind = "task" /\ f.what = boardRecord'
             \/ f.kind = "task_event" /\ UNCHANGED boardRecord
             \/ /\ f.kind = "task_text" /\ UNCHANGED boardRecord
                /\ f.what \in Texts /\ journal < 2 * f.what.turn
      PROVE  ClosedInv'
  <2>1. /\ pipe' \in Seq(Frames) /\ DOMAIN pipe \subseteq DOMAIN pipe'
        /\ \A i \in DOMAIN pipe : pipe'[i] = pipe[i]
        /\ \A i \in DOMAIN pipe' : i \in DOMAIN pipe
                                   \/ (link /\ pipe'[i] = f /\ \A j \in DOMAIN pipe : j < i)
        /\ link => Len(pipe) + 1 \in DOMAIN pipe' /\ pipe'[Len(pipe) + 1] = f
        /\ DOMAIN pipe \subseteq Nat /\ DOMAIN pipe' \subseteq Nat
    <3>1. pipe' \in Seq(Frames)
      BY <1>0, <1>1, Emitted
    <3>2. DOMAIN pipe \subseteq Nat /\ DOMAIN pipe' \subseteq Nat
      BY <1>0, <3>1
    <3> QED
      BY <1>0, <1>1, <3>2, Emitted
  <2>2. boardRecord' # Gone /\ asked' = 0 /\ answers' = {}
    BY <1>1, RecordTypes DEF ClosedInv
  <2>3. ASSUME link PROVE RecordTold'
    <3>1. CASE f.kind = "task"
      <4> DEFINE k == Len(pipe) + 1
      <4>1. k \in DOMAIN pipe' /\ pipe'[k] = f
        BY <2>1, <2>3
      <4>2. \A j \in DOMAIN pipe' : ~ (k < j)
        <5>1. Len(pipe) \in Nat /\ DOMAIN pipe' = 1 .. Len(pipe') /\ Len(pipe') = Len(pipe) + 1
          BY <1>0, <1>1, <2>1, <2>3, Emitted
        <5> QED
          BY <5>1
      <4>3. f.what = boardRecord'
        BY <1>1, <3>1
      <4> HIDE DEF k
      <4> QED
        BY <3>1, <4>1, <4>2, <4>3 DEF RecordTold
    <3>2. CASE f.kind # "task"
      <4>1. boardRecord' = boardRecord /\ seen' = seen /\ RecordTold
        BY <1>1, <2>3, <3>2 DEF ClosedInv
      <4>2. CASE seen = boardRecord /\ \A i \in DOMAIN pipe : pipe[i].kind # "task"
        BY <2>1, <3>2, <4>1, <4>2 DEF RecordTold
      <4>3. CASE \E i \in DOMAIN pipe :
                   /\ pipe[i].kind = "task" /\ pipe[i].what = boardRecord
                   /\ \A j \in DOMAIN pipe : i < j => pipe[j].kind # "task"
        <5>1. PICK i \in DOMAIN pipe :
                   /\ pipe[i].kind = "task" /\ pipe[i].what = boardRecord
                   /\ \A j \in DOMAIN pipe : i < j => pipe[j].kind # "task"
          BY <4>3
        <5>2. \A j \in DOMAIN pipe' : i < j => pipe'[j].kind # "task"
          BY <2>1, <3>2, <5>1
        <5> QED
          BY <2>1, <4>1, <5>1, <5>2 DEF RecordTold
      <4> QED
        BY <4>1, <4>2, <4>3 DEF RecordTold
    <3> QED
      BY <3>1, <3>2
  <2>4. Seqs(events)' = Seqs(events) /\ bubbles' = bubbles
    BY <1>1 DEF Seqs
  <2>5. ASSUME NEW i \in DOMAIN pipe', pipe'[i].kind = "task_text"
        PROVE  /\ \A n \in Seqs(events) : n < 2 * pipe'[i].what.turn
               /\ \A j \in DOMAIN pipe' : j < i /\ pipe'[j].kind = "task_event" =>
                    pipe'[j].what < 2 * pipe'[i].what.turn
    <3>1. CASE i \in DOMAIN pipe
      <4>1. pipe'[i] = pipe[i] /\ \A j \in DOMAIN pipe' : j < i => j \in DOMAIN pipe
            /\ pipe'[j] = pipe[j]
        BY <2>1, <3>1
      <4> QED
        BY <2>5, <3>1, <4>1 DEF ClosedInv
    <3>2. CASE pipe'[i] = f /\ \A j \in DOMAIN pipe : j < i
      <4>1. f.what.turn \in Nat /\ journal < 2 * f.what.turn /\ pipe'[i].what.turn = f.what.turn
        BY <1>1, <2>5, <3>2 DEF Texts
      <4>2. \A m \in 1 .. journal : m < 2 * f.what.turn
        BY <1>0, <4>1
      <4>3. \A n \in Seqs(events) : n < 2 * f.what.turn
        BY <4>2 DEF NothingAhead
      <4>4. ASSUME NEW j \in DOMAIN pipe', j < i, pipe'[j].kind = "task_event"
            PROVE  pipe'[j].what < 2 * f.what.turn
        <5>1. pipe'[j] # f
          BY <2>5, <3>2, <4>4
        <5>2. j \in DOMAIN pipe /\ pipe[j].kind = "task_event" /\ pipe[j] = pipe'[j]
          BY <2>1, <4>4, <5>1
        <5> QED
          BY <4>2, <5>2 DEF NothingAhead
      <4> QED
        BY <3>2, <4>3, <4>4
    <3> QED
      BY <2>1, <3>1, <3>2
  <2> QED
    BY <1>1, <2>2, <2>3, <2>4, <2>5 DEF ClosedInv
<1>2. CASE AnyBoard!Launch \/ AnyBoard!TurnEnds
  <2>1. /\ UNCHANGED <<link, asked, answers, seen, events, bubbles>>
        /\ pipe' = IF link THEN Append(pipe, AnyBoard!Frame("task", boardRecord')) ELSE pipe
    BY <1>2 DEF AnyBoard!Launch, AnyBoard!TurnEnds
  <2>2. boardRecord' \in TaskRecords
    BY <1>0, <1>2, RecordTypes DEF AnyBoard!Launch, AnyBoard!TurnEnds
  <2>3. /\ AnyBoard!Frame("task", boardRecord') \in Frames
        /\ AnyBoard!Frame("task", boardRecord').kind = "task"
        /\ AnyBoard!Frame("task", boardRecord').what = boardRecord'
    BY <2>2, FrameTypes
  <2> QED
    BY <1>1, <2>1, <2>2, <2>3
<1>3. CASE AnyBoard!TurnStarted \/ AnyBoard!Speaks
  <2>1. /\ UNCHANGED <<boardRecord, link, asked, answers, seen, events, bubbles>>
        /\ journal' = journal + 1
        /\ pipe' = IF link THEN Append(pipe, AnyBoard!Frame("task_event", journal')) ELSE pipe
    BY <1>3 DEF AnyBoard!TurnStarted, AnyBoard!Speaks
  <2>2. /\ AnyBoard!Frame("task_event", journal') \in Frames
        /\ AnyBoard!Frame("task_event", journal').kind = "task_event"
    BY <1>0, <2>1, FrameTypes
  <2> QED
    BY <1>0, <1>1, <2>1, <2>2
<1>4. CASE AnyBoard!Says
  <2> DEFINE t == [turn |-> boardRecord.turn, seq |-> said']
  <2>1. /\ UNCHANGED <<boardRecord, link, asked, answers, seen, events, bubbles>>
        /\ pipe' = IF link THEN Append(pipe, AnyBoard!Frame("task_text", t)) ELSE pipe
        /\ t \in Texts /\ journal < 2 * t.turn
    BY <1>0, <1>4 DEF AnyBoard!Says, Texts
  <2> HIDE DEF t
  <2>2. /\ AnyBoard!Frame("task_text", t) \in Frames
        /\ AnyBoard!Frame("task_text", t).kind = "task_text"
        /\ AnyBoard!Frame("task_text", t).what = t
    BY <2>1, FrameTypes
  <2> QED
    BY <1>0, <1>1, <2>1, <2>2
<1> QED
  BY <1>2, <1>3, <1>4 DEF ServerSteps

\* A frame that is read leaves the last record in the stream, or on the screen.
LEMMA ReceiveClosed ==
  ASSUME BoardInv, ClosedInv, AnyBoard!Receive
  PROVE  ClosedInv'
<1> USE DEF BoardInv, BoardTyped
<1> DEFINE f == Head(pipe)
<1>1. /\ pipe # <<>> /\ pipe' = Tail(pipe)
      /\ UNCHANGED <<boardRecord, journal, link, asked, answers>>
  BY DEF AnyBoard!Receive, AnyBoard!server, AnyBoard!fetch
<1>2. /\ 1 \in DOMAIN pipe /\ f = pipe[1] /\ f \in Frames
      /\ \A i \in DOMAIN pipe' : i + 1 \in DOMAIN pipe /\ pipe'[i] = pipe[i + 1]
      /\ \A i \in DOMAIN pipe : i = 1 \/ (i - 1 \in DOMAIN pipe' /\ pipe'[i - 1] = pipe[i])
      /\ DOMAIN pipe \subseteq Nat \ {0} /\ DOMAIN pipe' \subseteq Nat \ {0}
  <2>1. pipe' \in Seq(Frames) /\ pipe \in Seq(Frames)
    BY <1>1, Taken
  <2>2. DOMAIN pipe \subseteq Nat \ {0} /\ DOMAIN pipe' \subseteq Nat \ {0}
    BY <2>1
  <2> QED
    BY <1>1, <2>2, Taken
<1>3. link
  BY <1>1
<1> HIDE DEF f
<1>4. f.kind = "task" => seen' = f.what /\ bubbles' \in {bubbles, <<>>} /\ events' = events
  BY <1>2, FrameTypes DEF AnyBoard!Receive, AnyBoard!Upsert, f
<1>5. f.kind # "task" => UNCHANGED seen
  BY DEF AnyBoard!Receive, AnyBoard!OnEvent, AnyBoard!board, f
<1>6. RecordTold'
  <2>1. CASE \E i \in DOMAIN pipe :
               /\ pipe[i].kind = "task" /\ pipe[i].what = boardRecord
               /\ \A j \in DOMAIN pipe : i < j => pipe[j].kind # "task"
    <3>1. PICK i \in DOMAIN pipe :
               /\ pipe[i].kind = "task" /\ pipe[i].what = boardRecord
               /\ \A j \in DOMAIN pipe : i < j => pipe[j].kind # "task"
      BY <2>1
    <3>2. CASE i = 1
      <4>1. seen' = boardRecord'
        BY <1>1, <1>2, <1>4, <3>1, <3>2
      <4>2. \A j \in DOMAIN pipe' : pipe'[j].kind # "task"
        <5> TAKE j \in DOMAIN pipe'
        <5>1. j + 1 \in DOMAIN pipe /\ i < j + 1 /\ pipe'[j] = pipe[j + 1]
          BY <1>2, <3>2
        <5> QED
          BY <3>1, <5>1
      <4> QED
        BY <4>1, <4>2 DEF RecordTold
    <3>3. CASE i # 1
      <4>1. i - 1 \in DOMAIN pipe' /\ pipe'[i - 1] = pipe[i]
        BY <1>2, <3>3
      <4>2. \A j \in DOMAIN pipe' : i - 1 < j => pipe'[j].kind # "task"
        <5> SUFFICES ASSUME NEW j \in DOMAIN pipe', i - 1 < j PROVE pipe'[j].kind # "task"
          OBVIOUS
        <5>1. j + 1 \in DOMAIN pipe /\ i < j + 1 /\ pipe'[j] = pipe[j + 1]
          BY <1>2
        <5> QED
          BY <3>1, <5>1
      <4> QED
        BY <1>1, <3>1, <4>1, <4>2 DEF RecordTold
    <3> QED
      BY <3>2, <3>3
  <2>2. CASE seen = boardRecord /\ \A i \in DOMAIN pipe : pipe[i].kind # "task"
    <3>1. seen' = boardRecord'
      BY <1>1, <1>2, <1>5, <2>2
    <3>2. \A j \in DOMAIN pipe' : pipe'[j].kind # "task"
      BY <1>2, <2>2
    <3> QED
      BY <3>1, <3>2 DEF RecordTold
  <2> QED
    BY <1>3, <2>1, <2>2 DEF ClosedInv, RecordTold
<1>7. Seqs(events') = Seqs(events) \/ (f.kind = "task_event"
      /\ Seqs(events') = Seqs(events) \cup {f.what})
  <2>1. CASE f.kind = "task_event" /\ AnyBoard!OnEvent(f.what)
    <3>1. f.what \in 1 .. journal
      BY <1>2, <2>1 DEF NothingAhead
    <3> QED
      BY <2>1, <3>1, EventShown
  <2>2. CASE ~ (f.kind = "task_event" /\ AnyBoard!OnEvent(f.what))
    <3>1. events' = events
      BY <2>2 DEF AnyBoard!Receive, AnyBoard!board, f
    <3> QED
      BY <3>1
  <2> QED
    BY <2>1, <2>2
<1>8. ASSUME NEW i \in DOMAIN pipe', pipe'[i].kind = "task_text"
      PROVE  /\ \A n \in Seqs(events') : n < 2 * pipe'[i].what.turn
             /\ \A j \in DOMAIN pipe' : j < i /\ pipe'[j].kind = "task_event" =>
                  pipe'[j].what < 2 * pipe'[i].what.turn
  <2>1. /\ i + 1 \in DOMAIN pipe /\ pipe[i + 1] = pipe'[i] /\ pipe[i + 1].kind = "task_text"
        /\ i \in Nat \ {0} /\ 1 < i + 1
    BY <1>2, <1>8
  <2>2. f.kind = "task_event" => f.what < 2 * pipe'[i].what.turn
    BY <1>2, <2>1 DEF ClosedInv
  <2>3. \A n \in Seqs(events) : n < 2 * pipe'[i].what.turn
    BY <2>1 DEF ClosedInv
  <2>4. ASSUME NEW j \in DOMAIN pipe', j < i, pipe'[j].kind = "task_event"
        PROVE  pipe'[j].what < 2 * pipe'[i].what.turn
    <3>1. j + 1 \in DOMAIN pipe /\ pipe[j + 1] = pipe'[j] /\ j + 1 < i + 1
      BY <1>2, <2>1, <2>4
    <3> QED
      BY <2>1, <2>4, <3>1 DEF ClosedInv
  <2> QED
    BY <1>7, <2>2, <2>3, <2>4
<1>9. \A i \in DOMAIN bubbles' : \A n \in Seqs(events') : n < 2 * bubbles'[i].turn
  <2>1. CASE bubbles' = <<>>
    BY <2>1
  <2>2. CASE bubbles' = bubbles /\ events' = events
    BY <2>2 DEF ClosedInv
  <2>3. CASE f.kind = "task_text" /\ bubbles' = AnyBoard!MergeBySeq(bubbles, f.what)
        /\ events' = events
    <3>1. IsMerge(bubbles', bubbles, f.what, Texts)
      BY <1>2, <2>3, FrameTypes, TextShown
    <3>2. \A i \in DOMAIN bubbles' : bubbles'[i] = f.what
          \/ \E j \in DOMAIN bubbles : bubbles'[i] = bubbles[j]
      BY <3>1 DEF IsMerge
    <3>3. \A n \in Seqs(events') : n < 2 * f.what.turn
      BY <1>2, <2>3 DEF ClosedInv
    <3>4. \A i \in DOMAIN bubbles : \A n \in Seqs(events') : n < 2 * bubbles[i].turn
      BY <2>3 DEF ClosedInv
    <3> QED
      BY <3>2, <3>3, <3>4
  <2> QED
    BY <1>4, <2>1, <2>2, <2>3
    DEF AnyBoard!Receive, AnyBoard!OnEvent, AnyBoard!SettlesLiveMessages, AnyBoard!board, f
<1>10. Seqs(events)' = Seqs(events')
  BY DEF Seqs
<1> QED
  BY <1>1, <1>6, <1>8, <1>9, <1>10 DEF ClosedInv

\* A stream that is opened again starts with the record.
LEMMA LinkClosed ==
  ASSUME BoardInv, ClosedInv, ClosedBoard!Connect \/ AnyBoard!Drop
  PROVE  ClosedInv'
<1> USE DEF BoardInv, BoardTyped
<1>0. /\ UNCHANGED <<boardRecord, asked, answers, seen, events, bubbles>>
  BY
     DEF ClosedInv, AnyBoard!Drop, ClosedBoard!Connect, ClosedBoard!Hydration, AnyBoard!server,
         AnyBoard!fetch,
     AnyBoard!board, ClosedBoard!server, ClosedBoard!board
<1>1. Seqs(events)' = Seqs(events)
  BY <1>0 DEF Seqs
<1>2. CASE ClosedBoard!Connect
  <2>1. pipe' = <<AnyBoard!Frame("task", boardRecord)>>
    BY <1>2, RecordTypes
    DEF ClosedInv, ClosedBoard!Connect, ClosedBoard!Replay, ClosedBoard!Absent, AnyBoard!Absent,
        ClosedBoard!Frame, AnyBoard!Frame
  <2>2. /\ DOMAIN pipe' = {1} /\ pipe'[1].kind = "task" /\ pipe'[1].what = boardRecord
    BY <2>1, FrameTypes
  <2>3. RecordTold'
    BY <1>0, <2>2 DEF RecordTold
  <2> QED
    BY <1>0, <1>1, <2>2, <2>3 DEF ClosedInv
<1>3. CASE AnyBoard!Drop
  <2>1. link' = FALSE /\ DOMAIN pipe' = {}
    BY <1>3 DEF AnyBoard!Drop
  <2> QED
    BY <1>0, <1>1, <2>1 DEF ClosedInv
<1> QED
  BY <1>2, <1>3

-----------------------------------------------------------------------------
(***************************************************************************)
(* The boards take steps of the one above.                                 *)
(***************************************************************************)

\* What moves a board whose stream stays up.
SteadySteps ==
  \/ ServerSteps \/ AnyBoard!Connect \/ AnyBoard!OpenConversation \/ AnyBoard!Answered
  \/ AnyBoard!Receive \/ \E answer \in answers : AnyBoard!Hydrate(answer)

\* The board whose stream stays up takes steps of the one above.
LEMMA BoardIsAny ==
  ASSUME BoardInv, Board!Next
  PROVE  AnyBoard!Next /\ SteadySteps
<1>0. /\ boardRecord \in TaskRecords \cup {Gone} /\ journal \in Nat /\ said \in Nat
      /\ boardRecord.turn \in Nat
      /\ {BoardTurns, BoardSaid, CutSaid, PurgedTurns} \subseteq Nat
  <2>1. /\ {BoardTurns, BoardSaid} \subseteq Nat /\ {CutSaid, PurgedTurns} \subseteq Nat
    BY PartsAreSound
    DEF Board!ParametersAreSound, CutBoard!ParametersAreSound, PurgedBoard!ParametersAreSound
  <2>2. /\ boardRecord \in TaskRecords \cup {Gone} /\ journal \in Nat /\ said \in Nat
    BY DEF BoardInv, BoardTyped
  <2>3. boardRecord.turn \in Nat
    BY <2>2, RecordTypes DEF Gone
  <2> QED
    BY <2>1, <2>2, <2>3
<1> USE DEF Board!Room, Board!Emit, Board!Frame, Board!fetch, Board!board, Board!server,
        AnyBoard!Room, AnyBoard!Emit, AnyBoard!Frame, AnyBoard!fetch, AnyBoard!board,
        AnyBoard!server
<1>1. Board!Launch => AnyBoard!Launch
  BY <1>0 DEF Board!Launch, AnyBoard!Launch
<1>2. Board!TurnStarted => AnyBoard!TurnStarted
  BY DEF Board!TurnStarted, AnyBoard!TurnStarted
<1>3. Board!Says => AnyBoard!Says
  BY <1>0 DEF Board!Says, AnyBoard!Says
<1>4. Board!Speaks => AnyBoard!Speaks
  BY DEF Board!Speaks, AnyBoard!Speaks
<1>5. Board!TurnEnds => AnyBoard!TurnEnds
  BY DEF Board!TurnEnds, AnyBoard!TurnEnds
<1>6. Board!Connect => AnyBoard!Connect
  BY DEF Board!Connect, AnyBoard!Connect, Board!Hydration, AnyBoard!Hydration,
     Board!Replay, AnyBoard!Replay, Board!Absent, AnyBoard!Absent
<1>7. Board!OpenConversation => AnyBoard!OpenConversation
  BY DEF Board!OpenConversation, AnyBoard!OpenConversation
<1>8. Board!Answered => AnyBoard!Answered
  BY DEF Board!Answered, AnyBoard!Answered, Board!Absent, AnyBoard!Absent
<1>9. Board!Receive => AnyBoard!Receive
  <2>1. \A s, x : Board!MergeBySeq(s, x) = AnyBoard!MergeBySeq(s, x)
    BY DEF Board!MergeBySeq, AnyBoard!MergeBySeq, Board!InsertAt, AnyBoard!InsertAt
  <2> QED
    BY <2>1
    DEF Board!Receive, AnyBoard!Receive, Board!OnEvent, AnyBoard!OnEvent, Board!Upsert,
        AnyBoard!Upsert, Board!SettlesLiveMessages, AnyBoard!SettlesLiveMessages,
        Board!KeepsLiveMessages, AnyBoard!KeepsLiveMessages, Board!Absent, AnyBoard!Absent
<1>10. \A answer \in answers : Board!Hydrate(answer) => AnyBoard!Hydrate(answer)
  <2>1. \A s, e : Board!FoldLeft(Board!MergeBySeq, s, e)
         = AnyBoard!FoldLeft(AnyBoard!MergeBySeq, s, e)
    <3> TAKE s, e
    <3> QED
      BY DEF Board!FoldLeft, AnyBoard!FoldLeft, Board!MapThenFoldSet, AnyBoard!MapThenFoldSet,
             Board!Max, AnyBoard!Max, Board!MergeBySeq, AnyBoard!MergeBySeq,
             Board!InsertAt, AnyBoard!InsertAt
  <2>2. ASSUME NEW answer \in answers, Board!Hydrate(answer) PROVE AnyBoard!Hydrate(answer)
    <3> DEFINE e == [i \in 1 .. answer.journal |-> [seq |-> i]]
    <3>1. Board!FoldLeft(Board!MergeBySeq, events, e)
           = AnyBoard!FoldLeft(AnyBoard!MergeBySeq, events, e)
      BY <2>1
    <3> QED
      BY <2>2, <3>1
      DEF Board!Hydrate, AnyBoard!Hydrate, Board!Upsert, AnyBoard!Upsert,
          Board!KeepsLiveMessages, AnyBoard!KeepsLiveMessages
  <2> QED
    BY <2>2
<1>11. Board!Drop => AnyBoard!Drop
  BY DEF Board!Drop, AnyBoard!Drop
<1>12. Board!Purge => AnyBoard!Purge
  BY DEF Board!Purge, AnyBoard!Purge, Board!Absent, AnyBoard!Absent
<1> QED
  BY <1>1, <1>2, <1>3, <1>4, <1>5, <1>6, <1>7, <1>8, <1>9, <1>10, <1>11, <1>12
  DEF Board!Next, AnyBoard!Next, SteadySteps, ServerSteps, Board!Drop, Board!Purge

\* The board whose stream is cut takes steps of the one above.
LEMMA CutBoardIsAny ==
  ASSUME BoardInv, CutBoard!Next
  PROVE  AnyBoard!Next
<1>0. /\ boardRecord \in TaskRecords \cup {Gone} /\ journal \in Nat /\ said \in Nat
      /\ boardRecord.turn \in Nat
      /\ {BoardTurns, BoardSaid, CutSaid, PurgedTurns} \subseteq Nat
  <2>1. /\ {BoardTurns, BoardSaid} \subseteq Nat /\ {CutSaid, PurgedTurns} \subseteq Nat
    BY PartsAreSound
    DEF Board!ParametersAreSound, CutBoard!ParametersAreSound, PurgedBoard!ParametersAreSound
  <2>2. /\ boardRecord \in TaskRecords \cup {Gone} /\ journal \in Nat /\ said \in Nat
    BY DEF BoardInv, BoardTyped
  <2>3. boardRecord.turn \in Nat
    BY <2>2, RecordTypes DEF Gone
  <2> QED
    BY <2>1, <2>2, <2>3
<1> USE DEF CutBoard!Room, CutBoard!Emit, CutBoard!Frame, CutBoard!fetch, CutBoard!board,
        CutBoard!server,
        AnyBoard!Room, AnyBoard!Emit, AnyBoard!Frame, AnyBoard!fetch, AnyBoard!board,
        AnyBoard!server
<1>1. CutBoard!Launch => AnyBoard!Launch
  BY <1>0 DEF CutBoard!Launch, AnyBoard!Launch
<1>2. CutBoard!TurnStarted => AnyBoard!TurnStarted
  BY DEF CutBoard!TurnStarted, AnyBoard!TurnStarted
<1>3. CutBoard!Says => AnyBoard!Says
  BY <1>0 DEF CutBoard!Says, AnyBoard!Says
<1>4. CutBoard!Speaks => AnyBoard!Speaks
  BY DEF CutBoard!Speaks, AnyBoard!Speaks
<1>5. CutBoard!TurnEnds => AnyBoard!TurnEnds
  BY DEF CutBoard!TurnEnds, AnyBoard!TurnEnds
<1>6. CutBoard!Connect => AnyBoard!Connect
  BY DEF CutBoard!Connect, AnyBoard!Connect, CutBoard!Hydration, AnyBoard!Hydration,
     CutBoard!Replay, AnyBoard!Replay, CutBoard!Absent, AnyBoard!Absent
<1>7. CutBoard!OpenConversation => AnyBoard!OpenConversation
  BY DEF CutBoard!OpenConversation, AnyBoard!OpenConversation
<1>8. CutBoard!Answered => AnyBoard!Answered
  BY DEF CutBoard!Answered, AnyBoard!Answered, CutBoard!Absent, AnyBoard!Absent
<1>9. CutBoard!Receive => AnyBoard!Receive
  <2>1. \A s, x : CutBoard!MergeBySeq(s, x) = AnyBoard!MergeBySeq(s, x)
    BY DEF CutBoard!MergeBySeq, AnyBoard!MergeBySeq, CutBoard!InsertAt, AnyBoard!InsertAt
  <2> QED
    BY <2>1
    DEF CutBoard!Receive, AnyBoard!Receive, CutBoard!OnEvent, AnyBoard!OnEvent, CutBoard!Upsert,
        AnyBoard!Upsert, CutBoard!SettlesLiveMessages, AnyBoard!SettlesLiveMessages,
        CutBoard!KeepsLiveMessages, AnyBoard!KeepsLiveMessages, CutBoard!Absent, AnyBoard!Absent
<1>10. \A answer \in answers : CutBoard!Hydrate(answer) => AnyBoard!Hydrate(answer)
  <2>1. \A s, e : CutBoard!FoldLeft(CutBoard!MergeBySeq, s, e)
         = AnyBoard!FoldLeft(AnyBoard!MergeBySeq, s, e)
    <3> TAKE s, e
    <3> QED
      BY
         DEF CutBoard!FoldLeft, AnyBoard!FoldLeft, CutBoard!MapThenFoldSet,
             AnyBoard!MapThenFoldSet,
             CutBoard!Max, AnyBoard!Max, CutBoard!MergeBySeq, AnyBoard!MergeBySeq,
             CutBoard!InsertAt, AnyBoard!InsertAt
  <2>2. ASSUME NEW answer \in answers, CutBoard!Hydrate(answer) PROVE AnyBoard!Hydrate(answer)
    <3> DEFINE e == [i \in 1 .. answer.journal |-> [seq |-> i]]
    <3>1. CutBoard!FoldLeft(CutBoard!MergeBySeq, events, e)
           = AnyBoard!FoldLeft(AnyBoard!MergeBySeq, events, e)
      BY <2>1
    <3> QED
      BY <2>2, <3>1
      DEF CutBoard!Hydrate, AnyBoard!Hydrate, CutBoard!Upsert, AnyBoard!Upsert,
          CutBoard!KeepsLiveMessages, AnyBoard!KeepsLiveMessages
  <2> QED
    BY <2>2
<1>11. CutBoard!Drop => AnyBoard!Drop
  BY DEF CutBoard!Drop, AnyBoard!Drop
<1>12. CutBoard!Purge => AnyBoard!Purge
  BY DEF CutBoard!Purge, AnyBoard!Purge, CutBoard!Absent, AnyBoard!Absent
<1> QED
  BY <1>1, <1>2, <1>3, <1>4, <1>5, <1>6, <1>7, <1>8, <1>9, <1>10, <1>11, <1>12
  DEF CutBoard!Next, AnyBoard!Next

\* The board whose task is purged takes steps of the one above.
LEMMA PurgedBoardIsAny ==
  ASSUME BoardInv, PurgedBoard!Next
  PROVE  AnyBoard!Next
<1>0. /\ boardRecord \in TaskRecords \cup {Gone} /\ journal \in Nat /\ said \in Nat
      /\ boardRecord.turn \in Nat
      /\ {BoardTurns, BoardSaid, CutSaid, PurgedTurns} \subseteq Nat
  <2>1. /\ {BoardTurns, BoardSaid} \subseteq Nat /\ {CutSaid, PurgedTurns} \subseteq Nat
    BY PartsAreSound
    DEF Board!ParametersAreSound, CutBoard!ParametersAreSound, PurgedBoard!ParametersAreSound
  <2>2. /\ boardRecord \in TaskRecords \cup {Gone} /\ journal \in Nat /\ said \in Nat
    BY DEF BoardInv, BoardTyped
  <2>3. boardRecord.turn \in Nat
    BY <2>2, RecordTypes DEF Gone
  <2> QED
    BY <2>1, <2>2, <2>3
<1> USE DEF PurgedBoard!Room, PurgedBoard!Emit, PurgedBoard!Frame, PurgedBoard!fetch,
        PurgedBoard!board, PurgedBoard!server,
        AnyBoard!Room, AnyBoard!Emit, AnyBoard!Frame, AnyBoard!fetch, AnyBoard!board,
        AnyBoard!server
<1>1. PurgedBoard!Launch => AnyBoard!Launch
  BY <1>0 DEF PurgedBoard!Launch, AnyBoard!Launch
<1>2. PurgedBoard!TurnStarted => AnyBoard!TurnStarted
  BY DEF PurgedBoard!TurnStarted, AnyBoard!TurnStarted
<1>3. PurgedBoard!Says => AnyBoard!Says
  BY <1>0 DEF PurgedBoard!Says, AnyBoard!Says
<1>4. PurgedBoard!Speaks => AnyBoard!Speaks
  BY DEF PurgedBoard!Speaks, AnyBoard!Speaks
<1>5. PurgedBoard!TurnEnds => AnyBoard!TurnEnds
  BY DEF PurgedBoard!TurnEnds, AnyBoard!TurnEnds
<1>6. PurgedBoard!Connect => AnyBoard!Connect
  BY DEF PurgedBoard!Connect, AnyBoard!Connect, PurgedBoard!Hydration, AnyBoard!Hydration,
     PurgedBoard!Replay, AnyBoard!Replay, PurgedBoard!Absent, AnyBoard!Absent
<1>7. PurgedBoard!OpenConversation => AnyBoard!OpenConversation
  BY DEF PurgedBoard!OpenConversation, AnyBoard!OpenConversation
<1>8. PurgedBoard!Answered => AnyBoard!Answered
  BY DEF PurgedBoard!Answered, AnyBoard!Answered, PurgedBoard!Absent, AnyBoard!Absent
<1>9. PurgedBoard!Receive => AnyBoard!Receive
  <2>1. \A s, x : PurgedBoard!MergeBySeq(s, x) = AnyBoard!MergeBySeq(s, x)
    BY DEF PurgedBoard!MergeBySeq, AnyBoard!MergeBySeq, PurgedBoard!InsertAt, AnyBoard!InsertAt
  <2> QED
    BY <2>1
    DEF PurgedBoard!Receive, AnyBoard!Receive, PurgedBoard!OnEvent, AnyBoard!OnEvent,
        PurgedBoard!Upsert,
        AnyBoard!Upsert, PurgedBoard!SettlesLiveMessages, AnyBoard!SettlesLiveMessages,
        PurgedBoard!KeepsLiveMessages, AnyBoard!KeepsLiveMessages, PurgedBoard!Absent,
        AnyBoard!Absent
<1>10. \A answer \in answers : PurgedBoard!Hydrate(answer) => AnyBoard!Hydrate(answer)
  <2>1. \A s, e : PurgedBoard!FoldLeft(PurgedBoard!MergeBySeq, s, e)
         = AnyBoard!FoldLeft(AnyBoard!MergeBySeq, s, e)
    <3> TAKE s, e
    <3> QED
      BY
         DEF PurgedBoard!FoldLeft, AnyBoard!FoldLeft, PurgedBoard!MapThenFoldSet,
             AnyBoard!MapThenFoldSet,
             PurgedBoard!Max, AnyBoard!Max, PurgedBoard!MergeBySeq, AnyBoard!MergeBySeq,
             PurgedBoard!InsertAt, AnyBoard!InsertAt
  <2>2. ASSUME NEW answer \in answers, PurgedBoard!Hydrate(answer) PROVE AnyBoard!Hydrate(answer)
    <3> DEFINE e == [i \in 1 .. answer.journal |-> [seq |-> i]]
    <3>1. PurgedBoard!FoldLeft(PurgedBoard!MergeBySeq, events, e)
           = AnyBoard!FoldLeft(AnyBoard!MergeBySeq, events, e)
      BY <2>1
    <3> QED
      BY <2>2, <3>1
      DEF PurgedBoard!Hydrate, AnyBoard!Hydrate, PurgedBoard!Upsert, AnyBoard!Upsert,
          PurgedBoard!KeepsLiveMessages, AnyBoard!KeepsLiveMessages
  <2> QED
    BY <2>2
<1>11. PurgedBoard!Drop => AnyBoard!Drop
  BY DEF PurgedBoard!Drop, AnyBoard!Drop
<1>12. PurgedBoard!Purge => AnyBoard!Purge
  BY DEF PurgedBoard!Purge, AnyBoard!Purge, PurgedBoard!Absent, AnyBoard!Absent
<1> QED
  BY <1>1, <1>2, <1>3, <1>4, <1>5, <1>6, <1>7, <1>8, <1>9, <1>10, <1>11, <1>12
  DEF PurgedBoard!Next, AnyBoard!Next

\* The board with no conversation open takes steps of the one above, but to connect.
LEMMA ClosedBoardIsAny ==
  ASSUME BoardInv, ClosedInv, ClosedBoard!Next
  PROVE  ServerSteps \/ ClosedBoard!Connect \/ AnyBoard!Drop \/ AnyBoard!Receive
<1>0. /\ boardRecord \in TaskRecords \cup {Gone} /\ journal \in Nat /\ said \in Nat
      /\ boardRecord.turn \in Nat
      /\ {BoardTurns, BoardSaid, CutSaid, PurgedTurns} \subseteq Nat
  <2>1. /\ {BoardTurns, BoardSaid} \subseteq Nat /\ {CutSaid, PurgedTurns} \subseteq Nat
    BY PartsAreSound
    DEF Board!ParametersAreSound, CutBoard!ParametersAreSound, PurgedBoard!ParametersAreSound
  <2>2. /\ boardRecord \in TaskRecords \cup {Gone} /\ journal \in Nat /\ said \in Nat
    BY DEF BoardInv, BoardTyped
  <2>3. boardRecord.turn \in Nat
    BY <2>2, RecordTypes DEF Gone
  <2> QED
    BY <2>1, <2>2, <2>3
<1> USE DEF ClosedBoard!Room, ClosedBoard!Emit, ClosedBoard!Frame, ClosedBoard!fetch,
        ClosedBoard!board, ClosedBoard!server,
        AnyBoard!Room, AnyBoard!Emit, AnyBoard!Frame, AnyBoard!fetch, AnyBoard!board,
        AnyBoard!server
<1>1. ClosedBoard!Launch => AnyBoard!Launch
  BY <1>0 DEF ClosedBoard!Launch, AnyBoard!Launch
<1>2. ClosedBoard!TurnStarted => AnyBoard!TurnStarted
  BY DEF ClosedBoard!TurnStarted, AnyBoard!TurnStarted
<1>3. ClosedBoard!Says => AnyBoard!Says
  BY <1>0 DEF ClosedBoard!Says, AnyBoard!Says
<1>4. ClosedBoard!Speaks => AnyBoard!Speaks
  BY DEF ClosedBoard!Speaks, AnyBoard!Speaks
<1>5. ClosedBoard!TurnEnds => AnyBoard!TurnEnds
  BY DEF ClosedBoard!TurnEnds, AnyBoard!TurnEnds
<1>6. ~ ClosedBoard!OpenConversation /\ ~ ClosedBoard!Answered /\ answers = {}
  BY DEF ClosedInv, ClosedBoard!OpenConversation, ClosedBoard!Answered
<1>7. ~ ClosedBoard!Purge
  BY DEF ClosedBoard!Purge
<1>8. ClosedBoard!Receive => AnyBoard!Receive
  <2>1. \A s, x : ClosedBoard!MergeBySeq(s, x) = AnyBoard!MergeBySeq(s, x)
    BY DEF ClosedBoard!MergeBySeq, AnyBoard!MergeBySeq, ClosedBoard!InsertAt, AnyBoard!InsertAt
  <2> QED
    BY <2>1
    DEF ClosedBoard!Receive, AnyBoard!Receive, ClosedBoard!OnEvent, AnyBoard!OnEvent,
        ClosedBoard!Upsert,
        AnyBoard!Upsert, ClosedBoard!SettlesLiveMessages, AnyBoard!SettlesLiveMessages,
        ClosedBoard!KeepsLiveMessages, AnyBoard!KeepsLiveMessages, ClosedBoard!Absent,
        AnyBoard!Absent
<1>9. ClosedBoard!Drop => AnyBoard!Drop
  BY DEF ClosedBoard!Drop, AnyBoard!Drop
<1> QED
  BY <1>1, <1>2, <1>3, <1>4, <1>5, <1>6, <1>7, <1>8, <1>9
  DEF ClosedBoard!Next, ServerSteps

-----------------------------------------------------------------------------
(***************************************************************************)
(* The bounds of the board whose stream stays up.                          *)
(***************************************************************************)

BoundsKept ==
  /\ {boardRecord.turn, seen.turn} \subseteq 0 .. BoardTurns
  /\ said \in 0 .. BoardSaid /\ asked \in 0 .. 2 /\ Len(pipe) <= BoardPipe
  /\ \A i \in DOMAIN pipe : pipe[i].kind = "task" => pipe[i].what.turn \in 0 .. BoardTurns
  /\ \A a \in answers : a.record.turn \in 0 .. BoardTurns

\* The turns and the frames of the board whose stream stays up are within its bounds.
LEMMA BoardIsBounded ==
  ASSUME BoardInv, BoundsKept, Board!Next
  PROVE  BoundsKept'
<1>0. /\ BoardTurns \in Nat /\ BoardSaid \in Nat \ {0} /\ BoardPipe \in Nat \ {0}
      /\ journal \in Nat /\ link \in BOOLEAN /\ pipe \in Seq(Frames)
  BY PartsAreSound DEF Board!ParametersAreSound, BoardInv, BoardTyped
<1>1. ASSUME NEW f \in Frames, pipe' = IF link THEN Append(pipe, f) ELSE pipe,
             ~ link \/ Len(pipe) < BoardPipe, UNCHANGED <<asked, answers, seen>>,
             boardRecord'.turn \in 0 .. BoardTurns, said' \in 0 .. BoardSaid,
             f.kind = "task" => f.what = boardRecord'
      PROVE  BoundsKept'
  <2>1. /\ \A i \in DOMAIN pipe : pipe'[i] = pipe[i]
        /\ \A i \in DOMAIN pipe' : i \in DOMAIN pipe \/ (link /\ pipe'[i] = f)
        /\ link => Len(pipe') = Len(pipe) + 1
        /\ ~ link => pipe' = pipe
    BY <1>0, <1>1, Emitted
  <2>2. Len(pipe') <= BoardPipe
    <3>1. Len(pipe) \in Nat
      BY <1>0
    <3> QED
      BY <1>0, <1>1, <2>1, <3>1 DEF BoundsKept
  <2>3. \A i \in DOMAIN pipe' : pipe'[i].kind = "task" => pipe'[i].what.turn \in 0 .. BoardTurns
    BY <1>1, <2>1 DEF BoundsKept
  <2> QED
    BY <1>1, <2>2, <2>3 DEF BoundsKept
<1> USE DEF Board!Room, Board!Emit, Board!fetch, Board!board, Board!server
<1>2. \A k, w : Board!Frame(k, w) = AnyBoard!Frame(k, w)
  BY DEF Board!Frame, AnyBoard!Frame
<1>3. boardRecord.status \in {"waiting", "running"} => boardRecord \in TaskRecords
  BY RecordTypes DEF BoardInv, BoardTyped
<1>4. CASE Board!Launch
  <2>1. /\ ~ link \/ Len(pipe) < BoardPipe
        /\ pipe' = IF link THEN Append(pipe, AnyBoard!Frame("task", boardRecord')) ELSE pipe
        /\ UNCHANGED <<asked, answers, seen>> /\ said' = 0
        /\ boardRecord' = [status |-> "running", turn |-> boardRecord.turn + 1]
        /\ boardRecord.turn < BoardTurns /\ boardRecord \in TaskRecords
    BY <1>2, <1>3, <1>4 DEF Board!Launch
  <2>2. boardRecord' \in TaskRecords /\ boardRecord'.turn \in 0 .. BoardTurns
    <3>1. boardRecord.turn \in Nat
      BY <2>1, RecordTypes
    <3>2. boardRecord.turn + 1 \in Nat /\ boardRecord.turn + 1 \in 0 .. BoardTurns
      BY <1>0, <2>1, <3>1
    <3> QED
      BY <2>1, <3>2, RecordTypes
  <2>3. /\ AnyBoard!Frame("task", boardRecord') \in Frames
        /\ AnyBoard!Frame("task", boardRecord').what = boardRecord'
    BY <2>2, FrameTypes
  <2>4. said' \in 0 .. BoardSaid
    BY <1>0, <2>1
  <2>5. UNCHANGED <<asked, answers, seen>>
    BY <2>1
  <2>6. ~ link \/ Len(pipe) < BoardPipe
    BY <2>1
  <2>7. pipe' = IF link THEN Append(pipe, AnyBoard!Frame("task", boardRecord')) ELSE pipe
    BY <2>1
  <2> QED
    BY <1>1, <2>2, <2>3, <2>4, <2>5, <2>6, <2>7
<1>5. CASE Board!TurnStarted \/ Board!Speaks
  <2>1. /\ ~ link \/ Len(pipe) < BoardPipe
        /\ pipe' = IF link THEN Append(pipe, AnyBoard!Frame("task_event", journal')) ELSE pipe
        /\ UNCHANGED <<boardRecord, said, asked, answers, seen>> /\ journal' = journal + 1
    BY <1>2, <1>5 DEF Board!TurnStarted, Board!Speaks
  <2>2. /\ AnyBoard!Frame("task_event", journal') \in Frames
        /\ AnyBoard!Frame("task_event", journal').kind = "task_event"
    BY <1>0, <2>1, FrameTypes
  <2>3. boardRecord'.turn \in 0 .. BoardTurns /\ said' \in 0 .. BoardSaid
    BY <2>1 DEF BoundsKept
  <2> QED
    BY <1>1, <2>1, <2>2, <2>3
<1>6. CASE Board!Says
  <2> DEFINE t == [turn |-> boardRecord.turn, seq |-> said']
  <2>1. /\ ~ link \/ Len(pipe) < BoardPipe
        /\ pipe' = IF link THEN Append(pipe, AnyBoard!Frame("task_text", t)) ELSE pipe
        /\ UNCHANGED <<boardRecord, asked, answers, seen>>
        /\ said' = said + 1 /\ said < BoardSaid /\ boardRecord.status = "running"
    BY <1>2, <1>6 DEF Board!Says
  <2>2. said' \in 0 .. BoardSaid /\ said' \in Nat
    BY <1>0, <2>1 DEF BoundsKept
  <2>3. t \in Texts
    BY <1>3, <2>1, <2>2, RecordTypes DEF Texts
  <2> HIDE DEF t
  <2>4. /\ AnyBoard!Frame("task_text", t) \in Frames
        /\ AnyBoard!Frame("task_text", t).kind = "task_text"
    BY <2>3, FrameTypes
  <2>5. boardRecord'.turn \in 0 .. BoardTurns
    BY <2>1 DEF BoundsKept
  <2> QED
    BY <1>1, <2>1, <2>2, <2>4, <2>5
<1>7. CASE Board!TurnEnds
  <2>1. /\ ~ link \/ Len(pipe) < BoardPipe
        /\ pipe' = IF link THEN Append(pipe, AnyBoard!Frame("task", boardRecord')) ELSE pipe
        /\ UNCHANGED <<said, asked, answers, seen>>
        /\ boardRecord' = [boardRecord EXCEPT !.status = "waiting"]
        /\ boardRecord \in TaskRecords
    BY <1>2, <1>3, <1>7 DEF Board!TurnEnds
  <2>2. boardRecord' \in TaskRecords /\ boardRecord'.turn = boardRecord.turn
    BY <2>1, RecordTypes
  <2>3. /\ AnyBoard!Frame("task", boardRecord') \in Frames
        /\ AnyBoard!Frame("task", boardRecord').what = boardRecord'
    BY <2>2, FrameTypes
  <2>4. boardRecord'.turn \in 0 .. BoardTurns /\ said' \in 0 .. BoardSaid
    BY <2>1, <2>2 DEF BoundsKept
  <2>5. ~ link \/ Len(pipe) < BoardPipe
    BY <2>1
  <2>6. pipe' = IF link THEN Append(pipe, AnyBoard!Frame("task", boardRecord')) ELSE pipe
    BY <2>1
  <2>7. UNCHANGED <<asked, answers, seen>>
    BY <2>1
  <2> QED
    BY <1>1, <2>2, <2>3, <2>4, <2>5, <2>6, <2>7
<1>8. CASE Board!Connect
  <2>1. /\ UNCHANGED <<boardRecord, said, answers, seen>> /\ asked' = asked + 1 /\ asked < 2
        /\ pipe' = IF boardRecord = Gone THEN <<>> ELSE <<AnyBoard!Frame("task", boardRecord)>>
    BY <1>2, <1>8, RecordTypes
    DEF Board!Connect, Board!Hydration, Board!Replay, Board!Absent, AnyBoard!Absent
  <2>2. Len(pipe') <= 1 /\ \A i \in DOMAIN pipe' : pipe'[i].what = boardRecord
    BY <2>1, FrameTypes
  <2>3. Len(pipe') <= BoardPipe /\ asked' \in 0 .. 2
    BY <1>0, <2>1, <2>2 DEF BoundsKept
  <2> QED
    BY <2>1, <2>2, <2>3 DEF BoundsKept
<1>9. CASE Board!OpenConversation \/ Board!Answered
  <2>1. /\ UNCHANGED <<boardRecord, said, pipe, seen>> /\ asked' \in 0 .. 2
        /\ \A a \in answers' : a \in answers \/ a.record = boardRecord
    BY <1>9 DEF Board!OpenConversation, Board!Answered, BoundsKept
  <2> QED
    BY <2>1 DEF BoundsKept
<1>10. CASE Board!Receive
  <2>1. /\ UNCHANGED <<boardRecord, said, asked, answers>> /\ pipe # <<>> /\ pipe' = Tail(pipe)
        /\ seen' = seen \/ (Head(pipe).kind = "task" /\ seen' = Head(pipe).what)
    BY <1>10 DEF Board!Receive, Board!Upsert, Board!OnEvent
  <2>2. /\ Len(pipe') = Len(pipe) - 1 /\ 1 \in DOMAIN pipe /\ Head(pipe) = pipe[1]
        /\ \A i \in DOMAIN pipe' : i + 1 \in DOMAIN pipe /\ pipe'[i] = pipe[i + 1]
    BY <1>0, <2>1, Taken
  <2>3. Len(pipe') <= BoardPipe
    <3>1. Len(pipe) \in Nat
      BY <1>0
    <3> QED
      BY <1>0, <2>2, <3>1 DEF BoundsKept
  <2>4. seen'.turn \in 0 .. BoardTurns
    BY <2>1, <2>2 DEF BoundsKept
  <2> QED
    BY <2>1, <2>2, <2>3, <2>4 DEF BoundsKept
<1>11. CASE \E a \in answers : Board!Hydrate(a)
  <2>1. PICK a \in answers : Board!Hydrate(a)
    BY <1>11
  <2>2. /\ UNCHANGED <<boardRecord, said, asked, pipe>> /\ seen' = a.record
        /\ answers' \subseteq answers
    BY <2>1 DEF Board!Hydrate, Board!Upsert
  <2> QED
    BY <2>1, <2>2 DEF BoundsKept
<1> QED
  BY <1>4, <1>5, <1>6, <1>7, <1>8, <1>9, <1>10, <1>11 DEF Board!Next, Board!Drop, Board!Purge

-----------------------------------------------------------------------------
(***************************************************************************)
(* The review sessions.                                                    *)
(***************************************************************************)

\* The sessions whose sources may be missing, whose reviews may fail, whose streams
\* may be cut and that several browsers use: each of the two takes only steps of it.
AnySession == INSTANCE ReviewSession WITH
  Sources <- Reviewed, Branches <- Branched, MaxRun <- Reviews + AloneReviews,
  MaxStreams <- SessionStreams + AloneStreams,
  Unknowns <- TRUE, Fails <- TRUE, Drops <- TRUE, Others <- TRUE

Flows == {"none", "preparing", "reviewing", "cleaning", "failed"}
Sessions ==
  [phase : {"reviewing", "judging", "done", "error"}, of : Nat, record : Nat,
   partial : Nat, judge : Nat]
Lookups == [before : {"idle", "done", "error"}, by : {"tab", "other"}]
NoLookup == [before |-> "none", by |-> "none"]
SessionFrames ==
  [kind : {"status", "partial", "judge", "done"},
   what : Nat \cup [phase : {"reviewing", "judging", "done", "error"}, of : Nat]]
Streams == [state : {"closed", "connecting", "open"}, pipe : Seq(SessionFrames)]

SessionTyped ==
  /\ phase \in {"idle", "running", "done", "error"}
  /\ current \in Reviewed \cup {"none"}
  /\ lookup \in Lookups \cup {NoLookup} /\ launches \in Nat /\ run \in Nat
  /\ flow \in Flows /\ tree \in BOOLEAN /\ session \in Sessions
  /\ streams \in [DOMAIN streams -> Streams] /\ 0 \notin DOMAIN streams
  /\ mine \in {0} \cup DOMAIN streams

\* A run, or a look-up, is under way exactly when the runner says so, and never both.
OneRun ==
  /\ phase = "running" <=> flow # "none" \/ lookup # NoLookup
  /\ flow = "none" \/ lookup = NoLookup
  /\ flow # "none" => run >= 1

\* The session has the record of its run from the moment that it is done; an error
\* that the runner tells, or will tell again if nothing is found, is the session's.
SessionFollows ==
  /\ session.phase = "done" <=> session.record # 0
  /\ session.record \in {0, run}
  /\ flow \in {"preparing", "reviewing", "failed"} => session.record = 0
  /\ phase = "error" => session.phase = "error"
  /\ lookup.before = "error" => session.phase = "error"

SessionInv == SessionTyped /\ OneRun /\ SessionFollows

\* A worktree that outlives its review is one that git would not remove, of the
\* source that was reviewed last.
TreeLeft ==
  /\ last \in [phase : {"idle", "running", "done", "error"}, of : Reviewed \cup {"none"}]
  /\ left \subseteq Reviewed
  /\ phase = "running" => current \in Reviewed
  /\ flow # "none" => last.of = current
  /\ flow = "none" /\ tree => last.of \in left

-----------------------------------------------------------------------------

\* The frames of a session.
LEMMA SessionFrameTypes ==
  ASSUME NEW s \in Sessions
  PROVE  /\ <<AnySession!Status(s)>> \in Seq(SessionFrames)
         /\ \A n \in Nat, k \in {"partial", "judge", "done"} :
              AnySession!Frame(k, n) \in SessionFrames /\ AnySession!Frame(k, n).kind = k
         /\ AnySession!Status(s).kind = "status"
<1>1. AnySession!Status(s) \in SessionFrames /\ AnySession!Status(s).kind = "status"
  BY DEF AnySession!Status, SessionFrames, Sessions
<1>2. \A n \in Nat, k \in {"partial", "judge", "done"} :
         AnySession!Frame(k, n) \in SessionFrames /\ AnySession!Frame(k, n).kind = k
  BY DEF AnySession!Frame, SessionFrames
<1> HIDE DEF SessionFrames
<1> QED
  BY <1>1, <1>2

HasDone(p) == \E k \in DOMAIN p : p[k].kind = "done"

\* A done is among the frames of two batches when it is in one of them.
LEMMA DoneOfEither ==
  ASSUME NEW p \in Seq(SessionFrames), NEW q \in Seq(SessionFrames)
  PROVE  HasDone(p \o q) <=> HasDone(p) \/ HasDone(q)
<1>1. /\ p \o q \in Seq(SessionFrames) /\ Len(p \o q) = Len(p) + Len(q)
      /\ \A i \in 1 .. Len(p) + Len(q) :
           (p \o q)[i] = IF i <= Len(p) THEN p[i] ELSE q[i - Len(p)]
  BY ConcatProperties
<1>2. /\ DOMAIN (p \o q) = 1 .. Len(p) + Len(q) /\ DOMAIN p = 1 .. Len(p)
      /\ DOMAIN q = 1 .. Len(q) /\ Len(p) \in Nat /\ Len(q) \in Nat
  BY <1>1
<1>3. \A k \in DOMAIN p : k \in DOMAIN (p \o q) /\ (p \o q)[k] = p[k]
  BY <1>1, <1>2
<1>4. \A k \in DOMAIN q : k + Len(p) \in DOMAIN (p \o q) /\ (p \o q)[k + Len(p)] = q[k]
  BY <1>1, <1>2
<1>5. \A k \in DOMAIN (p \o q) : \/ k \in DOMAIN p /\ (p \o q)[k] = p[k]
                                \/ /\ k - Len(p) \in DOMAIN q
                                   /\ (p \o q)[k] = q[k - Len(p)]
  BY <1>1, <1>2
<1> QED
  BY <1>3, <1>4, <1>5 DEF HasDone

\* A frame that is read and is no done leaves the done that is behind it.
LEMMA DoneIsBehind ==
  ASSUME NEW p \in Seq(SessionFrames), p # <<>>
  PROVE  /\ Tail(p) \in Seq(SessionFrames)
         /\ Head(p).kind = "done" => HasDone(p)
         /\ Head(p).kind # "done" => (HasDone(Tail(p)) <=> HasDone(p))
<1>1. /\ Tail(p) \in Seq(SessionFrames) /\ Len(p) \in Nat \ {0}
      /\ DOMAIN p = 1 .. Len(p) /\ DOMAIN Tail(p) = 1 .. (Len(p) - 1)
      /\ Head(p) = p[1]
      /\ \A k \in 1 .. (Len(p) - 1) : Tail(p)[k] = p[k + 1]
  OBVIOUS
<1>2. \A k \in DOMAIN p : k = 1 \/ (k - 1 \in DOMAIN Tail(p) /\ Tail(p)[k - 1] = p[k])
  BY <1>1
<1>3. \A k \in DOMAIN Tail(p) : k + 1 \in DOMAIN p /\ Tail(p)[k] = p[k + 1]
  BY <1>1
<1>4. 1 \in DOMAIN p
  BY <1>1
<1> QED
  BY <1>1, <1>2, <1>3, <1>4 DEF HasDone

\* What a stream is told when it connects.
LEMMA ReplayTypes ==
  ASSUME NEW s \in Sessions
  PROVE  /\ AnySession!Replay(s) \in Seq(SessionFrames)
         /\ s.phase = "done" <=> HasDone(AnySession!Replay(s))
<1> DEFINE a == <<AnySession!Status(s)>>
           b == IF s.partial = 0 THEN <<>> ELSE <<AnySession!Frame("partial", s.partial)>>
           c == IF s.judge = 0 THEN <<>> ELSE <<AnySession!Frame("judge", s.judge)>>
           d == IF s.phase = "done" THEN <<AnySession!Frame("done", 0)>> ELSE <<>>
<1>0. s.partial \in Nat /\ s.judge \in Nat
  BY DEF Sessions
<1>1. /\ a \in Seq(SessionFrames) /\ b \in Seq(SessionFrames)
      /\ c \in Seq(SessionFrames) /\ d \in Seq(SessionFrames)
  <2>1. \A f \in SessionFrames : <<f>> \in Seq(SessionFrames)
    OBVIOUS
  <2>2. <<>> \in Seq(SessionFrames)
    OBVIOUS
  <2> QED
    BY <1>0, <2>1, <2>2, SessionFrameTypes
<1>2. s.phase = "done" => Len(d) = 1 /\ d[1].kind = "done"
  BY SessionFrameTypes
<1>3. AnySession!Replay(s) = a \o b \o c \o d
  BY DEF AnySession!Replay, AnySession!DoneUntold
<1> HIDE DEF a, b, c, d
<1> DEFINE e == a \o b \o c
<1>4. e \in Seq(SessionFrames)
  <2>1. a \o b \in Seq(SessionFrames)
    BY <1>1, ConcatProperties
  <2> QED
    BY <1>1, <2>1, ConcatProperties
<1> HIDE DEF e
<1>5. AnySession!Replay(s) = e \o d
  BY <1>3 DEF e
<1>6. e \o d \in Seq(SessionFrames)
  BY <1>1, <1>4, ConcatProperties
<1>7. s.phase = "done" => Len(e) + 1 \in DOMAIN (e \o d) /\ (e \o d)[Len(e) + 1].kind = "done"
  <2> SUFFICES ASSUME s.phase = "done"
               PROVE  Len(e) + 1 \in DOMAIN (e \o d) /\ (e \o d)[Len(e) + 1].kind = "done"
    OBVIOUS
  <2>1. Len(e) \in Nat /\ Len(d) = 1 /\ d[1].kind = "done"
    BY <1>2, <1>4
  <2>2. /\ Len(e \o d) = Len(e) + 1
        /\ (e \o d)[Len(e) + 1] = d[1]
    <3>1. /\ Len(e \o d) = Len(e) + Len(d)
          /\ \A i \in 1 .. Len(e) + Len(d) :
               (e \o d)[i] = IF i <= Len(e) THEN e[i] ELSE d[i - Len(e)]
      BY <1>1, <1>4, ConcatProperties
    <3>2. Len(e) + 1 \in 1 .. Len(e) + Len(d) /\ ~ (Len(e) + 1 <= Len(e))
          /\ (Len(e) + 1) - Len(e) = 1
      BY <2>1
    <3> QED
      BY <2>1, <3>1, <3>2
  <2>3. DOMAIN (e \o d) = 1 .. Len(e \o d)
    BY <1>6
  <2> QED
    BY <2>1, <2>2, <2>3
<1>8. s.phase # "done" => ~ HasDone(AnySession!Replay(s))
  <2> SUFFICES ASSUME s.phase # "done" PROVE ~ HasDone(a \o b \o c \o d)
    BY <1>3
  <2>1. /\ d = <<>> /\ \A k \in DOMAIN a : a[k].kind # "done"
        /\ \A k \in DOMAIN b : b[k].kind # "done"
        /\ \A k \in DOMAIN c : c[k].kind # "done"
    BY <1>0, SessionFrameTypes DEF a, b, c, d
  <2>2. ~ HasDone(a \o b)
    BY <1>1, <2>1, DoneOfEither DEF HasDone
  <2>3. a \o b \in Seq(SessionFrames)
    BY <1>1, ConcatProperties
  <2>4. ~ HasDone((a \o b) \o c)
    BY <1>1, <2>1, <2>2, <2>3, DoneOfEither DEF HasDone
  <2>5. (a \o b) \o c \in Seq(SessionFrames)
    BY <1>1, <2>3, ConcatProperties
  <2> QED
    BY <1>1, <2>1, <2>4, <2>5, DoneOfEither DEF HasDone
<1> QED
  BY <1>5, <1>6, <1>7, <1>8 DEF HasDone

\* What everyone who listens is told.
LEMMA SessionEmits ==
  ASSUME NEW fs \in Seq(SessionFrames), streams \in [DOMAIN streams -> Streams],
         AnySession!Emit(fs)
  PROVE  /\ streams' \in [DOMAIN streams -> Streams] /\ DOMAIN streams' = DOMAIN streams
         /\ \A i \in DOMAIN streams :
              /\ streams'[i].state = streams[i].state
              /\ streams[i].state = "open" => streams'[i].pipe = streams[i].pipe \o fs
              /\ streams[i].state # "open" => streams'[i] = streams[i]
              /\ streams'[i].pipe \in Seq(SessionFrames)
<1>1. ASSUME NEW i \in DOMAIN streams
      PROVE  /\ streams[i] \in Streams /\ streams[i].pipe \in Seq(SessionFrames)
             /\ streams[i].pipe \o fs \in Seq(SessionFrames)
             /\ [streams[i] EXCEPT !.pipe = streams[i].pipe \o fs] \in Streams
             /\ [streams[i] EXCEPT !.pipe = streams[i].pipe \o fs].state = streams[i].state
             /\ [streams[i] EXCEPT !.pipe = streams[i].pipe \o fs].pipe = streams[i].pipe \o fs
  <2>1. streams[i] \in Streams /\ streams[i].pipe \in Seq(SessionFrames)
    BY DEF Streams
  <2>2. streams[i].pipe \o fs \in Seq(SessionFrames)
    BY <2>1, ConcatProperties
  <2> QED
    BY <2>1, <2>2 DEF Streams
<1>2. streams' = [i \in DOMAIN streams |->
                    IF streams[i].state = "open"
                    THEN [streams[i] EXCEPT !.pipe = streams[i].pipe \o fs] ELSE streams[i]]
  BY DEF AnySession!Emit
<1> QED
  BY <1>1, <1>2

\* A step of the runner that leaves the session and its streams alone: a start, a
\* look-up that finds nothing, a worktree, a review that fails.
LEMMA RunnerKeeps ==
  ASSUME SessionInv,
         \/ \E s \in Reviewed : AnySession!Start("tab", s) \/ AnySession!Start("other", s)
         \/ AnySession!NotFound \/ AnySession!AddTree
         \/ AnySession!PrepareFails \/ AnySession!ReviewFails
  PROVE  SessionInv' /\ UNCHANGED streams
<1> USE DEF SessionInv, SessionTyped, OneRun, SessionFollows, AnySession!vars,
        AnySession!runner, AnySession!tab
<1>1. CASE \E s \in Reviewed : AnySession!Start("tab", s) \/ AnySession!Start("other", s)
  <2>1. PICK s \in Reviewed, by \in {"tab", "other"} : AnySession!Start(by, s)
    BY <1>1
  <2>2. /\ phase # "running" /\ launches' = launches + 1
        /\ lookup' = [before |-> phase, by |-> by] /\ phase' = "running" /\ current' = s
        /\ UNCHANGED <<run, flow, tree, session, mine, streams>>
    BY <2>1 DEF AnySession!Start, AnySession!MayStart
  <2>3. lookup' \in Lookups /\ lookup' # NoLookup /\ lookup'.before = phase
    BY <2>2 DEF Lookups, NoLookup
  <2> QED
    BY <2>2, <2>3
<1>2. CASE AnySession!NotFound
  <2>1. /\ lookup # NoLookup /\ phase' = lookup.before /\ lookup' = NoLookup
        /\ UNCHANGED <<current, launches, run, flow, tree, session, mine, streams>>
    BY <1>2 DEF AnySession!NotFound, AnySession!NoLookup, NoLookup
  <2>2. phase' \in {"idle", "done", "error"} /\ NoLookup.before = "none"
    BY <2>1 DEF Lookups, NoLookup
  <2> QED
    BY <2>1, <2>2
<1>3. CASE AnySession!AddTree
  BY <1>3 DEF AnySession!AddTree, Flows
<1>4. CASE AnySession!PrepareFails
  BY <1>4 DEF AnySession!PrepareFails, Flows
<1>5. CASE AnySession!ReviewFails
  BY <1>5 DEF AnySession!ReviewFails, Flows
<1> QED
  BY <1>1, <1>2, <1>3, <1>4, <1>5

\* What a step writes to the session is told to every stream that listens.
SessionTold(kind) ==
  \E fs \in Seq(SessionFrames) :
    /\ \A i \in DOMAIN fs : fs[i].kind # "done" \/ kind = "done"
    /\ kind = "done" => HasDone(fs)
    /\ AnySession!Emit(fs)

\* The frames a step tells: one that is no done, or a done behind its status.
LEMMA ToldIsTold ==
  ASSUME NEW s \in Sessions, NEW n \in Nat
  PROVE  /\ AnySession!Emit(<<AnySession!Status(s)>>) => SessionTold("status")
         /\ \A k \in {"partial", "judge"} :
              /\ AnySession!Emit(<<AnySession!Frame(k, n)>>) => SessionTold("status")
              /\ AnySession!Emit(<<AnySession!Status(s), AnySession!Frame(k, n)>>)
                   => SessionTold("status")
         /\ AnySession!Emit(<<AnySession!Status(s), AnySession!Frame("done", n)>>)
              => SessionTold("done")
<1> DEFINE st == AnySession!Status(s)
<1>1. st \in SessionFrames /\ st.kind = "status"
  <2>1. <<st>> \in Seq(SessionFrames) /\ st.kind = "status"
    BY SessionFrameTypes
  <2>2. <<st>>[1] = st /\ 1 \in DOMAIN <<st>>
    OBVIOUS
  <2> QED
    BY <2>1, <2>2
<1>2. \A k \in {"partial", "judge", "done"} :
        AnySession!Frame(k, n) \in SessionFrames /\ AnySession!Frame(k, n).kind = k
  BY SessionFrameTypes
<1> HIDE DEF st
<1>3. \A x \in SessionFrames : <<x>> \in Seq(SessionFrames)
                               /\ \A i \in DOMAIN <<x>> : <<x>>[i] = x
  OBVIOUS
<1>4. \A x, y \in SessionFrames :
        /\ <<x, y>> \in Seq(SessionFrames) /\ 2 \in DOMAIN <<x, y>> /\ <<x, y>>[2] = y
        /\ \A i \in DOMAIN <<x, y>> : <<x, y>>[i] \in {x, y}
  OBVIOUS
<1>5. AnySession!Emit(<<st>>) => SessionTold("status")
  BY <1>1, <1>3 DEF SessionTold
<1>6. ASSUME NEW k \in {"partial", "judge"}
      PROVE  /\ AnySession!Emit(<<AnySession!Frame(k, n)>>) => SessionTold("status")
             /\ AnySession!Emit(<<st, AnySession!Frame(k, n)>>) => SessionTold("status")
  <2> DEFINE f == AnySession!Frame(k, n)
  <2>1. f \in SessionFrames /\ f.kind = k /\ k # "done"
    BY <1>2
  <2> HIDE DEF f
  <2>2. AnySession!Emit(<<f>>) => SessionTold("status")
    BY <2>1, <1>3 DEF SessionTold
  <2>3. AnySession!Emit(<<st, f>>) => SessionTold("status")
    <3>1. /\ <<st, f>> \in Seq(SessionFrames)
          /\ \A i \in DOMAIN <<st, f>> : <<st, f>>[i].kind # "done"
      BY <1>1, <2>1, <1>4
    <3> QED
      BY <3>1 DEF SessionTold
  <2> QED
    BY <2>2, <2>3 DEF f
<1>7. AnySession!Emit(<<st, AnySession!Frame("done", n)>>) => SessionTold("done")
  <2> DEFINE fs == <<st, AnySession!Frame("done", n)>>
  <2>1. fs \in Seq(SessionFrames) /\ HasDone(fs)
    BY <1>1, <1>2, <1>4 DEF HasDone
  <2> QED
    BY <2>1 DEF SessionTold
<1> QED
  BY <1>5, <1>6, <1>7 DEF st

\* What a step does to the session and its run, at which of its stages.
SessionWritten ==
  \/ /\ flow = "none" /\ lookup # NoLookup /\ lookup' = NoLookup /\ flow' = "preparing"
     /\ run' = run + 1 /\ session'.record = 0 /\ session'.phase = "reviewing"
     /\ UNCHANGED phase /\ tree' \in BOOLEAN /\ SessionTold("status")
  \/ /\ flow = "reviewing" /\ session'.record = session.record
     /\ session'.phase \in {session.phase, "judging"}
     /\ UNCHANGED <<phase, lookup, run, flow, tree>> /\ SessionTold("status")
  \/ /\ flow = "reviewing" /\ flow' = "cleaning"
     /\ session'.record = run /\ session'.phase = "done"
     /\ UNCHANGED <<phase, lookup, run, tree>> /\ SessionTold("done")
  \/ /\ flow = "failed" /\ flow' = "none" /\ tree' \in BOOLEAN /\ phase' = "error"
     /\ session'.record = session.record /\ session'.phase = "error"
     /\ UNCHANGED <<lookup, run>> /\ SessionTold("status")
  \/ /\ flow = "cleaning" /\ flow' = "none" /\ tree' \in BOOLEAN /\ phase' = "done"
     /\ UNCHANGED <<lookup, run, session, streams>>

\* The steps of the runner that write to the session: each writes a session, and
\* tells it.
LEMMA SessionWrites ==
  ASSUME SessionInv,
         \/ AnySession!Found \/ AnySession!Reports \/ AnySession!Judges
         \/ AnySession!ReviewDone \/ AnySession!RunEnds
  PROVE  SessionWritten /\ session' \in Sessions /\ UNCHANGED <<current, launches, mine>>
<1> USE DEF SessionInv, SessionTyped, OneRun, SessionFollows, AnySession!runner,
        AnySession!tab, AnySession!vars
<1>1. \A s \in Sessions : s = [phase |-> s.phase, of |-> s.of, record |-> s.record,
                               partial |-> s.partial, judge |-> s.judge]
  BY DEF Sessions
<1>2. CASE AnySession!Found
  <2>1. /\ lookup # NoLookup /\ lookup' = NoLookup /\ flow' = "preparing" /\ run' = run + 1
        /\ session' = [phase |-> "reviewing", of |-> run + 1, record |-> 0, partial |-> 0,
                       judge |-> 0]
        /\ AnySession!Emit(<<AnySession!Status(session')>>)
        /\ UNCHANGED <<phase, current, launches, mine>> /\ tree' = FALSE
    BY <1>2 DEF AnySession!Found, AnySession!NoLookup, NoLookup, AnySession!Blank
  <2>2. session' \in Sessions /\ session'.record = 0 /\ session'.phase = "reviewing"
    BY <2>1 DEF Sessions
  <2>3. SessionTold("status")
    BY <2>1, <2>2, ToldIsTold
  <2>4. flow = "none"
    BY <2>1
  <2> QED
    BY <2>1, <2>2, <2>3, <2>4 DEF SessionWritten
<1>3. CASE AnySession!Reports
  <2>1. /\ flow = "reviewing" /\ session' = [session EXCEPT !.partial = run]
        /\ AnySession!Emit(<<AnySession!Frame("partial", run)>>)
        /\ UNCHANGED <<phase, current, launches, lookup, run, flow, tree, mine>>
    BY <1>3 DEF AnySession!Reports
  <2>2. /\ session' \in Sessions /\ session'.record = session.record
        /\ session'.phase = session.phase
    BY <2>1 DEF Sessions
  <2>3. SessionTold("status")
    BY <2>1, <2>2, ToldIsTold
  <2> QED
    BY <2>1, <2>2, <2>3 DEF SessionWritten
<1>4. CASE AnySession!Judges
  <2>1. /\ flow = "reviewing"
        /\ session' = [session EXCEPT !.judge = run, !.phase = "judging"]
        /\ AnySession!Emit(<<AnySession!Status(session'), AnySession!Frame("judge", run)>>)
        /\ UNCHANGED <<phase, current, launches, lookup, run, flow, tree, mine>>
    BY <1>4 DEF AnySession!Judges
  <2>2. /\ session' \in Sessions /\ session'.record = session.record
        /\ session'.phase = "judging"
    BY <2>1 DEF Sessions
  <2>3. SessionTold("status")
    BY <2>1, <2>2, ToldIsTold
  <2> QED
    BY <2>1, <2>2, <2>3 DEF SessionWritten
<1>5. CASE AnySession!ReviewDone
  <2>1. /\ flow = "reviewing" /\ flow' = "cleaning"
        /\ session' = [session EXCEPT !.record = run, !.phase = "done"]
        /\ AnySession!Emit(<<AnySession!Status(session'), AnySession!Frame("done", 0)>>)
        /\ UNCHANGED <<phase, current, launches, lookup, run, tree, mine>>
    BY <1>5 DEF AnySession!ReviewDone
  <2>2. /\ session' \in Sessions /\ session'.record = run /\ session'.phase = "done"
    BY <2>1 DEF Sessions
  <2>3. SessionTold("done")
    BY <2>1, <2>2, ToldIsTold
  <2> QED
    BY <2>1, <2>2, <2>3 DEF SessionWritten
<1>6. CASE AnySession!RunEnds
  <2>1. /\ flow \in {"cleaning", "failed"} /\ flow' = "none" /\ tree' \in BOOLEAN
        /\ phase' = IF flow = "cleaning" THEN "done" ELSE "error"
        /\ UNCHANGED <<current, launches, lookup, run, mine>>
    BY <1>6 DEF AnySession!RunEnds, AnySession!Cleans, AnySession!Outcome
  <2>2. CASE flow = "failed"
    <3>1. /\ session' = [session EXCEPT !.phase = "error"]
          /\ AnySession!Emit(<<AnySession!Status(session')>>)
      BY <1>6, <2>2 DEF AnySession!RunEnds, AnySession!TellsError
    <3>2. /\ session' \in Sessions /\ session'.record = session.record
          /\ session'.phase = "error"
      BY <3>1 DEF Sessions
    <3>3. SessionTold("status")
      BY <3>1, <3>2, ToldIsTold
    <3> QED
      BY <2>1, <2>2, <3>2, <3>3 DEF SessionWritten
  <2>3. CASE flow = "cleaning"
    <3>1. UNCHANGED <<session, streams>>
      BY <1>6, <2>3 DEF AnySession!RunEnds, AnySession!TellsError
    <3> QED
      BY <2>1, <2>3, <3>1 DEF SessionWritten
  <2> QED
    BY <2>1, <2>2, <2>3
<1> QED
  BY <1>2, <1>3, <1>4, <1>5, <1>6

\* Whoever writes to the session keeps what is true of it.
LEMMA WritesKeep ==
  ASSUME SessionInv, SessionWritten, session' \in Sessions,
         UNCHANGED <<current, launches, mine>>
  PROVE  SessionInv' /\ DOMAIN streams' = DOMAIN streams
<1> USE DEF SessionInv, SessionTyped, OneRun, SessionFollows
<1>1. streams' \in [DOMAIN streams -> Streams] /\ DOMAIN streams' = DOMAIN streams
  <2>1. CASE UNCHANGED streams
    BY <2>1
  <2>2. CASE \E k \in {"status", "done"} : SessionTold(k)
    BY <2>2, SessionEmits DEF SessionTold
  <2> QED
    BY <2>1, <2>2 DEF SessionWritten
<1>2. SessionTyped'
  <2>1. tree' \in BOOLEAN
    BY DEF SessionWritten
  <2>2. /\ phase' \in {"idle", "running", "done", "error"} /\ flow' \in Flows
        /\ lookup' \in Lookups \cup {NoLookup} /\ run' \in Nat
    <3> HIDE DEF OneRun, SessionFollows
    <3> QED
      BY DEF SessionWritten, Flows
  <2> QED
    BY <1>1, <2>1, <2>2
<1>3. OneRun'
  BY DEF SessionWritten
<1>4. SessionFollows'
  <2>1. lookup' = NoLookup
    BY DEF SessionWritten
  <2>2. NoLookup.before = "none"
    BY DEF NoLookup
  <2> QED
    BY <2>1, <2>2 DEF SessionWritten
<1> QED
  BY <1>1, <1>2, <1>3, <1>4

\* The steps of the browser, and of the server that answers it, leave the session
\* alone.
LEMMA BrowserKeeps ==
  ASSUME SessionInv,
         \/ \E g \in gets : \/ AnySession!Answers(g) \/ AnySession!AnswerFails(g)
                            \/ AnySession!GotRecord(g) \/ AnySession!GotNone(g)
         \/ AnySession!Retry
         \/ \E i \in DOMAIN streams : \/ AnySession!Connect(i) \/ AnySession!Drop(i)
                                      \/ AnySession!Receive(i)
  PROVE  /\ SessionInv' /\ DOMAIN streams' = DOMAIN streams
         /\ UNCHANGED <<phase, current, lookup, launches, run, flow, tree, left, session, last>>
<1> USE DEF AnySession!runner, AnySession!tab
<1>1. UNCHANGED <<phase, current, lookup, launches, run, flow, tree, left, session, last>>
  BY DEF AnySession!Answers, AnySession!AnswerFails, AnySession!Retry, AnySession!GotRecord, AnySession!GotNone, AnySession!Connect,
         AnySession!Drop, AnySession!Receive
<1>2. /\ streams \in [DOMAIN streams -> Streams] /\ mine \in {0} \cup DOMAIN streams
      /\ session \in Sessions
  BY DEF SessionInv, SessionTyped
<1>3. \A i \in DOMAIN streams : /\ streams[i] \in Streams
                                /\ streams[i].pipe \in Seq(SessionFrames)
  BY <1>2 DEF Streams
<1>4. /\ streams' \in [DOMAIN streams -> Streams] /\ DOMAIN streams' = DOMAIN streams
      /\ mine' \in {0} \cup DOMAIN streams
  <2>1. CASE \/ \E g \in gets : \/ AnySession!Answers(g) \/ AnySession!AnswerFails(g)
                                \/ AnySession!GotRecord(g)
             \/ AnySession!Retry
    BY <1>2, <2>1 DEF AnySession!Answers, AnySession!AnswerFails, AnySession!GotRecord,
                      AnySession!Retry
  <2>2. CASE \E g \in gets : AnySession!GotNone(g)
    <3>1. CASE UNCHANGED <<mine, streams>>
      BY <1>2, <3>1
    <3>2. CASE \E i \in AnySession!Unopened :
                 mine' = i /\ streams' = [streams EXCEPT ![i].state = "connecting"]
      <4>1. PICK i \in DOMAIN streams :
                   mine' = i /\ streams' = [streams EXCEPT ![i].state = "connecting"]
        BY <3>2 DEF AnySession!Unopened
      <4>2. [streams[i] EXCEPT !.state = "connecting"] \in Streams
        BY <1>3 DEF Streams
      <4> QED
        BY <1>2, <4>1, <4>2
    <3> QED
      BY <2>2, <3>1, <3>2 DEF AnySession!GotNone
  <2>3. CASE \E i \in DOMAIN streams : AnySession!Connect(i) \/ AnySession!Drop(i)
    <3>1. PICK i \in DOMAIN streams : AnySession!Connect(i) \/ AnySession!Drop(i)
      BY <2>3
    <3>2. /\ UNCHANGED mine
          /\ \E p \in Seq(SessionFrames), st \in {"open", "connecting"} :
               streams' = [streams EXCEPT ![i] = [state |-> st, pipe |-> p]]
      <4>1. CASE AnySession!Connect(i)
        BY <1>2, <4>1, ReplayTypes DEF AnySession!Connect
      <4>2. CASE AnySession!Drop(i)
        <5>1. <<>> \in Seq(SessionFrames)
          OBVIOUS
        <5> QED
          BY <4>2, <5>1 DEF AnySession!Drop
      <4> QED
        BY <3>1, <4>1, <4>2
    <3> QED
      BY <1>2, <3>2 DEF Streams
  <2>4. CASE \E i \in DOMAIN streams : AnySession!Receive(i)
    <3>1. PICK i \in DOMAIN streams : AnySession!Receive(i)
      BY <2>4
    <3>2. /\ streams[i].pipe # <<>>
          /\ \/ /\ mine' = 0
                /\ streams' = [j \in DOMAIN streams |->
                      IF j = mine THEN AnySession!Closed
                      ELSE IF j = i THEN [streams[i] EXCEPT !.pipe = Tail(streams[i].pipe)]
                      ELSE streams[j]]
             \/ /\ UNCHANGED mine
                /\ streams' = [streams EXCEPT ![i].pipe = Tail(streams[i].pipe)]
      BY <3>1 DEF AnySession!Receive, AnySession!OnDone
    <3>3. Tail(streams[i].pipe) \in Seq(SessionFrames)
      BY <1>3, <3>2
    <3>4. [streams[i] EXCEPT !.pipe = Tail(streams[i].pipe)] \in Streams
      BY <1>3, <3>3 DEF Streams
    <3>5. AnySession!Closed \in Streams
      BY DEF AnySession!Closed, Streams
    <3> QED
      BY <1>2, <3>2, <3>4, <3>5
  <2> QED
    BY <2>1, <2>2, <2>3, <2>4
<1> QED
  BY <1>1, <1>4 DEF SessionInv, SessionTyped, OneRun, SessionFollows

\* Every step keeps what is true of the runner and of its session, and the streams
\* there are.
LEMMA SessionKeeps ==
  ASSUME SessionInv, AnySession!Next
  PROVE  SessionInv' /\ DOMAIN streams' = DOMAIN streams
<1>1. CASE \/ \E s \in Reviewed : AnySession!Start("tab", s) \/ AnySession!Start("other", s)
           \/ AnySession!NotFound \/ AnySession!AddTree
           \/ AnySession!PrepareFails \/ AnySession!ReviewFails
  BY <1>1, RunnerKeeps
<1>2. CASE \/ AnySession!Found \/ AnySession!Reports \/ AnySession!Judges
           \/ AnySession!ReviewDone \/ AnySession!RunEnds
  BY <1>2, SessionWrites, WritesKeep
<1>3. CASE \/ \E g \in gets : \/ AnySession!Answers(g) \/ AnySession!AnswerFails(g)
                              \/ AnySession!GotRecord(g) \/ AnySession!GotNone(g)
           \/ AnySession!Retry
           \/ \E i \in DOMAIN streams : \/ AnySession!Connect(i) \/ AnySession!Drop(i)
                                        \/ AnySession!Receive(i)
  BY <1>3, BrowserKeeps
<1> QED
  BY <1>1, <1>2, <1>3 DEF AnySession!Next

\* A review whose worktree stays is written down, and nothing else leaves one.
LEMMA TreeKeeps ==
  ASSUME SessionInv, TreeLeft, AnySession!Next
  PROVE  TreeLeft'
<1> USE DEF AnySession!runner, AnySession!tab
<1>0. /\ flow # "none" => phase = "running" /\ lookup = NoLookup
      /\ lookup # NoLookup => phase = "running" /\ flow = "none"
  BY DEF SessionInv, OneRun
<1>1. CASE \E s \in Reviewed : AnySession!Start("tab", s) \/ AnySession!Start("other", s)
  <2>1. PICK s \in Reviewed : current' = s /\ phase # "running" /\ UNCHANGED <<flow, tree, left, last>>
    BY <1>1 DEF AnySession!Start, AnySession!MayStart
  <2> QED
    BY <1>0, <2>1 DEF TreeLeft
<1>2. CASE AnySession!NotFound
  <2>1. /\ lookup # NoLookup /\ phase' = lookup.before
        /\ UNCHANGED <<current, flow, tree, left, last>>
    BY <1>2 DEF AnySession!NotFound, AnySession!NoLookup, NoLookup
  <2> QED
    BY <1>0, <2>1 DEF TreeLeft
<1>3. CASE AnySession!AddTree \/ AnySession!PrepareFails \/ AnySession!ReviewFails
  <2>1. /\ flow # "none" /\ flow' # "none" /\ UNCHANGED <<phase, current, left, last>>
    BY <1>3 DEF AnySession!AddTree, AnySession!PrepareFails, AnySession!ReviewFails
  <2> QED
    BY <2>1 DEF TreeLeft
<1>4. CASE AnySession!Found
  <2>1. /\ lookup # NoLookup /\ flow' # "none" /\ UNCHANGED <<phase, current, left>>
        /\ last' = [phase |-> "running", of |-> current]
    BY <1>4 DEF AnySession!Found, AnySession!NoLookup, NoLookup
  <2>2. current \in Reviewed
    BY <1>0, <2>1 DEF TreeLeft
  <2> QED
    BY <2>1, <2>2 DEF TreeLeft
<1>5. CASE AnySession!Reports \/ AnySession!Judges \/ AnySession!ReviewDone
  <2>1. /\ flow # "none" /\ flow' # "none" /\ UNCHANGED <<phase, current, left, last>>
    BY <1>5 DEF AnySession!Reports, AnySession!Judges, AnySession!ReviewDone
  <2> QED
    BY <2>1 DEF TreeLeft
<1>6. CASE AnySession!RunEnds
  <2>1. /\ flow # "none" /\ flow' = "none" /\ UNCHANGED current
        /\ phase' \in {"done", "error"} /\ last' = [last EXCEPT !.phase = phase']
        /\ \/ tree' = FALSE /\ left' = left
           \/ left' = left \cup {current}
    BY <1>6 DEF AnySession!RunEnds, AnySession!Cleans, AnySession!Outcome
  <2>2. current \in Reviewed /\ last.of = current
    BY <1>0, <2>1 DEF TreeLeft
  <2>3. /\ last' \in [phase : {"idle", "running", "done", "error"}, of : Reviewed \cup {"none"}]
        /\ last'.of = current
    BY <2>1, <2>2 DEF TreeLeft
  <2> QED
    BY <2>1, <2>2, <2>3 DEF TreeLeft
<1>7. CASE \/ \E g \in gets : \/ AnySession!Answers(g) \/ AnySession!AnswerFails(g)
                              \/ AnySession!GotRecord(g) \/ AnySession!GotNone(g)
           \/ AnySession!Retry
           \/ \E i \in DOMAIN streams : \/ AnySession!Connect(i) \/ AnySession!Drop(i)
                                        \/ AnySession!Receive(i)
  <2>1. UNCHANGED <<phase, current, flow, tree, left, last>>
    BY <1>7, BrowserKeeps
  <2> QED
    BY <2>1 DEF TreeLeft
<1> QED
  BY <1>1, <1>2, <1>3, <1>4, <1>5, <1>6, <1>7 DEF AnySession!Next

-----------------------------------------------------------------------------

\* The reviews of two browsers are steps of the sessions above.
LEMMA SessionIsAny ==
  ASSUME SessionInv, Reviews \in Nat, AloneReviews \in Nat, Session!Next
  PROVE  AnySession!Next
<1> USE DEF Session!runner, Session!tab, AnySession!runner, AnySession!tab
<1>0. launches \in Nat
  BY DEF SessionInv, SessionTyped
<1>1. /\ \A by, s : Session!Start(by, s) => AnySession!Start(by, s)
      /\ Session!NotFound => AnySession!NotFound
  BY <1>0 DEF Session!Start, AnySession!Start, Session!MayStart, AnySession!MayStart,
         Session!NotFound, AnySession!NotFound, Session!NoLookup, AnySession!NoLookup
<1>2. Session!Found => AnySession!Found
  BY DEF Session!Found, AnySession!Found, Session!NoLookup, AnySession!NoLookup, Session!Blank,
         AnySession!Blank, Session!Emit, AnySession!Emit, Session!Status, AnySession!Status
<1>3. /\ Session!AddTree => AnySession!AddTree
      /\ Session!PrepareFails => AnySession!PrepareFails
      /\ Session!ReviewFails => AnySession!ReviewFails
  BY DEF Session!AddTree, AnySession!AddTree, Session!PrepareFails, AnySession!PrepareFails,
         Session!TreeRefused, AnySession!TreeRefused,
         Session!ReviewFails, AnySession!ReviewFails
<1>4. /\ Session!Reports => AnySession!Reports
      /\ Session!Judges => AnySession!Judges
      /\ Session!ReviewDone => AnySession!ReviewDone
  BY DEF Session!Reports, AnySession!Reports, Session!Judges, AnySession!Judges,
         Session!ReviewDone, AnySession!ReviewDone, Session!Emit, AnySession!Emit,
         Session!Status, AnySession!Status, Session!Frame, AnySession!Frame
<1>5. Session!RunEnds => AnySession!RunEnds
  BY DEF Session!RunEnds, AnySession!RunEnds, Session!Cleans, AnySession!Cleans,
         Session!TellsError, AnySession!TellsError, Session!Outcome, AnySession!Outcome,
         Session!Emit, AnySession!Emit, Session!Status, AnySession!Status
<1>6. \A g : /\ Session!Answers(g) => AnySession!Answers(g)
             /\ Session!AnswerFails(g) => AnySession!AnswerFails(g)
             /\ Session!GotRecord(g) => AnySession!GotRecord(g)
             /\ Session!GotNone(g) => AnySession!GotNone(g)
  BY DEF Session!Answers, AnySession!Answers, Session!AnswerFails, AnySession!AnswerFails,
         Session!GotRecord, AnySession!GotRecord,
         Session!GotNone, AnySession!GotNone, Session!Unopened, AnySession!Unopened
<1>7. \A i : /\ Session!Connect(i) => AnySession!Connect(i)
             /\ Session!Drop(i) => AnySession!Drop(i)
  BY DEF Session!Connect, AnySession!Connect, Session!Replay, AnySession!Replay,
         Session!DoneUntold, AnySession!DoneUntold, Session!Status, AnySession!Status,
         Session!Frame, AnySession!Frame, Session!Drop, AnySession!Drop
<1>8. \A i : Session!Receive(i) => AnySession!Receive(i)
  BY DEF Session!Receive, AnySession!Receive, Session!OnDone, AnySession!OnDone,
         Session!Closed, AnySession!Closed
<1>16. Session!Retry => AnySession!Retry
  BY DEF Session!Retry, AnySession!Retry
<1> HIDE DEF Session!runner, Session!tab, AnySession!runner, AnySession!tab
<1>9. ASSUME \E s \in Reviewed : Session!Start("tab", s) \/ Session!Start("other", s)
      PROVE  \E s \in Reviewed : AnySession!Start("tab", s) \/ AnySession!Start("other", s)
  BY <1>1, <1>9
<1>10. ASSUME \E g \in gets : \/ Session!Answers(g) \/ Session!AnswerFails(g)
                              \/ Session!GotRecord(g) \/ Session!GotNone(g)
       PROVE  \E g \in gets : \/ AnySession!Answers(g) \/ AnySession!AnswerFails(g)
                               \/ AnySession!GotRecord(g) \/ AnySession!GotNone(g)
  BY <1>6, <1>10
<1>11. ASSUME \E i \in DOMAIN streams : Session!Connect(i) \/ Session!Drop(i) \/ Session!Receive(i)
       PROVE  \E i \in DOMAIN streams : \/ AnySession!Connect(i) \/ AnySession!Drop(i)
                                         \/ AnySession!Receive(i)
  BY <1>7, <1>8, <1>11
<1> QED
  BY <1>1, <1>2, <1>3, <1>4, <1>5, <1>9, <1>10, <1>11, <1>16 DEF Session!Next, AnySession!Next

\* What moves the reviews of a browser that is alone: nobody else launches one, and
\* what is to be reviewed is found.
AloneSteps ==
  \/ \E s \in Reviewed : AnySession!Start("tab", s)
  \/ AnySession!AddTree \/ AnySession!PrepareFails \/ AnySession!ReviewFails
  \/ AnySession!Found \/ AnySession!Reports \/ AnySession!Judges
  \/ AnySession!ReviewDone \/ AnySession!RunEnds
  \/ \E g \in gets : \/ AnySession!Answers(g) \/ AnySession!AnswerFails(g)
                     \/ AnySession!GotRecord(g) \/ AnySession!GotNone(g)
  \/ AnySession!Retry
  \/ \E i \in DOMAIN streams : \/ AnySession!Connect(i) \/ AnySession!Drop(i)
                               \/ AnySession!Receive(i)

\* The reviews of a browser that is alone are steps of the sessions above.
LEMMA AloneIsAny ==
  ASSUME SessionInv, Reviews \in Nat, AloneReviews \in Nat, Alone!Next
  PROVE  AnySession!Next /\ AloneSteps
<1> USE DEF Alone!runner, Alone!tab, AnySession!runner, AnySession!tab
<1>0. launches \in Nat
  BY DEF SessionInv, SessionTyped
<1>1. /\ \A by, s : Alone!Start(by, s) => AnySession!Start(by, s)
      /\ Alone!NotFound => AnySession!NotFound
  BY <1>0 DEF Alone!Start, AnySession!Start, Alone!MayStart, AnySession!MayStart,
         Alone!NotFound, AnySession!NotFound, Alone!NoLookup, AnySession!NoLookup
<1>2. Alone!Found => AnySession!Found
  BY DEF Alone!Found, AnySession!Found, Alone!NoLookup, AnySession!NoLookup, Alone!Blank,
         AnySession!Blank, Alone!Emit, AnySession!Emit, Alone!Status, AnySession!Status
<1>3. /\ Alone!AddTree => AnySession!AddTree
      /\ Alone!PrepareFails => AnySession!PrepareFails
      /\ Alone!ReviewFails => AnySession!ReviewFails
  BY DEF Alone!AddTree, AnySession!AddTree, Alone!PrepareFails, AnySession!PrepareFails,
         Alone!TreeRefused, AnySession!TreeRefused,
         Alone!ReviewFails, AnySession!ReviewFails
<1>4. /\ Alone!Reports => AnySession!Reports
      /\ Alone!Judges => AnySession!Judges
      /\ Alone!ReviewDone => AnySession!ReviewDone
  BY DEF Alone!Reports, AnySession!Reports, Alone!Judges, AnySession!Judges,
         Alone!ReviewDone, AnySession!ReviewDone, Alone!Emit, AnySession!Emit,
         Alone!Status, AnySession!Status, Alone!Frame, AnySession!Frame
<1>5. Alone!RunEnds => AnySession!RunEnds
  BY DEF Alone!RunEnds, AnySession!RunEnds, Alone!Cleans, AnySession!Cleans,
         Alone!TellsError, AnySession!TellsError, Alone!Outcome, AnySession!Outcome,
         Alone!Emit, AnySession!Emit, Alone!Status, AnySession!Status
<1>6. \A g : /\ Alone!Answers(g) => AnySession!Answers(g)
             /\ Alone!AnswerFails(g) => AnySession!AnswerFails(g)
             /\ Alone!GotRecord(g) => AnySession!GotRecord(g)
             /\ Alone!GotNone(g) => AnySession!GotNone(g)
  BY DEF Alone!Answers, AnySession!Answers, Alone!AnswerFails, AnySession!AnswerFails,
         Alone!GotRecord, AnySession!GotRecord,
         Alone!GotNone, AnySession!GotNone, Alone!Unopened, AnySession!Unopened
<1>7. \A i : /\ Alone!Connect(i) => AnySession!Connect(i)
             /\ Alone!Drop(i) => AnySession!Drop(i)
  BY DEF Alone!Connect, AnySession!Connect, Alone!Replay, AnySession!Replay,
         Alone!DoneUntold, AnySession!DoneUntold, Alone!Status, AnySession!Status,
         Alone!Frame, AnySession!Frame, Alone!Drop, AnySession!Drop
<1>8. \A i : Alone!Receive(i) => AnySession!Receive(i)
  BY DEF Alone!Receive, AnySession!Receive, Alone!OnDone, AnySession!OnDone,
         Alone!Closed, AnySession!Closed
<1>16. Alone!Retry => AnySession!Retry
  BY DEF Alone!Retry, AnySession!Retry
<1> HIDE DEF Alone!runner, Alone!tab, AnySession!runner, AnySession!tab
<1>9. ASSUME \E s \in Reviewed : Alone!Start("tab", s) \/ Alone!Start("other", s)
      PROVE  \E s \in Reviewed : AnySession!Start("tab", s) \/ AnySession!Start("other", s)
  BY <1>1, <1>9
<1>10. ASSUME \E g \in gets : \/ Alone!Answers(g) \/ Alone!AnswerFails(g)
                              \/ Alone!GotRecord(g) \/ Alone!GotNone(g)
       PROVE  \E g \in gets : \/ AnySession!Answers(g) \/ AnySession!AnswerFails(g)
                               \/ AnySession!GotRecord(g) \/ AnySession!GotNone(g)
  BY <1>6, <1>10
<1>11. ASSUME \E i \in DOMAIN streams : Alone!Connect(i) \/ Alone!Drop(i) \/ Alone!Receive(i)
       PROVE  \E i \in DOMAIN streams : \/ AnySession!Connect(i) \/ AnySession!Drop(i)
                                         \/ AnySession!Receive(i)
  BY <1>7, <1>8, <1>11
<1>12. ~ Alone!NotFound /\ \A s : ~ Alone!Start("other", s)
  BY DEF Alone!NotFound, Alone!Start
<1>13. (\E s \in Reviewed : Alone!Start("tab", s) \/ Alone!Start("other", s))
         => \E s \in Reviewed : AnySession!Start("tab", s)
  BY <1>1, <1>12
<1> HIDE DEF AloneSteps
<1>14. AloneSteps
  BY <1>2, <1>3, <1>4, <1>5, <1>10, <1>11, <1>12, <1>13, <1>16 DEF Alone!Next, AloneSteps
<1>15. AnySession!Next
  BY <1>14 DEF AnySession!Next, AloneSteps
<1> QED
  BY <1>14, <1>15

-----------------------------------------------------------------------------

\* What a browser that is alone waits for: a record or an error it shows, a record
\* that comes, or a question that opens a stream when there is none.
Asks(f, kinds) == \E g \in gets : g.for = f /\ g.answer \in kinds
RecordComes == \E g \in gets : g.answer = "record"
Awaits ==
  \/ shown.record # 0 \/ shown.error = TRUE
  \/ Asks("load", {"asked", "none"}) \/ RecordComes

\* A stream that will tell of the end of the run, and one with a done of an old run.
Listens(s) ==
  \/ s.state = "connecting"
  \/ s.state = "open" /\ (session.phase # "done" \/ HasDone(s.pipe))
Outdated(s) == s.state = "open" /\ HasDone(s.pipe) /\ session.phase # "done"

\* What the runner says of its last run is what that came to.
LastIs ==
  /\ phase \in {"done", "error"} => last = [phase |-> phase, of |-> current]
  /\ flow # "none" => last = [phase |-> "running", of |-> current]
  /\ lookup # NoLookup => lookup.by = "tab"

GetsTyped ==
  \A g \in gets :
    /\ g.for \in {"load", "done"} /\ g.answer \in {"asked", "none", "record"}
    /\ g.answer = "record" => g.of # 0

ShownTyped ==
  {"phase", "of", "record", "partial", "judge", "asked", "error"} \subseteq DOMAIN shown

\* A browser that has launched a review waits for a record or listens; a done of an
\* old run closes its stream only when it waits for one.
ViewHolds ==
  shown.asked = TRUE =>
    \/ Awaits \/ \E i \in DOMAIN streams : Listens(streams[i])
    \/ session.record # 0 /\ Asks("done", {"asked"})
OldDoneIsHarmless == mine # 0 /\ Outdated(streams[mine]) => Awaits

AloneInv == LastIs /\ GetsTyped /\ ShownTyped /\ ViewHolds /\ OldDoneIsHarmless

\* A step that leaves the browser, the session and the streams alone.
LEMMA AloneRunnerKeeps ==
  ASSUME SessionInv, AloneInv,
         \/ \E s \in Reviewed : AnySession!Start("tab", s)
         \/ AnySession!AddTree \/ AnySession!PrepareFails \/ AnySession!ReviewFails
  PROVE  AloneInv'
<1> USE DEF AnySession!runner, AnySession!tab, AnySession!vars
<1>1. UNCHANGED <<session, shown, mine, gets, streams, last>>
  BY DEF AnySession!Start, AnySession!AddTree, AnySession!PrepareFails,
         AnySession!ReviewFails
<1>2. LastIs'
  <2>1. CASE \E s \in Reviewed : AnySession!Start("tab", s)
    <3>1. /\ phase' = "running" /\ lookup' = [before |-> phase, by |-> "tab"] /\ phase # "running"
          /\ UNCHANGED <<flow, last>>
      BY <2>1 DEF AnySession!Start, AnySession!MayStart
    <3>2. flow' = "none"
      BY <3>1 DEF SessionInv, OneRun
    <3> QED
      BY <3>1, <3>2 DEF LastIs
  <2>2. CASE AnySession!AddTree \/ AnySession!PrepareFails \/ AnySession!ReviewFails
    <3>1. UNCHANGED <<phase, current, lookup, last>> /\ flow # "none"
      BY <2>2 DEF AnySession!AddTree, AnySession!PrepareFails, AnySession!ReviewFails
    <3> QED
      BY <3>1 DEF AloneInv, LastIs
  <2> QED
    BY <2>1, <2>2
<1> QED
  BY <1>1, <1>2
  DEF AloneInv, GetsTyped, ShownTyped, ViewHolds, OldDoneIsHarmless, Awaits, Asks,
      RecordComes, Listens, Outdated

\* A review that starts: the browser forgets what it shows, and asks.
LEMMA AloneFound ==
  ASSUME SessionInv, AloneInv, AnySession!Found
  PROVE  AloneInv'
<1>1. /\ lookup # NoLookup /\ lookup' = NoLookup /\ phase' = phase
      /\ last' = [phase |-> "running", of |-> current] /\ current' = current
      /\ IF lookup.by = "tab"
         THEN /\ shown' = [shown EXCEPT !.record = 0, !.phase = "none", !.of = 0, !.asked = TRUE,
                                       !.error = FALSE]
              /\ gets' = gets \cup {[for |-> "load", answer |-> "asked"]}
         ELSE UNCHANGED <<shown, gets>>
  BY DEF AnySession!Found, AnySession!NoLookup, NoLookup
<1>2. /\ DOMAIN shown' = DOMAIN shown
      /\ gets' = gets \cup {[for |-> "load", answer |-> "asked"]}
  BY <1>1 DEF AloneInv, LastIs
<1>3. GetsTyped' /\ Asks("load", {"asked", "none"})'
  <2> DEFINE h == [for |-> "load", answer |-> "asked"]
  <2>1. h.for = "load" /\ h.answer = "asked" /\ h \in gets'
    BY <1>2
  <2>2. \A g \in gets' : g \in gets \/ g = h
    BY <1>2
  <2> HIDE DEF h
  <2> QED
    BY <2>1, <2>2 DEF AloneInv, GetsTyped, Asks
<1>4. phase' = "running"
  BY <1>1 DEF SessionInv, OneRun
<1> QED
  BY <1>1, <1>2, <1>3, <1>4
  DEF AloneInv, LastIs, ShownTyped, ViewHolds, OldDoneIsHarmless, Awaits

\* What is written to the session is told to who listens.
LEMMA AloneWrites ==
  ASSUME SessionInv, AloneInv,
         \/ AnySession!Reports \/ AnySession!Judges
         \/ AnySession!ReviewDone \/ AnySession!RunEnds
  PROVE  AloneInv'
<1> USE DEF AnySession!runner, AnySession!tab
<1>1. SessionWritten /\ UNCHANGED <<current, mine>> /\ flow # "none"
  <2>1. flow # "none"
    BY DEF AnySession!Reports, AnySession!Judges, AnySession!ReviewDone, AnySession!RunEnds
  <2> QED
    BY <2>1, SessionWrites
<1>2. UNCHANGED <<shown, gets>>
  BY DEF AnySession!Reports, AnySession!Judges, AnySession!ReviewDone, AnySession!RunEnds
<1>3. /\ session.phase = "done" <=> session.record # 0
      /\ flow \in {"reviewing", "failed"} => session.record = 0
      /\ lookup = NoLookup /\ run \in Nat \ {0} /\ phase = "running"
      /\ streams \in [DOMAIN streams -> Streams] /\ mine \in {0} \cup DOMAIN streams
  BY <1>1 DEF SessionInv, SessionTyped, OneRun, SessionFollows
<1>4. /\ session.record # 0 => session'.record # 0
      /\ session'.phase # "done" => session.phase # "done"
  BY <1>1, <1>3 DEF SessionWritten
<1>5. \/ UNCHANGED <<session, streams>>
      \/ SessionTold("status") /\ session'.phase # "done"
      \/ SessionTold("done") /\ session'.phase = "done"
  BY <1>1, <1>3 DEF SessionWritten
<1>6. ASSUME NEW i \in DOMAIN streams
      PROVE  /\ Listens(streams[i]) => i \in DOMAIN streams' /\ Listens(streams[i])'
             /\ Outdated(streams[i])' => Outdated(streams[i])
  <2>1. CASE UNCHANGED <<session, streams>>
    BY <2>1 DEF Listens, Outdated
  <2>2. CASE SessionTold("status") /\ session'.phase # "done"
    <3>1. PICK fs \in Seq(SessionFrames) :
                 /\ \A j \in DOMAIN fs : fs[j].kind # "done"
                 /\ AnySession!Emit(fs)
      BY <2>2 DEF SessionTold
    <3>2. /\ i \in DOMAIN streams' /\ streams'[i].state = streams[i].state
          /\ streams[i].state = "open" => streams'[i].pipe = streams[i].pipe \o fs
      BY <1>3, <3>1, SessionEmits
    <3>3. streams[i].state = "open" => (HasDone(streams'[i].pipe) => HasDone(streams[i].pipe))
      <4>1. streams[i].pipe \in Seq(SessionFrames) /\ ~ HasDone(fs)
        BY <1>3, <3>1 DEF Streams, HasDone
      <4>2. HasDone(streams[i].pipe \o fs) => HasDone(streams[i].pipe)
        BY <4>1, DoneOfEither
      <4> QED
        BY <3>2, <4>2 DEF HasDone
    <3> QED
      BY <1>4, <2>2, <3>2, <3>3 DEF Listens, Outdated
  <2>3. CASE SessionTold("done") /\ session'.phase = "done"
    <3>1. PICK fs \in Seq(SessionFrames) : HasDone(fs) /\ AnySession!Emit(fs)
      BY <2>3 DEF SessionTold
    <3>2. /\ i \in DOMAIN streams' /\ streams'[i].state = streams[i].state
          /\ streams[i].state = "open" => streams'[i].pipe = streams[i].pipe \o fs
      BY <1>3, <3>1, SessionEmits
    <3>3. streams[i].state = "open" => HasDone(streams'[i].pipe)
      <4>1. streams[i].pipe \in Seq(SessionFrames)
        BY <1>3 DEF Streams
      <4>2. HasDone(streams[i].pipe \o fs)
        BY <3>1, <4>1, DoneOfEither
      <4> QED
        BY <3>2, <4>2 DEF HasDone
    <3> QED
      BY <2>3, <3>2, <3>3 DEF Listens, Outdated
  <2> QED
    BY <1>5, <2>1, <2>2, <2>3
<1>7. LastIs'
  <2>1. last = [phase |-> "running", of |-> current]
    BY <1>1 DEF AloneInv, LastIs
  <2>2. CASE AnySession!RunEnds
    <3>1. /\ last' = [last EXCEPT !.phase = phase'] /\ flow' = "none" /\ lookup' = lookup
      BY <2>2 DEF AnySession!RunEnds
    <3>2. last' = [phase |-> phase', of |-> current]
      BY <2>1, <3>1
    <3> QED
      BY <1>1, <1>3, <3>1, <3>2 DEF LastIs
  <2>3. CASE AnySession!Reports \/ AnySession!Judges \/ AnySession!ReviewDone
    <3>1. UNCHANGED <<phase, lookup, last>>
      BY <2>3 DEF AnySession!Reports, AnySession!Judges, AnySession!ReviewDone
    <3> QED
      BY <1>1, <1>3, <2>1, <3>1 DEF LastIs
  <2> QED
    BY <2>2, <2>3
<1>8. Awaits' <=> Awaits
  BY <1>2 DEF Awaits, Asks, RecordComes
<1>9. ViewHolds'
  BY <1>2, <1>4, <1>6, <1>8 DEF AloneInv, ViewHolds, Asks
<1>10. OldDoneIsHarmless'
  BY <1>1, <1>3, <1>6, <1>8 DEF AloneInv, OldDoneIsHarmless
<1> QED
  BY <1>2, <1>7, <1>9, <1>10 DEF AloneInv, GetsTyped, ShownTyped

\* An answer that is given: to one that asks for a record there is, a record comes.
LEMMA AloneAnswers ==
  ASSUME SessionInv, AloneInv, NEW g \in gets, AnySession!Answers(g)
  PROVE  AloneInv'
<1> USE DEF AnySession!runner
<1> DEFINE h == [for |-> g.for, answer |-> IF session.record = 0 THEN "none" ELSE "record",
                 of |-> session.record]
<1>1. /\ g.answer = "asked" /\ gets' = (gets \ {g}) \cup {h}
      /\ UNCHANGED <<phase, current, lookup, flow, session, shown, mine, streams, last>>
  BY DEF AnySession!Answers
<1>2. /\ h.for = g.for /\ h.of = session.record
      /\ h.answer = IF session.record = 0 THEN "none" ELSE "record"
  OBVIOUS
<1> HIDE DEF h
<1>3. GetsTyped'
  BY <1>1, <1>2 DEF AloneInv, GetsTyped
<1>4. h \in gets' /\ \A x \in gets : x # g => x \in gets'
  BY <1>1
<1>5. Asks("load", {"asked", "none"}) => Asks("load", {"asked", "none"})' \/ RecordComes'
  BY <1>2, <1>4 DEF Asks, RecordComes
<1>6. RecordComes => RecordComes'
  BY <1>1, <1>4 DEF RecordComes
<1>7. session.record # 0 /\ Asks("done", {"asked"}) => Asks("done", {"asked"})' \/ RecordComes'
  BY <1>2, <1>4 DEF Asks, RecordComes
<1>8. Awaits => Awaits'
  BY <1>1, <1>5, <1>6 DEF Awaits
<1>9. RecordComes' => Awaits'
  BY DEF Awaits
<1>10. ViewHolds'
  BY <1>1, <1>7, <1>8, <1>9 DEF AloneInv, ViewHolds, Listens
<1>11. OldDoneIsHarmless'
  BY <1>1, <1>8 DEF AloneInv, OldDoneIsHarmless, Outdated
<1> QED
  BY <1>1, <1>3, <1>10, <1>11 DEF AloneInv, LastIs, ShownTyped

\* A request that fails is shown to have, and one that is made again is awaited.
LEMMA AloneErrs ==
  ASSUME SessionInv, AloneInv,
         (\E g \in gets : AnySession!AnswerFails(g)) \/ AnySession!Retry
  PROVE  AloneInv'
<1> USE DEF AnySession!runner
<1> DEFINE h == [for |-> "load", answer |-> "asked"]
<1>1. /\ UNCHANGED <<phase, current, lookup, flow, session, mine, streams, last>>
      /\ \/ gets' \subseteq gets /\ shown' = [shown EXCEPT !.error = TRUE]
         \/ gets' = gets \cup {h} /\ shown' = [shown EXCEPT !.error = FALSE]
  BY DEF AnySession!AnswerFails, AnySession!Retry
<1>2. h.for = "load" /\ h.answer = "asked"
  OBVIOUS
<1> HIDE DEF h
<1>3. ShownTyped' /\ GetsTyped'
  BY <1>1, <1>2 DEF AloneInv, ShownTyped, GetsTyped
<1>4. Awaits'
  <2>1. CASE shown' = [shown EXCEPT !.error = TRUE]
    <3>1. shown'.error = TRUE
      BY <2>1 DEF AloneInv, ShownTyped
    <3> QED
      BY <3>1 DEF Awaits
  <2>2. CASE gets' = gets \cup {h}
    BY <1>2, <2>2 DEF Awaits, Asks
  <2> QED
    BY <1>1, <2>1, <2>2
<1> QED
  BY <1>1, <1>3, <1>4 DEF AloneInv, LastIs, ViewHolds, OldDoneIsHarmless

\* An answer that comes is shown, or opens a stream, or changes nothing.
LEMMA AloneGets ==
  ASSUME SessionInv, AloneInv, NEW g \in gets,
         AnySession!GotRecord(g) \/ AnySession!GotNone(g)
  PROVE  AloneInv'
<1> USE DEF AnySession!runner
<1>1. CASE AnySession!GotRecord(g)
  <2>1. /\ g.answer = "record" /\ gets' = gets \ {g}
        /\ shown' = [shown EXCEPT !.record = g.of]
        /\ UNCHANGED <<phase, current, lookup, flow, session, mine, streams, last>>
    BY <1>1 DEF AnySession!GotRecord
  <2>2. shown'.record # 0 /\ DOMAIN shown' = DOMAIN shown
    BY <2>1 DEF AloneInv, GetsTyped, ShownTyped
  <2>3. Awaits'
    BY <2>2 DEF Awaits
  <2> QED
    BY <2>1, <2>2, <2>3
    DEF AloneInv, LastIs, GetsTyped, ShownTyped, ViewHolds, OldDoneIsHarmless
<1>2. CASE AnySession!GotNone(g)
  <2>1. /\ g.answer = "none" /\ gets' = gets \ {g}
        /\ UNCHANGED <<phase, current, lookup, flow, session, shown, last>>
        /\ IF g.for = "load"
           THEN \E i \in DOMAIN streams :
                  mine' = i /\ streams' = [streams EXCEPT ![i].state = "connecting"]
           ELSE UNCHANGED <<mine, streams>>
    BY <1>2 DEF AnySession!GotNone, AnySession!Unopened
  <2>2. /\ RecordComes => RecordComes'
        /\ Asks("done", {"asked"}) => Asks("done", {"asked"})'
    BY <2>1 DEF RecordComes, Asks
  <2>3. CASE g.for = "load"
    <3>1. PICK i \in DOMAIN streams :
                 mine' = i /\ streams' = [streams EXCEPT ![i].state = "connecting"]
      BY <2>1, <2>3
    <3>2. i \in DOMAIN streams' /\ streams'[i].state = "connecting"
      <4>1. streams[i] \in Streams
        BY DEF SessionInv, SessionTyped
      <4>2. streams'[i] = [streams[i] EXCEPT !.state = "connecting"]
        BY <3>1
      <4>3. i \in DOMAIN streams'
        BY <3>1
      <4> QED
        BY <4>1, <4>2, <4>3 DEF Streams
    <3>3. ViewHolds'
      BY <3>2 DEF ViewHolds, Listens
    <3>4. OldDoneIsHarmless'
      BY <3>1, <3>2 DEF OldDoneIsHarmless, Outdated
    <3> QED
      BY <2>1, <3>3, <3>4 DEF AloneInv, LastIs, GetsTyped, ShownTyped
  <2>4. CASE g.for # "load"
    <3>1. Asks("load", {"asked", "none"}) => Asks("load", {"asked", "none"})'
      BY <2>1, <2>4 DEF Asks
    <3>2. Awaits => Awaits'
      BY <2>1, <2>2, <3>1 DEF Awaits
    <3>3. UNCHANGED <<mine, streams>>
      BY <2>1, <2>4
    <3>4. ViewHolds'
      BY <2>1, <2>2, <3>2, <3>3 DEF AloneInv, ViewHolds, Listens
    <3>5. OldDoneIsHarmless'
      BY <2>1, <3>2, <3>3 DEF AloneInv, OldDoneIsHarmless, Outdated
    <3> QED
      BY <2>1, <3>4, <3>5 DEF AloneInv, LastIs, GetsTyped, ShownTyped
  <2> QED
    BY <2>3, <2>4
<1> QED
  BY <1>1, <1>2

\* A stream that connects is told of the end of the run if it is over, and one that
\* is cut connects again.
LEMMA AloneConnects ==
  ASSUME SessionInv, AloneInv, NEW i \in DOMAIN streams,
         AnySession!Connect(i) \/ AnySession!Drop(i)
  PROVE  AloneInv'
<1> USE DEF AnySession!runner, AnySession!tab
<1>1. UNCHANGED <<phase, current, lookup, flow, session, shown, mine, gets, last>>
  BY DEF AnySession!Connect, AnySession!Drop
<1>2. /\ DOMAIN streams' = DOMAIN streams
         /\ \A j \in DOMAIN streams \ {i} : streams'[j] = streams[j]
      /\ \/ streams'[i] = [state |-> "open", pipe |-> AnySession!Replay(session)]
         \/ streams'[i] = [state |-> "connecting", pipe |-> <<>>]
  BY DEF AnySession!Connect, AnySession!Drop
<1>3. Listens(streams[i])' /\ ~ Outdated(streams[i])'
  <2>1. CASE streams'[i] = [state |-> "open", pipe |-> AnySession!Replay(session)]
    <3>1. session.phase = "done" <=> HasDone(AnySession!Replay(session))
      BY ReplayTypes DEF SessionInv, SessionTyped
    <3>2. streams'[i].state = "open" /\ streams'[i].pipe = AnySession!Replay(session)
      BY <2>1
    <3> HIDE DEF HasDone
    <3>3. HasDone(streams'[i].pipe) <=> HasDone(AnySession!Replay(session))
      BY <3>2 DEF HasDone
    <3> QED
      BY <1>1, <3>1, <3>2, <3>3 DEF Listens, Outdated
  <2>2. CASE streams'[i] = [state |-> "connecting", pipe |-> <<>>]
    BY <2>2 DEF Listens, Outdated
  <2> QED
    BY <1>2, <2>1, <2>2
<1>4. Awaits' <=> Awaits
  BY <1>1 DEF Awaits, Asks, RecordComes
<1>5. ViewHolds'
  BY <1>1, <1>2, <1>3, <1>4 DEF AloneInv, ViewHolds
<1>6. OldDoneIsHarmless'
  <2>1. CASE mine = i
    BY <1>1, <1>3, <2>1 DEF OldDoneIsHarmless
  <2>2. CASE mine # i
    <3>1. mine # 0 => streams'[mine] = streams[mine]
      BY <1>2, <2>2 DEF SessionInv, SessionTyped
    <3> QED
      BY <1>1, <1>4, <3>1 DEF AloneInv, OldDoneIsHarmless, Outdated
  <2> QED
    BY <2>1, <2>2
<1> QED
  BY <1>1, <1>5, <1>6 DEF AloneInv, LastIs, GetsTyped, ShownTyped

\* A frame that is read: a done closes the browser's stream and asks for the record,
\* the others leave what the stream tells next.
LEMMA AloneReceives ==
  ASSUME SessionInv, AloneInv, NEW i \in DOMAIN streams, AnySession!Receive(i)
  PROVE  AloneInv'
<1> USE DEF AnySession!runner
<1> DEFINE frame == Head(streams[i].pipe)
<1>1. /\ UNCHANGED <<phase, current, lookup, flow, session, last>>
      /\ streams[i].state = "open" /\ streams[i].pipe # <<>>
  BY DEF AnySession!Receive
<1>2. /\ streams[i].pipe \in Seq(SessionFrames) /\ streams[i] \in Streams
      /\ streams \in [DOMAIN streams -> Streams] /\ mine \in {0} \cup DOMAIN streams
      /\ session.phase = "done" <=> session.record # 0
  BY DEF SessionInv, SessionTyped, SessionFollows, Streams
<1>3. CASE frame.kind = "done"
  <2> DEFINE h == [for |-> "done", answer |-> "asked"]
  <2>1. /\ mine' = 0 /\ shown' = shown /\ gets' = gets \cup {h}
        /\ streams' = [j \in DOMAIN streams |->
              IF j = mine THEN AnySession!Closed
              ELSE IF j = i THEN [streams[i] EXCEPT !.pipe = Tail(streams[i].pipe)]
              ELSE streams[j]]
    BY <1>3 DEF AnySession!Receive, AnySession!OnDone
  <2>2. h.for = "done" /\ h.answer = "asked" /\ h \in gets' /\ gets \subseteq gets'
    BY <2>1
  <2>3. GetsTyped'
    BY <2>1, <2>2 DEF AloneInv, GetsTyped
  <2> HIDE DEF h
  <2>4. Asks("done", {"asked"})' /\ (Awaits => Awaits')
    BY <2>1, <2>2 DEF Awaits, Asks, RecordComes
  <2>5. HasDone(streams[i].pipe)
    BY <1>1, <1>2, <1>3, DoneIsBehind
  <2>6. ViewHolds'
    <3>1. CASE session.record # 0
      BY <1>1, <2>4, <3>1 DEF ViewHolds
    <3>2. CASE session.record = 0 /\ mine = i
      <4>1. Outdated(streams[mine]) /\ mine # 0
        <5>1. session.phase # "done"
          BY <1>2, <3>2
        <5>2. i # 0
          BY DEF SessionInv, SessionTyped
        <5> QED
          BY <1>1, <2>5, <3>2, <5>1, <5>2 DEF Outdated
      <4> QED
        BY <2>4, <4>1 DEF AloneInv, OldDoneIsHarmless, ViewHolds
    <3>3. CASE session.record = 0 /\ mine # i
      <4>1. i \in DOMAIN streams' /\ streams'[i].state = "open"
        BY <1>1, <1>2, <2>1, <3>3 DEF Streams
      <4>2. Listens(streams[i])'
        BY <1>1, <1>2, <3>3, <4>1 DEF Listens
      <4> QED
        BY <4>1, <4>2 DEF ViewHolds
    <3> QED
      BY <3>1, <3>2, <3>3
  <2>7. OldDoneIsHarmless'
    BY <2>1 DEF OldDoneIsHarmless
  <2> QED
    BY <1>1, <2>1, <2>3, <2>6, <2>7 DEF AloneInv, LastIs, ShownTyped
<1>4. CASE frame.kind # "done"
  <2>1. /\ streams' = [streams EXCEPT ![i].pipe = Tail(streams[i].pipe)]
        /\ UNCHANGED <<mine, gets>>
    BY <1>4 DEF AnySession!Receive
  <2>2. /\ DOMAIN shown' = DOMAIN shown /\ shown'.record = shown.record
        /\ shown'.asked = shown.asked /\ shown'.error = shown.error
    <3>1. \/ shown' = [shown EXCEPT !.phase = frame.what.phase, !.of = frame.what.of]
          \/ shown' = [shown EXCEPT !.partial = frame.what]
          \/ shown' = [shown EXCEPT !.judge = frame.what]
      <4>1. frame.kind \in {"status", "partial", "judge"}
        <5>1. frame \in SessionFrames
          BY <1>1, <1>2
        <5> QED
          BY <1>4, <5>1 DEF SessionFrames
      <4> QED
        BY <1>4, <4>1 DEF AnySession!Receive
    <3> QED
      BY <3>1 DEF AloneInv, ShownTyped
  <2>3. /\ DOMAIN streams' = DOMAIN streams
           /\ \A j \in DOMAIN streams \ {i} : streams'[j] = streams[j]
        /\ streams'[i].state = streams[i].state
        /\ streams'[i].pipe = Tail(streams[i].pipe)
    BY <1>2, <2>1 DEF Streams
  <2>4. HasDone(Tail(streams[i].pipe)) <=> HasDone(streams[i].pipe)
    BY <1>1, <1>2, <1>4, DoneIsBehind
  <2>5. HasDone(streams'[i].pipe) <=> HasDone(streams[i].pipe)
    BY <2>3, <2>4 DEF HasDone
  <2>6. \A j \in DOMAIN streams : /\ Listens(streams[j])' <=> Listens(streams[j])
                                  /\ Outdated(streams[j])' <=> Outdated(streams[j])
    BY <1>1, <2>3, <2>5 DEF Listens, Outdated
  <2>7. Awaits' <=> Awaits
    BY <2>1, <2>2 DEF Awaits, Asks, RecordComes
  <2>8. ViewHolds'
    BY <1>1, <2>1, <2>2, <2>3, <2>6, <2>7 DEF AloneInv, ViewHolds, Asks
  <2>9. OldDoneIsHarmless'
    BY <1>2, <2>1, <2>6, <2>7 DEF AloneInv, OldDoneIsHarmless
  <2> QED
    BY <1>1, <2>1, <2>2, <2>8, <2>9 DEF AloneInv, LastIs, GetsTyped, ShownTyped
<1> QED
  BY <1>3, <1>4

\* Every step of a browser that is alone keeps what it waits for.
LEMMA AloneKeeps ==
  ASSUME SessionInv, AloneInv, AloneSteps
  PROVE  AloneInv'
<1>1. CASE \/ \E s \in Reviewed : AnySession!Start("tab", s)
           \/ AnySession!AddTree \/ AnySession!PrepareFails \/ AnySession!ReviewFails
  BY <1>1, AloneRunnerKeeps
<1>2. CASE AnySession!Found
  BY <1>2, AloneFound
<1>3. CASE \/ AnySession!Reports \/ AnySession!Judges
           \/ AnySession!ReviewDone \/ AnySession!RunEnds
  BY <1>3, AloneWrites
<1>4. CASE \/ \E g \in gets : \/ AnySession!Answers(g) \/ AnySession!AnswerFails(g)
                              \/ AnySession!GotRecord(g) \/ AnySession!GotNone(g)
           \/ AnySession!Retry
  BY <1>4, AloneAnswers, AloneErrs, AloneGets
<1>5. CASE \E i \in DOMAIN streams : \/ AnySession!Connect(i) \/ AnySession!Drop(i)
                                     \/ AnySession!Receive(i)
  BY <1>5, AloneConnects, AloneReceives
<1> QED
  BY <1>1, <1>2, <1>3, <1>4, <1>5 DEF AloneSteps

\* The streams there are when nothing has been reviewed yet.
LEMMA SessionStarts ==
  ASSUME SessionStreams \in Nat, Session!Init
  PROVE  SessionInv /\ DOMAIN streams = 1 .. SessionStreams /\ TreeLeft
<1>1. /\ phase = "idle" /\ current = "none" /\ lookup = NoLookup /\ launches = 0 /\ run = 0
      /\ flow = "none" /\ tree = FALSE /\ mine = 0
      /\ left = {} /\ last = [phase |-> "idle", of |-> "none"]
      /\ session = [phase |-> "reviewing", of |-> 0, record |-> 0, partial |-> 0, judge |-> 0]
      /\ streams = [i \in 1 .. SessionStreams |-> [state |-> "closed", pipe |-> <<>>]]
  BY DEF Session!Init, Session!NoSource, Session!NoLookup, NoLookup, Session!Blank, Session!Closed
<1>2. session \in Sessions /\ session.phase = "reviewing" /\ session.record = 0
  BY <1>1 DEF Sessions
<1>3. /\ streams \in [DOMAIN streams -> Streams] /\ 0 \notin DOMAIN streams
      /\ DOMAIN streams = 1 .. SessionStreams
  <2>1. [state |-> "closed", pipe |-> <<>>] \in Streams
    BY DEF Streams
  <2> QED
    BY <1>1, <2>1
<1>4. NoLookup.before = "none"
  BY DEF NoLookup
<1>5. SessionTyped
  BY <1>1, <1>2, <1>3 DEF SessionTyped, Flows
<1>6. OneRun /\ SessionFollows
  BY <1>1, <1>2, <1>4 DEF OneRun, SessionFollows
<1>7. TreeLeft
  BY <1>1 DEF TreeLeft
<1> QED
  BY <1>3, <1>5, <1>6, <1>7 DEF SessionInv

\* A browser that is alone starts with nothing it waits for.
LEMMA AloneStarts ==
  ASSUME AloneStreams \in Nat, Alone!Init
  PROVE  SessionInv /\ AloneInv
<1>1. /\ phase = "idle" /\ current = "none" /\ lookup = NoLookup /\ launches = 0 /\ run = 0
      /\ flow = "none" /\ tree = FALSE /\ mine = 0 /\ gets = {}
      /\ session = [phase |-> "reviewing", of |-> 0, record |-> 0, partial |-> 0, judge |-> 0]
      /\ streams = [i \in 1 .. AloneStreams |-> [state |-> "closed", pipe |-> <<>>]]
  BY DEF Alone!Init, Alone!NoSource, Alone!NoLookup, NoLookup, Alone!Blank, Alone!Closed
<1>2. session \in Sessions /\ session.phase = "reviewing" /\ session.record = 0
  BY <1>1 DEF Sessions
<1>3. streams \in [DOMAIN streams -> Streams] /\ 0 \notin DOMAIN streams
  <2>1. [state |-> "closed", pipe |-> <<>>] \in Streams
    BY DEF Streams
  <2> QED
    BY <1>1, <2>1
<1>4. NoLookup.before = "none"
  BY DEF NoLookup
<1>5. SessionTyped
  BY <1>1, <1>2, <1>3 DEF SessionTyped, Flows
<1>6. OneRun /\ SessionFollows
  BY <1>1, <1>2, <1>4 DEF OneRun, SessionFollows
<1>7. /\ {"phase", "of", "record", "partial", "judge", "asked", "error"} \subseteq DOMAIN shown
      /\ shown.asked = FALSE
  BY DEF Alone!Init
<1>8. AloneInv
  BY <1>1, <1>7
  DEF AloneInv, LastIs, GetsTyped, ShownTyped, ViewHolds, OldDoneIsHarmless
<1> QED
  BY <1>5, <1>6, <1>8 DEF SessionInv

-----------------------------------------------------------------------------
(***************************************************************************)
(* The parts of one run: each is kept by the steps of its own part, and    *)
(* rests while another moves.                                              *)
(***************************************************************************)

\* An empty board.
LEMMA BoardStarts ==
  ASSUME Board!ParametersAreSound, Board!Init
  PROVE  BoardInv /\ OpenInv /\ LiveInv /\ ClosedInv /\ BoundsKept
<1>1. /\ boardRecord = [status |-> "waiting", turn |-> 0] /\ journal = 0 /\ said = 0
      /\ link = FALSE /\ pipe = <<>> /\ asked = 0 /\ answers = {}
      /\ seen = Gone /\ events = <<>> /\ bubbles = <<>>
  BY DEF Board!Init, Board!Absent, Gone
<1>2. /\ boardRecord \in TaskRecords /\ boardRecord # Gone /\ boardRecord.status = "waiting"
      /\ boardRecord.turn = 0 /\ Gone.turn = 0
      /\ \A S : <<>> \in Seq(S) /\ DOMAIN <<>> = {} /\ Len(<<>>) = 0
  BY <1>1 DEF TaskRecords, Gone
<1>3. {BoardTurns, BoardSaid, BoardPipe} \subseteq Nat
  BY DEF Board!ParametersAreSound
<1>4. BoardTyped
  BY <1>1, <1>2 DEF BoardTyped
<1>5. JournalFollows /\ Ascending(events) /\ Ascending(bubbles)
  BY <1>1, <1>2 DEF JournalFollows, Ascending
<1>6. NothingAhead
  BY <1>1, <1>2 DEF NothingAhead, Seqs
<1>7. BoundsKept
  BY <1>1, <1>2, <1>3 DEF BoundsKept
<1>8. OpenInv
  BY <1>1 DEF OpenInv
<1>9. LiveInv
  BY <1>1, <1>2 DEF LiveInv
<1>10. ClosedInv
  BY <1>1, <1>2 DEF ClosedInv
<1> QED
  BY <1>1, <1>4, <1>5, <1>6, <1>7, <1>8, <1>9, <1>10 DEF BoardInv

\* What is true of the boards, each while it moves.
BoardsHold ==
  /\ part \in {"board", "board cut", "board purged"} => BoardInv /\ OpenInv
  /\ part = "board" => LiveInv /\ BoundsKept
  /\ part = "board closed" => BoardInv /\ ClosedInv

\* What is true of the reviews, of two browsers and of one that is alone.
SessionsHold ==
  /\ part = "session" =>
       SessionInv /\ DOMAIN streams = 1 .. SessionStreams /\ TreeLeft
  /\ part = "session alone" => SessionInv /\ AloneInv

\* A board that moves keeps what is true of it.
LEMMA BoardsKeep ==
  ASSUME BoardsHold, [ReviewNext]_reviewVars
  PROVE  BoardsHold'
<1>1. CASE part = "board" /\ Board!Next /\ UNCHANGED part
  <2>1. BoardInv /\ OpenInv /\ LiveInv /\ BoundsKept
    BY <1>1 DEF BoardsHold
  <2>2. AnyBoard!Next /\ SteadySteps
    BY <1>1, <2>1, BoardIsAny
  <2>3. BoardInv' /\ OpenInv'
    BY <2>1, <2>2, BoardKeeps, OpenKeeps
  <2>4. LiveInv'
    BY <2>1, <2>2, ServerLive, FetchLive, ReceiveLive, HydrateLive DEF SteadySteps
  <2>5. BoundsKept'
    BY <1>1, <2>1, BoardIsBounded
  <2> QED
    BY <1>1, <2>3, <2>4, <2>5 DEF BoardsHold
<1>2. CASE \/ part = "board cut" /\ CutBoard!Next /\ UNCHANGED part
           \/ part = "board purged" /\ PurgedBoard!Next /\ UNCHANGED part
  <2>1. BoardInv /\ OpenInv
    BY <1>2 DEF BoardsHold
  <2>2. AnyBoard!Next
    BY <1>2, <2>1, CutBoardIsAny, PurgedBoardIsAny
  <2>3. BoardInv' /\ OpenInv'
    BY <2>1, <2>2, BoardKeeps, OpenKeeps
  <2> QED
    BY <1>2, <2>3 DEF BoardsHold
<1>3. CASE part = "board closed" /\ ClosedBoard!Next /\ UNCHANGED part
  <2>1. BoardInv /\ ClosedInv
    BY <1>3 DEF BoardsHold
  <2>2. ServerSteps \/ ClosedBoard!Connect \/ AnyBoard!Drop \/ AnyBoard!Receive
    BY <1>3, <2>1, ClosedBoardIsAny
  <2>3. AnyBoard!Next \/ Connects
    BY <2>2 DEF ServerSteps, Connects, AnyBoard!Next
  <2>4. BoardInv'
    BY <2>1, <2>3, BoardKeeps
  <2>5. ClosedInv'
    BY <2>1, <2>2, ServerClosed, LinkClosed, ReceiveClosed
  <2> QED
    BY <1>3, <2>4, <2>5 DEF BoardsHold
<1>4. CASE UNCHANGED <<part, boardVars>>
  <2>0. UNCHANGED <<boardRecord, journal, said, link, pipe, asked, answers, seen, events, bubbles>>
    BY <1>4 DEF boardVars
  <2>1. BoardInv => BoardInv'
    BY <2>0 DEF BoardInv, BoardTyped, JournalFollows, NothingAhead, Seqs, Ascending
  <2>2. OpenInv => OpenInv'
    BY <2>0 DEF OpenInv, Coming, Seqs
  <2>3. LiveInv => LiveInv'
    BY <2>0 DEF LiveInv, TurnSpeaks
  <2>4. BoundsKept => BoundsKept'
    BY <2>0 DEF BoundsKept
  <2>5. ClosedInv => ClosedInv'
    BY <2>0 DEF ClosedInv, RecordTold, Seqs
  <2> QED
    BY <1>4, <2>1, <2>2, <2>3, <2>4, <2>5 DEF BoardsHold
<1>5. CASE UNCHANGED part
           /\ part \notin {"board", "board cut", "board purged", "board closed"}
  BY <1>5 DEF BoardsHold
<1> QED
  BY <1>1, <1>2, <1>3, <1>4, <1>5 DEF ReviewNext, reviewVars

\* Reviews that move keep what is true of them.
LEMMA SessionsKeep ==
  ASSUME SessionsHold, [ReviewNext]_reviewVars
  PROVE  SessionsHold'
<1>0. Reviews \in Nat /\ AloneReviews \in Nat
  BY PartsAreSound DEF Session!ParametersAreSound, Alone!ParametersAreSound
<1>1. CASE part = "session" /\ Session!Next /\ UNCHANGED part
  <2>1. SessionInv /\ DOMAIN streams = 1 .. SessionStreams /\ TreeLeft
    BY <1>1 DEF SessionsHold
  <2>2. SessionInv' /\ DOMAIN streams' = DOMAIN streams /\ TreeLeft'
    BY <1>0, <1>1, <2>1, SessionIsAny, SessionKeeps, TreeKeeps
  <2> QED
    BY <1>1, <2>1, <2>2 DEF SessionsHold
<1>2. CASE part = "session alone" /\ Alone!Next /\ UNCHANGED part
  <2>1. SessionInv /\ AloneInv
    BY <1>2 DEF SessionsHold
  <2>2. AnySession!Next /\ AloneSteps
    BY <1>0, <1>2, <2>1, AloneIsAny
  <2>3. SessionInv' /\ AloneInv'
    BY <2>1, <2>2, SessionKeeps, AloneKeeps
  <2> QED
    BY <1>2, <2>3 DEF SessionsHold
<1>3. CASE UNCHANGED <<part, sessionVars>>
  <2>1. SessionInv => SessionInv'
    BY <1>3 DEF sessionVars, SessionInv, SessionTyped, OneRun, SessionFollows
  <2>2. TreeLeft => TreeLeft'
    BY <1>3 DEF sessionVars, TreeLeft
  <2>3. AloneInv => AloneInv'
    BY <1>3
    DEF sessionVars, AloneInv, LastIs, GetsTyped, ShownTyped, ViewHolds, OldDoneIsHarmless,
        Awaits, Asks, RecordComes, Listens, Outdated
  <2> QED
    BY <1>3, <2>1, <2>2, <2>3 DEF SessionsHold, sessionVars
<1>4. CASE UNCHANGED part /\ part \notin {"session", "session alone"}
  BY <1>4 DEF SessionsHold
<1> QED
  BY <1>1, <1>2, <1>3, <1>4 DEF ReviewNext, reviewVars

\* What is true of the boards and of the reviews holds throughout.
LEMMA PartsHold == ReviewSpec => []BoardsHold /\ []SessionsHold
<1>1. ReviewInit => BoardsHold
  BY BoardStarts, PartsAreSound DEF ReviewInit, BoardsHold
<1>2. ReviewInit => SessionsHold
  <2>1. SessionStreams \in Nat /\ AloneStreams \in Nat
    BY PartsAreSound DEF Session!ParametersAreSound, Alone!ParametersAreSound
  <2>2. ReviewInit => /\ part = "session" => Session!Init
                      /\ part = "session alone" => Alone!Init
    BY DEF ReviewInit
  <2> QED
    BY <2>1, <2>2, SessionStarts, AloneStarts DEF SessionsHold
<1>3. BoardsHold /\ [ReviewNext]_reviewVars => BoardsHold'
  BY BoardsKeep
<1>4. SessionsHold /\ [ReviewNext]_reviewVars => SessionsHold'
  BY SessionsKeep
<1> QED
  BY <1>1, <1>2, <1>3, <1>4, PTL DEF ReviewSpec

\* An open conversation is shown in its order, and whole once all has arrived.
LEMMA ConversationIsShown ==
  ASSUME BoardInv, OpenInv
  PROVE  Board!JournalInOrder /\ CutBoard!JournalIsWhole /\ PurgedBoard!JournalIsWhole
<1>1. Board!JournalInOrder
  BY DEF BoardInv, Ascending, Board!JournalInOrder
<1>2. CutBoard!JournalIsWhole
  BY OpenIsWhole
  DEF CutBoard!JournalIsWhole, CutBoard!Quiet, AnyBoard!Quiet, CutBoard!Absent, AnyBoard!Absent
<1>3. PurgedBoard!JournalIsWhole
  BY OpenIsWhole
  DEF PurgedBoard!JournalIsWhole, PurgedBoard!Quiet, AnyBoard!Quiet, PurgedBoard!Absent,
      AnyBoard!Absent
<1> QED
  BY <1>1, <1>2, <1>3

\* The board whose stream stays up has its types, and shows the messages of its turn.
LEMMA LiveIsShown ==
  ASSUME BoardInv, LiveInv, BoundsKept, Board!ParametersAreSound
  PROVE  Board!TypeOK /\ Board!BubblesAreOfTheTurn
<1>0. /\ BoardTyped /\ JournalFollows /\ NothingAhead /\ Ascending(bubbles)
      /\ BoardTurns \in Nat
  BY DEF BoardInv, Board!ParametersAreSound
<1>1. ASSUME NEW r \in TaskRecords \cup {Gone}, r.turn \in 0 .. BoardTurns
      PROVE  r \in Board!Records
  BY <1>1 DEF TaskRecords, Gone, Board!Records, Board!Absent
<1>2. boardRecord \in Board!Records /\ seen \in Board!Records
  BY <1>0, <1>1 DEF BoardTyped, BoundsKept
<1>3. journal \in 0 .. (2 * BoardTurns)
  <2>1. boardRecord \in TaskRecords /\ boardRecord.turn \in 0 .. BoardTurns /\ journal \in Nat
    BY <1>0 DEF LiveInv, BoardTyped, BoundsKept
  <2>2. boardRecord.status \in {"waiting", "running"}
    BY <2>1 DEF TaskRecords
  <2> QED
    BY <1>0, <2>1, <2>2 DEF JournalFollows
<1>4. \A a \in answers : a.record \in Board!Records /\ a.journal <= journal
  <2> TAKE a \in answers
  <2>1. a.record \in TaskRecords /\ a.record.turn \in 0 .. BoardTurns
    BY <1>0 DEF BoardTyped, BoundsKept
  <2> QED
    BY <1>0, <1>1, <2>1 DEF NothingAhead
<1>5. \A i \in DOMAIN events : events[i].seq \in 1 .. journal
  BY <1>0 DEF NothingAhead, Seqs
<1>6. Board!TypeOK
  BY <1>0, <1>2, <1>3, <1>4, <1>5 DEF Board!TypeOK, BoardTyped, BoundsKept, Ascending
<1>7. Board!BubblesAreOfTheTurn
  BY DEF LiveInv, TurnSpeaks, Board!BubblesAreOfTheTurn, Board!Quiet
<1> QED
  BY <1>6, <1>7

\* A board with no conversation open shows the server's record once all has arrived,
\* and never a reply beside the messages it was made of.
LEMMA ClosedIsShown ==
  ASSUME BoardInv, ClosedInv
  PROVE  ClosedBoard!BoardIsTheServers /\ ClosedBoard!NoDouble
<1>1. ClosedBoard!BoardIsTheServers
  BY DEF ClosedInv, RecordTold, ClosedBoard!BoardIsTheServers, ClosedBoard!Quiet
<1>2. ClosedBoard!NoDouble
  <2>0. bubbles \in Seq(Texts) /\ events \in Seq(JournalEvents)
    BY DEF BoardInv, BoardTyped
  <2>1. /\ \A i \in DOMAIN bubbles : \A n \in Seqs(events) : n < 2 * bubbles[i].turn
        /\ \A i \in DOMAIN bubbles : bubbles[i].turn \in Nat
        /\ \A j \in DOMAIN events : events[j].seq \in Nat /\ events[j].seq \in Seqs(events)
    <3>1. \A i \in DOMAIN bubbles : \A n \in Seqs(events) : n < 2 * bubbles[i].turn
      BY DEF ClosedInv
    <3>2. \A i \in DOMAIN bubbles : bubbles[i] \in Texts
      BY <2>0
    <3>3. \A j \in DOMAIN events : events[j] \in JournalEvents
      BY <2>0
    <3>4. \A j \in DOMAIN events : events[j].seq \in Seqs(events)
      BY DEF Seqs
    <3> QED
      BY <3>1, <3>2, <3>3, <3>4 DEF Texts, JournalEvents
  <2>2. \A m, n \in Nat : n < 2 * m => n # 2 * m
    OBVIOUS
  <2> QED
    BY <2>1, <2>2 DEF ClosedBoard!NoDouble
<1> QED
  BY <1>1, <1>2

\* Whatever answer overtakes whatever frame, and however often the stream is cut, the
\* screen keeps up with the task (useTasks.ts, hydrateStore; serve.ts,
\* serveTaskEvents), for any number of turns and of messages.
THEOREM ScreenIsTrue == ReviewSpec => []ScreenKeepsUp
<1>1. BoardsHold => ScreenKeepsUp
  <2> SUFFICES ASSUME BoardsHold PROVE ScreenKeepsUp
    OBVIOUS
  <2>1. ASSUME part \in {"board", "board cut", "board purged"}
        PROVE  Board!JournalInOrder /\ CutBoard!JournalIsWhole /\ PurgedBoard!JournalIsWhole
    BY <2>1, ConversationIsShown DEF BoardsHold
  <2>2. ASSUME part = "board" PROVE Board!TypeOK /\ Board!BubblesAreOfTheTurn
    BY <2>2, LiveIsShown, PartsAreSound DEF BoardsHold
  <2>3. ASSUME part = "board closed" PROVE ClosedBoard!BoardIsTheServers /\ ClosedBoard!NoDouble
    BY <2>3, ClosedIsShown DEF BoardsHold
  <2> QED
    BY <2>1, <2>2, <2>3 DEF ScreenKeepsUp
<1> QED
  BY <1>1, PartsHold, PTL

\* What is true of the reviews is what is promised of them.
LEMMA SessionIsSound ==
  ASSUME SessionInv, DOMAIN streams = 1 .. SessionStreams, TreeLeft
  PROVE  Session!TypeOK /\ Session!TreeGoes /\ Session!DoneIsDone
<1>1. mine \in 0 .. SessionStreams
  <2>1. SessionStreams \in Nat
    BY PartsAreSound DEF Session!ParametersAreSound
  <2>2. mine = 0 \/ mine \in 1 .. SessionStreams
    BY DEF SessionInv, SessionTyped
  <2> QED
    BY <2>1, <2>2
<1>2. session.phase \in {"reviewing", "judging", "done", "error"}
  BY DEF SessionInv, SessionTyped, Sessions
<1>3. /\ phase \in {"idle", "running", "done", "error"} /\ current \in Reviewed \cup {"none"}
      /\ flow \in {"none", "preparing", "reviewing", "cleaning", "failed"}
  BY DEF SessionInv, SessionTyped, Flows
<1>4. (phase = "running") = (flow # "none" \/ lookup # NoLookup)
  BY DEF SessionInv, OneRun
<1>5. flow = "none" \/ lookup = NoLookup
  BY DEF SessionInv, OneRun
<1>6. Session!TypeOK
  BY <1>1, <1>2, <1>3, <1>4, <1>5
  DEF Session!TypeOK, Session!Phases, Session!NoSource, Session!NoLookup, NoLookup, TreeLeft
<1>7. Session!TreeGoes /\ Session!DoneIsDone
  BY DEF SessionInv, SessionFollows, TreeLeft, Session!TreeGoes, Session!DoneIsDone
<1> QED
  BY <1>6, <1>7

\* A browser that is alone is left with a record or with a stream.
LEMMA ViewIsSettled ==
  ASSUME SessionInv, AloneInv
  PROVE  Alone!StatusIsTheRuns /\ Alone!ViewSettles
<1>1. Alone!StatusIsTheRuns
  BY DEF AloneInv, LastIs, Alone!StatusIsTheRuns
<1>2. ASSUME Alone!Quiet, shown.asked, shown.record = 0, ~ shown.error
      PROVE  Alone!Streaming # {} /\ session.phase # "done"
  <2>1. gets = {}
    BY <1>2 DEF Alone!Quiet
  <2>2. shown.asked = TRUE
    BY <1>2
  <2>3. PICK i \in DOMAIN streams : Listens(streams[i])
    <3>1. ~ Awaits /\ ~ Asks("done", {"asked"})
      BY <1>2, <2>1 DEF Awaits, Asks, RecordComes
    <3> QED
      BY <2>2, <3>1 DEF AloneInv, ViewHolds
  <2>4. i \in Alone!Streaming
    BY <2>3 DEF Listens, Alone!Streaming
  <2>5. streams[i].state = "open" /\ streams[i].pipe = <<>>
    BY <1>2, <2>4 DEF Alone!Quiet
  <2>6. ~ HasDone(streams[i].pipe)
    BY <2>5 DEF HasDone
  <2> QED
    BY <2>3, <2>4, <2>5, <2>6 DEF Listens
<1> QED
  BY <1>1, <1>2 DEF Alone!ViewSettles

\* A review leaves no worktree but one that git would not remove, its session has the
\* record exactly when it says so, the runner tells of its last review what that came
\* to, and a browser that is alone is never left with neither a record, a stream nor an
\* error to retry (mr-review-runner.ts; serve.ts; useReviewSession.ts), for any number
\* of reviews and of streams; reviews, removals and requests may fail.
THEOREM ReviewsSettle == ReviewSpec => []ReviewsEnd
<1>1. SessionsHold => ReviewsEnd
  <2>1. ASSUME SessionsHold, part = "session"
        PROVE  Session!TypeOK /\ Session!TreeGoes /\ Session!DoneIsDone
    BY <2>1, SessionIsSound DEF SessionsHold
  <2>2. ASSUME SessionsHold, part = "session alone"
        PROVE  Alone!StatusIsTheRuns /\ Alone!ViewSettles
    BY <2>2, ViewIsSettled DEF SessionsHold
  <2> QED
    BY <2>1, <2>2 DEF ReviewsEnd
<1> QED
  BY <1>1, PartsHold, PTL
=============================================================================
