------------------------------ MODULE Branches ------------------------------
(***************************************************************************)
(* The branches of one repository's tasks: the names they take, the        *)
(* worktrees that check them out, the records that name them, and what a   *)
(* rebuild, a rename, an abandon and a ship make of the commits on them.   *)
(* A branch is the set of the commits that it adds to the trunk.           *)
(***************************************************************************)
EXTENDS Naturals, FiniteSets, Sequences

CONSTANTS
  Tasks,
  MaxCommits, MaxTurns, MaxHands, MaxCrashes,  \* bounds
  MaxSuffix,   \* a bound: the number of names a slug can give
  Proposals,   \* the slugs an agent proposes for its branch
  Hands,       \* what a person does with git meanwhile
  Waits,       \* an abandon may have to wait for the repository's lock
  CrashesAt    \* the stages of a turn at which the process may die

ParametersAreSound ==
  /\ {MaxCommits, MaxTurns, MaxHands, MaxCrashes, MaxSuffix} \subseteq Nat
  /\ IsFiniteSet(Tasks) /\ Waits \in BOOLEAN
  /\ Hands \subseteq {"commits", "checks out", "deletes", "removes"}
  /\ CrashesAt \subseteq {"none", "made", "works", "renamed", "named", "committed"}

VARIABLES
  refs,      \* refs/heads: the commits of each branch
  origin,    \* refs/remotes/origin
  main,      \* the branch of the main checkout
  trees,     \* the branch each task's worktree has checked out
  records,   \* task.json of each task
  run,       \* the turn that goes on, with the record it holds
  going,     \* the abandons that wait for the repository's lock: what goes
  maker,     \* who made each commit
  told,      \* the commits a task's journal calls foreign, or left behind
  hands, crashes,
  trashed    \* the commits a person has deleted

vars == <<refs, origin, main, trees, records, run, going, maker, told, hands,
          crashes, trashed>>

Commits == 1 .. MaxCommits
NoRef == {0}
None == <<"none", 0>>
User == <<"u", 1>>
Names == ((Proposals \union {"x"}) \X (1 .. MaxSuffix)) \union {User}
NoRecord == [status |-> "unborn", branch |-> None, workOn |-> FALSE, placed |-> FALSE,
             base |-> NoRef, left |-> NoRef, turn |-> 0]
NoRun == [task |-> "nobody", stage |-> "none", rec |-> NoRecord]

Exists(n) == n # None /\ refs[n] # NoRef
Pushed(n) == n # None /\ origin[n] # NoRef
Made(who) == {c \in DOMAIN maker : maker[c] = who}
OnHeads(heads) == (UNION {heads[n] : n \in Names}) \ NoRef

\* isActiveTaskStatus
Active(t) == records[t].status \notin {"unborn", "shipped", "failed"}

\* branchCheckoutPath: the main checkout counts.
InUse(n, others) == main = n \/ \E t \in others : trees[t] = n

TypeOK ==
  /\ {refs, origin} \subseteq [Names -> (SUBSET Commits) \union {NoRef}]
  /\ main \in Names \union {None} /\ trees \in [Tasks -> Names \union {None}]
  /\ run.task \in Tasks \union {"nobody"} /\ going \in [Tasks -> {"no", "tree", "branch"}]
  /\ maker \in Seq(Tasks \union {"person", "guest"})
  /\ told \in [Tasks -> SUBSET Commits] /\ trashed \subseteq Commits
  /\ \A t \in Tasks : /\ records[t].branch \in Names \union {None}
                      /\ records[t].status \in
                           {"unborn", "queued", "running", "rest", "cut", "shipped", "failed"}

Init ==
  /\ \E local \in {{}, NoRef} : refs = [n \in Names |-> IF n = User THEN local ELSE NoRef]
  /\ origin = [n \in Names |-> IF n = User THEN {} ELSE NoRef]
  /\ main = None /\ trees = [t \in Tasks |-> None] /\ records = [t \in Tasks |-> NoRecord]
  /\ run = NoRun /\ going = [t \in Tasks |-> "no"] /\ maker = <<>>
  /\ told = [t \in Tasks |-> {}] /\ hands = 0 /\ crashes = 0 /\ trashed = {}

\* plannedTaskBranch: the first name of the slug that has no ref.
Free(slug, n) ==
  /\ n \in {slug} \X (1 .. MaxSuffix) /\ ~Exists(n)
  /\ \A i \in 1 .. (n[2] - 1) : Exists(<<slug, i>>)

-----------------------------------------------------------------------------
(* Creation *)

\* A fork names no branch before it is launched.
CreateFork(t) ==
  /\ records[t].status = "unborn"
  /\ records' = [records EXCEPT ![t].status = "queued", ![t].turn = 1]
  /\ UNCHANGED <<refs, origin, main, trees, run, going, maker, told, hands, crashes, trashed>>

\* A plausible bug: a branch that another conversation has not checked out yet
\* is given to this one too.
WorkOnIfFree(n) == (Exists(n) \/ Pushed(n)) /\ ~InUse(n, Tasks)

\* resolveWorkOnTargets: a branch that is there, that no active task has, and
\* that is checked out nowhere.
WorkOnAdmitted(n) ==
  /\ Exists(n) \/ Pushed(n)
  /\ ~\E t \in Tasks : Active(t) /\ records[t].branch = n
  /\ ~InUse(n, Tasks)

CreateWorkOn(t, n) ==
  /\ records[t].status = "unborn" /\ WorkOnAdmitted(n)
  /\ records' = [records EXCEPT ![t].status = "queued", ![t].turn = 1, ![t].workOn = TRUE,
                                ![t].branch = n]
  /\ UNCHANGED <<refs, origin, main, trees, run, going, maker, told, hands, crashes, trashed>>

-----------------------------------------------------------------------------
(* A turn *)

\* One task of the project at a time; an abandon takes its task out of the line.
Launchable(t) == run = NoRun /\ records[t].status = "queued" /\ going[t] = "no"

Placed(t) == records[t].placed /\ trees[t] # None

Held(t, rec) == run' = [task |-> t, stage |-> "made", rec |-> rec]

\* ensureWorktree: the worktree is there.
Stays(t) ==
  /\ Launchable(t) /\ Placed(t)
  /\ Held(t, records[t])
  /\ UNCHANGED <<refs, trees, told>>

\* createWorkOnWorktree, for a work-on task or for the rebuild of a fork: a
\* branch that is only on origin gets its head here.  What has come to the branch
\* since the task left it is told as foreign; the anchor stays.
\* A work-on branch that is not to be had leaves its task in line.
Adoptable(t) ==
  /\ Exists(records[t].branch) \/ (records[t].workOn /\ Pushed(records[t].branch))
  /\ ~InUse(records[t].branch, Tasks \ {t})

Adopts(t) ==
  LET n == records[t].branch
      tip == IF Exists(n) THEN refs[n] ELSE origin[n]
      left == records[t].left
  IN /\ Launchable(t) /\ ~Placed(t) /\ (records[t].workOn \/ records[t].placed)
     /\ Adoptable(t)
     /\ refs' = [refs EXCEPT ![n] = tip] /\ trees' = [trees EXCEPT ![t] = n]
     /\ told' = [told EXCEPT ![t] = @ \union (IF left = NoRef THEN {} ELSE tip \ left)]
     /\ Held(t, [records[t] EXCEPT !.placed = TRUE, !.left = tip,
                                   !.base = IF records[t].placed THEN @ ELSE tip])

\* createForkWorktree: at first, or when the branch is gone or not to be had; what
\* it leaves behind is told.
Forks(t, n) ==
  /\ Launchable(t) /\ ~Placed(t) /\ ~records[t].workOn
  /\ records[t].placed => ~Adoptable(t)
  /\ Free("x", n)
  /\ refs' = [refs EXCEPT ![n] = {}] /\ trees' = [trees EXCEPT ![t] = n]
  /\ told' = [told EXCEPT ![t] = @ \union (IF records[t].placed THEN Made(t) ELSE {})]
  /\ Held(t, [records[t] EXCEPT !.branch = n, !.placed = TRUE, !.base = {}, !.left = {}])

Materializes(t) ==
  /\ Stays(t) \/ Adopts(t) \/ \E n \in Names : Forks(t, n)
  /\ UNCHANGED <<origin, main, records, going, maker, hands, crashes, trashed>>

\* After the install the record held is written.
Saves(status) == records' = [records EXCEPT ![run.task] = [run.rec EXCEPT !.status = status]]

Launches ==
  /\ run.stage = "made" /\ Saves("running") /\ run' = [run EXCEPT !.stage = "works"]
  /\ UNCHANGED <<refs, origin, main, trees, going, maker, told, hands, crashes, trashed>>

\* adoptBranchProposal, on the first turn: not past a push, nor to the name that
\* the branch has.
Renamable(slug) ==
  /\ ~run.rec.workOn /\ run.rec.turn = 1
  /\ <<slug, 1>> # run.rec.branch /\ ~Pushed(run.rec.branch) /\ Exists(run.rec.branch)

\* Every checkout of the branch follows its name.
Renames(slug, n) ==
  /\ run.stage = "works" /\ Renamable(slug) /\ Free(slug, n)
  /\ refs' = [refs EXCEPT ![n] = refs[run.rec.branch], ![run.rec.branch] = NoRef]
  /\ trees' = [t \in Tasks |-> IF trees[t] = run.rec.branch THEN n ELSE trees[t]]
  /\ run' = [run EXCEPT !.stage = "renamed", !.rec.branch = n]
  /\ UNCHANGED <<origin, main, records, going, maker, told, hands, crashes, trashed>>

SavesName ==
  /\ run.stage = "renamed" /\ Saves("running") /\ run' = [run EXCEPT !.stage = "named"]
  /\ UNCHANGED <<refs, origin, main, trees, going, maker, told, hands, crashes, trashed>>

\* commitTurn: what is dirty goes to the branch that the worktree has.
CommitTo(n, who) ==
  /\ Len(maker) < MaxCommits
  /\ maker' = Append(maker, who)
  /\ refs' = [refs EXCEPT ![n] = @ \union {Len(maker) + 1}]

CommitTurn(dirty) ==
  LET n == trees[run.task]
  IN /\ run.stage \in {"works", "named"}
     /\ \/ dirty /\ CommitTo(n, run.task)
           /\ run' = [run EXCEPT !.stage = "committed", !.rec.left = refs'[n]]
        \/ ~dirty /\ UNCHANGED <<refs, maker>> /\ run' = [run EXCEPT !.stage = "committed"]
     /\ UNCHANGED <<origin, main, trees, records, going, told, hands, crashes, trashed>>

\* A turn that fails commits nothing; one that is stopped before it starts, or
\* that cannot, during the install, keeps the worktree that it was given.
Settles(status) ==
  /\ \/ run.stage = "committed" /\ status = "rest"
     \/ run.stage = "works" /\ status \in {"cut", "failed"}
     \/ run.stage = "made" /\ status \in {"cut", "queued"}
  /\ Saves(status) /\ run' = NoRun
  /\ UNCHANGED <<refs, origin, main, trees, going, maker, told, hands, crashes, trashed>>

Replies(t) ==
  /\ records[t].status \in {"rest", "cut"} /\ going[t] = "no" /\ records[t].turn < MaxTurns
  /\ records' = [records EXCEPT ![t].status = "queued", ![t].turn = @ + 1]
  /\ UNCHANGED <<refs, origin, main, trees, run, going, maker, told, hands, crashes, trashed>>

Resumes(t) ==
  /\ records[t].status = "cut" /\ going[t] = "no"
  /\ records' = [records EXCEPT ![t].status = "queued"]
  /\ UNCHANGED <<refs, origin, main, trees, run, going, maker, told, hands, crashes, trashed>>

Stops(t) ==
  /\ records[t].status = "queued" /\ run.task # t /\ going[t] = "no"
  /\ records' = [records EXCEPT ![t].status = "cut"]
  /\ UNCHANGED <<refs, origin, main, trees, run, going, maker, told, hands, crashes, trashed>>

\* ship(): the branch that the record names goes to origin; there is no force.
Ships(t) ==
  LET n == records[t].branch
  IN /\ records[t].status = "rest" /\ going[t] = "no" /\ Exists(n)
     /\ Pushed(n) => origin[n] \subseteq refs[n]
     /\ origin' = [origin EXCEPT ![n] = refs[n]]
     /\ records' = [records EXCEPT ![t].status = "shipped"]
     /\ UNCHANGED <<refs, main, trees, run, going, maker, told, hands, crashes, trashed>>

-----------------------------------------------------------------------------
(* Abandon *)

\* decideBranchFate: a fork's branch goes if it is where the task found it.
Empty(t) == Exists(records[t].branch) /\ refs[records[t].branch] = records[t].base

AbandonBegins(t) ==
  /\ records[t].status \notin {"unborn", "running"} /\ run.task # t /\ going[t] = "no"
  /\ going' = [going EXCEPT ![t] = IF ~records[t].workOn /\ Empty(t) THEN "branch" ELSE "tree"]
  /\ UNCHANGED <<refs, origin, main, trees, records, run, maker, told, hands, crashes, trashed>>

\* removeTaskWorktree, under the lock: git keeps a branch that is checked out.
AbandonEnds(t) ==
  LET n == records[t].branch
  IN /\ going[t] # "no"
     /\ trees' = [trees EXCEPT ![t] = None]
     /\ refs' = IF going[t] = "branch" /\ ~InUse(n, Tasks \ {t})
                THEN [refs EXCEPT ![n] = NoRef] ELSE refs
     /\ records' = [records EXCEPT ![t].status = IF @ = "shipped" THEN @ ELSE "failed"]
     /\ going' = [going EXCEPT ![t] = "no"]
     /\ UNCHANGED <<origin, main, run, maker, told, hands, crashes, trashed>>

-----------------------------------------------------------------------------
(* A person, and the end of the process *)

Hand(what) == what \in Hands /\ hands < MaxHands /\ hands' = hands + 1

\* Somebody commits in the main checkout, or is a guest in a task's worktree.
HandCommits(n) ==
  /\ Hand("commits") /\ InUse(n, Tasks)
  /\ CommitTo(n, IF main = n THEN "person" ELSE "guest")
  /\ UNCHANGED <<origin, main, trees, records, run, going, told, crashes, trashed>>

HandChecksOut(n) ==
  /\ Hand("checks out") /\ n # main /\ (n # None => Exists(n) /\ ~InUse(n, Tasks))
  /\ main' = n
  /\ UNCHANGED <<refs, origin, trees, records, run, going, maker, told, crashes, trashed>>

HandDeletes(n) ==
  /\ Hand("deletes") /\ Exists(n) /\ ~InUse(n, Tasks)
  /\ refs' = [refs EXCEPT ![n] = NoRef]
  /\ trashed' = trashed \union (refs[n] \ (OnHeads(refs') \union OnHeads(origin)))
  /\ UNCHANGED <<origin, main, trees, records, run, going, maker, told, crashes>>

HandRemoves(t) ==
  /\ Hand("removes") /\ trees[t] # None /\ run.task # t
  /\ trees' = [trees EXCEPT ![t] = None]
  /\ UNCHANGED <<refs, origin, main, records, run, going, maker, told, crashes, trashed>>

\* The process dies; at the next boot (reconciledStatus) a turn that was running
\* is interrupted, unless both its worktree and its branch are gone.
Crashes ==
  /\ run.stage \in CrashesAt /\ crashes < MaxCrashes /\ crashes' = crashes + 1
  /\ run' = NoRun /\ going' = [t \in Tasks |-> "no"]
  /\ records' = [t \in Tasks |->
       IF records[t].status \in {"running", "cut"}
       THEN [records[t] EXCEPT !.status =
               IF records[t].placed /\ trees[t] = None /\ ~Exists(records[t].branch)
               THEN "failed" ELSE "cut"]
       ELSE records[t]]
  /\ UNCHANGED <<refs, origin, main, trees, maker, told, hands, trashed>>

\* What may happen while an abandon waits.
Others ==
  \/ \E t \in Tasks : \/ CreateFork(t) \/ \E n \in Names : CreateWorkOn(t, n)
                      \/ Materializes(t) \/ Replies(t) \/ Resumes(t) \/ Stops(t)
                      \/ Ships(t) \/ AbandonBegins(t) \/ HandRemoves(t)
  \/ Launches \/ SavesName \/ \E dirty \in BOOLEAN : CommitTurn(dirty)
  \/ \E slug \in Proposals, n \in Names : Renames(slug, n)
  \/ \E status \in {"rest", "cut", "failed", "queued"} : Settles(status)
  \/ \E n \in Names : HandCommits(n) \/ HandDeletes(n)
  \/ \E n \in Names \union {None} : HandChecksOut(n)
  \/ Crashes

Next ==
  \/ \E t \in Tasks : AbandonEnds(t)
  \/ (Waits \/ \A t \in Tasks : going[t] = "no") /\ Others

Spec == Init /\ [][Next]_vars
-----------------------------------------------------------------------------
(* Properties *)

\* Nobody but a person takes a commit away: each is on a branch, or was pushed
\* (task-worktree.ts, the doctrine).
WorkIsOnABranch == DOMAIN maker \subseteq OnHeads(refs) \union OnHeads(origin) \union trashed

\* What a task has made is on the branch its record names, where the review, the
\* ship and the abandon look for it, or its journal says that it is not, or a
\* person deleted it.
LineageIsNamed ==
  \A t \in Tasks :
    records[t].status \in {"rest", "queued", "cut"} /\ run.task # t =>
      Made(t) \subseteq (IF Exists(records[t].branch) THEN refs[records[t].branch] ELSE {})
                        \union told[t] \union trashed

\* What a task measures as its own, from its anchor on, is its own, or was made
\* in its worktree, or its journal calls it foreign.
MeasureIsTold ==
  run.stage = "works" =>
    refs[trees[run.task]] \ run.rec.base \subseteq
      Made(run.task) \union told[run.task] \union Made("guest")

\* One active conversation per branch; only creations need the guard
\* (task-plan.ts, resolveWorkOnTargets).
OneConversationPerBranch ==
  \A t, u \in Tasks : t # u /\ Active(t) /\ Active(u) /\ records[t].branch # None
                        => records[t].branch # records[u].branch

\* Every active task's branch keeps a live ref.
ActiveBranchLives ==
  \A t \in Tasks : Active(t) /\ records[t].branch # None /\ run.task # t
                     => Exists(records[t].branch) \/ Pushed(records[t].branch)

\* A task that rests with its worktree has there the branch that its record names,
\* and that a ship would push.
RecordNamesTheTree ==
  \A t \in Tasks : trees[t] # None /\ records[t].placed /\ run.task # t
                     => trees[t] = records[t].branch
=============================================================================
