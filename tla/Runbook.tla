------------------------------- MODULE Runbook --------------------------------
(****************************************************************************)
(* The runbook of a project: proposed, run once and written down by a scan, *)
(* run again by a validation, and read by the verification of each turn.    *)
(* A scan belongs to the hub, which leases it to one daemon, or to a person *)
(* at the command line.  A tree is told by the version of the files that    *)
(* runbooks depend on.                                                      *)
(****************************************************************************)
EXTENDS Naturals, Sequences

CONSTANTS
  Runbooks,     \* what agents may propose, numbers from 1
  MaxAttempts,  \* RUNBOOK_SCAN_MAX_ATTEMPTS
  MaxVersions,  \* a bound on the versions of the dependency files
  Commands,     \* the commands a person runs: "scan", "validate"
  Overlaps,     \* a command may run beside the daemon's scan, or another
  Moves,        \* runs start on uncommitted changes, and the checkout changes
                \* under them
  Losses,       \* a request to the hub may be lost
  Sleeps,       \* the machine may sleep while a renewal is due
  Crashes       \* a process may die

ParametersAreSound ==
  /\ Runbooks \subseteq Nat \ {0} /\ {MaxAttempts, MaxVersions} \subseteq Nat \ {0}
  /\ Commands \subseteq {"scan", "validate"}
  /\ {Overlaps, Moves, Losses, Sleeps, Crashes} \subseteq BOOLEAN

VARIABLES
  tree,        \* the version in the checkout
  history,     \* the versions of the commits, the last is HEAD
  runbook,     \* runbook.json: a runbook, or 0
  validation,  \* runbook.validation.json: [of, at], at a commit; 0 if none
  runs,        \* what each process does, see Resting
  hub,         \* the hub's scan: [status, holder, left], in half leases
  due,         \* the daemon has yet to renew, this half lease
  greens,      \* [runbook, tree] of every run that passed
  cut,         \* a process died between two of its writes, or before any
  verdict      \* the last verification: [status, runbook, tree]

vars == <<tree, history, runbook, validation, runs, hub, due, greens, cut, verdict>>
files == <<runbook, validation>>
checkout == <<tree, history>>

Processes == {"daemon"} \union Commands
Tip == Len(history)
Lease == 2  \* RUNBOOK_SCAN_LEASE_SECONDS, in renewal intervals

Resting == [at |-> "rest", head |-> 0, attempts |-> 0, runbook |-> 0, saw |-> 0, lost |-> FALSE]
NoValidation == [of |-> 0, at |-> 0]
NotVerified == [status |-> "none", runbook |-> 0, tree |-> 0]

TypeOK ==
  /\ tree \in 1 .. MaxVersions /\ history \in Seq(1 .. MaxVersions)
  /\ runbook \in Runbooks \union {0}
  /\ validation \in [of : Runbooks \union {0}, at : 0 .. Tip]
  /\ \A p \in Processes :
       /\ runs[p].at \in {"rest", "proposes", "copies", "runs", "destroys", "builds", "answers"}
       /\ runs[p].attempts \in 0 .. MaxAttempts + 1 /\ runs[p].head \in 0 .. Tip
  /\ hub.status \in {"none", "queued", "running", "completed", "failed"}
  /\ hub.holder \in {"nobody", "daemon", "another"} /\ hub.left \in 0 .. Lease
  /\ {due, cut} \subseteq BOOLEAN
  /\ greens \subseteq [runbook : Runbooks, tree : 1 .. MaxVersions]
  /\ verdict.status \in {"none", "refused", "run"}

NoScan == [status |-> "none", holder |-> "nobody", left |-> 0]

Init ==
  /\ tree = 1 /\ history = <<1>> /\ runbook = 0 /\ validation = NoValidation
  /\ runs = [p \in Processes |-> Resting] /\ hub = NoScan /\ due = FALSE
  /\ greens = {} /\ cut = FALSE /\ verdict = NotVerified

AllRest == \A p \in Processes : runs[p] = Resting
MayStart(p) ==
  /\ runs[p] = Resting /\ (Overlaps \/ AllRest)
  /\ Moves \/ tree = history[Tip]

Becomes(p, at) == runs' = [runs EXCEPT ![p].at = at]
Rests(p) == runs' = [runs EXCEPT ![p] = Resting]

------------------------------------------------------------------------------
(* The checkout and the hub *)

\* Somebody changes the files a runbook depends on, or commits them.
Edits ==
  /\ Moves \/ AllRest
  /\ \E v \in 1 .. MaxVersions : v > tree /\ tree' = v
  /\ UNCHANGED <<history, files, runs, hub, due, greens, cut, verdict>>

Commits ==
  /\ tree # history[Tip] /\ history' = Append(history, tree)
  /\ UNCHANGED <<tree, files, runs, hub, due, greens, cut, verdict>>

HubAsks ==
  /\ hub.status \in {"none", "completed", "failed"} /\ hub' = [NoScan EXCEPT !.status = "queued"]
  /\ UNCHANGED <<checkout, files, runs, due, greens, cut, verdict>>

\* A daemon of another machine.
AnotherClaims ==
  /\ hub.status = "queued"
  /\ hub' = [status |-> "running", holder |-> "another", left |-> Lease]
  /\ UNCHANGED <<checkout, files, runs, due, greens, cut, verdict>>

\* Half a lease passes, in which the daemon's renewal falls due; a lease that
\* has run out puts the scan back.
Leased(p) == p = "daemon" /\ runs[p] # Resting /\ ~runs[p].lost
Beat ==
  /\ hub.status = "running" /\ (~due \/ Sleeps)
  /\ hub' = IF hub.left = 1 THEN [NoScan EXCEPT !.status = "queued"]
            ELSE [hub EXCEPT !.left = @ - 1]
  /\ due' = Leased("daemon")
  /\ UNCHANGED <<checkout, files, runs, greens, cut, verdict>>

------------------------------------------------------------------------------
(* Scans and validations *)

\* runOneRunbookScan: the first scan that is queued and can be resolved here is
\* claimed; the claim is answered, or refused since another has it.
Claims ==
  /\ MayStart("daemon") /\ hub.status = "queued"
  /\ hub' = [status |-> "running", holder |-> "daemon", left |-> Lease]
  /\ runs' = [runs EXCEPT !["daemon"] =
                [Resting EXCEPT !.at = "proposes", !.head = Tip, !.attempts = 1]]
  /\ UNCHANGED <<checkout, files, due, greens, cut, verdict>>

\* A renewal claims the scan again.  Any that is not answered, whatever the
\* reason, is a lease lost.
Renews ==
  /\ due /\ due' = FALSE
  /\ IF hub.holder = "daemon" \/ hub.status = "queued"
       THEN /\ hub' = [status |-> "running", holder |-> "daemon", left |-> Lease]
            /\ UNCHANGED runs
       ELSE runs' = [runs EXCEPT !["daemon"].lost = TRUE] /\ UNCHANGED hub
  /\ UNCHANGED <<checkout, files, greens, cut, verdict>>

RenewalIsLost ==
  /\ Losses /\ due /\ due' = FALSE
  /\ runs' = [runs EXCEPT !["daemon"].lost = TRUE]
  /\ UNCHANGED <<checkout, files, hub, greens, cut, verdict>>

\* A person's command: a scan, or the validation of what is there.
CommandStarts(p) ==
  /\ p \in Commands /\ MayStart(p)
  /\ \/ /\ p = "scan"
        /\ runs' = [runs EXCEPT ![p] =
                      [Resting EXCEPT !.at = "proposes", !.head = Tip, !.attempts = 1]]
     \/ /\ p = "validate" /\ runbook # 0
        /\ runs' = [runs EXCEPT ![p] =
                      [Resting EXCEPT !.at = "copies", !.head = Tip, !.attempts = 1,
                                      !.runbook = runbook]]
  /\ UNCHANGED <<checkout, files, hub, due, greens, cut, verdict>>

\* The next attempt: past the last one, or once the lease is lost, the scan has
\* failed.  A validation has one attempt.
TriesAgain(p) ==
  IF p = "validate" THEN Rests(p)
  ELSE IF runs[p].attempts = MaxAttempts \/ runs[p].lost
         THEN runs' = [runs EXCEPT ![p].at = "answers", ![p].runbook = 0]
         ELSE runs' = [runs EXCEPT ![p].at = "proposes", ![p].attempts = @ + 1]

\* The agent proposes a runbook; or it fails, or what it says is rejected.
Proposes(p) ==
  /\ runs[p].at = "proposes"
  /\ \/ \E r \in Runbooks : runs' = [runs EXCEPT ![p].at = "copies", ![p].runbook = r]
     \/ TriesAgain(p)
  /\ UNCHANGED <<checkout, files, hub, due, greens, cut, verdict>>

\* executeRunbook: a box, a copy of the checkout as it is now...
Copies(p) ==
  /\ runs[p].at = "copies"
  /\ runs' = [runs EXCEPT ![p].at = "runs", ![p].saw = tree]
  /\ UNCHANGED <<checkout, files, hub, due, greens, cut, verdict>>

\* ... the install, the services and the tests; a lease that is lost kills what
\* runs, and fails the attempt...
Passes(p) ==
  /\ runs[p].at = "runs" /\ ~runs[p].lost
  /\ Becomes(p, "destroys")
  /\ greens' = greens \union {[runbook |-> runs[p].runbook, tree |-> runs[p].saw]}
  /\ UNCHANGED <<checkout, files, hub, due, cut, verdict>>

Fails(p) ==
  /\ runs[p].at \in {"copies", "runs"} /\ TriesAgain(p)
  /\ UNCHANGED <<checkout, files, hub, due, greens, cut, verdict>>

\* ... and the box destroyed.  A scan writes runbook.json; a lease lost by now
\* does not stop it.
WritesRunbook(p) ==
  /\ runs[p].at = "destroys" /\ Becomes(p, "builds")
  /\ runbook' = IF p = "validate" THEN runbook ELSE runs[p].runbook
  /\ UNCHANGED <<checkout, validation, hub, due, greens, cut, verdict>>

\* The snapshot, built or not, and the validation: of the commit read when the
\* run began.
WritesValidation(p) ==
  /\ runs[p].at = "builds"
  /\ validation' = [of |-> runs[p].runbook, at |-> runs[p].head]
  /\ IF p = "daemon" THEN Becomes(p, "answers") ELSE Rests(p)
  /\ cut' = FALSE
  /\ UNCHANGED <<checkout, runbook, hub, due, greens, verdict>>

\* What the hub is told.
Told(p) ==
  hub' = [hub EXCEPT !.left = 0,
                      !.status = IF runs[p].runbook = 0 THEN "failed" ELSE "completed"]

\* Nobody tells it again if that is lost; a lease that was lost leaves it untold.
Answers(p) ==
  /\ runs[p].at = "answers" /\ Rests(p) /\ due' = FALSE
  /\ \/ p = "daemon" /\ (~due \/ Sleeps) /\ ~runs[p].lost /\ Told(p)
     \/ (p # "daemon" \/ runs[p].lost \/ Losses) /\ UNCHANGED hub
  /\ UNCHANGED <<checkout, files, greens, cut, verdict>>

Dies(p) ==
  /\ Crashes /\ runs[p] # Resting /\ Rests(p)
  /\ due' = (due /\ p # "daemon")
  /\ cut' = (cut \/ runs[p].at = "builds")
  /\ UNCHANGED <<checkout, files, hub, greens, verdict>>

------------------------------------------------------------------------------
(* Verifications *)

\* A plausible bug: the runbook is not compared with the validated one.
VerifiedByName(r, val, v) ==
  IF r = 0 \/ val = NoValidation THEN NotVerified
  ELSE [status |-> IF history[val.at] = v THEN "run" ELSE "refused",
        runbook |-> r, tree |-> v]

\* verifyAfterCommit, of a turn whose worktree has some version of the files:
\* no runbook or no validation, nothing; a runbook that is not the validated
\* one, or files that are not those of the validated commit, a refusal.
Verified(r, val, v) ==
  IF r = 0 \/ val = NoValidation THEN NotVerified
  ELSE [status |-> IF val.of = r /\ history[val.at] = v THEN "run" ELSE "refused",
        runbook |-> r, tree |-> v]

Verifies(v) ==
  /\ verdict' = Verified(runbook, validation, v)
  /\ UNCHANGED <<checkout, files, runs, hub, due, greens, cut>>

Next ==
  \/ Edits \/ Commits \/ HubAsks \/ AnotherClaims \/ Beat
  \/ Claims \/ Renews \/ RenewalIsLost
  \/ \E p \in Processes :
       \/ CommandStarts(p) \/ Proposes(p) \/ Copies(p) \/ Passes(p) \/ Fails(p)
       \/ WritesRunbook(p) \/ WritesValidation(p) \/ Answers(p) \/ Dies(p)
  \/ \E v \in 1 .. MaxVersions : Verifies(v)

Spec == Init /\ [][Next]_vars

\* Agents and boxes have time limits, and the hub's clock goes on.
Tries == Proposes("daemon") \/ Copies("daemon") \/ Passes("daemon") \/ Fails("daemon")
Concludes == WritesRunbook("daemon") \/ WritesValidation("daemon") \/ Answers("daemon")
FairSpec ==
  Spec /\ WF_vars(Beat) /\ WF_vars(Renews \/ RenewalIsLost) /\ WF_vars(Tries) /\ WF_vars(Concludes)
------------------------------------------------------------------------------
(* Properties *)

\* A turn is only verified by a runbook that passed over the very files it
\* depends on (verifyAfterCommit, changedDependencyFiles).
VerifiedByWhatPassed ==
  verdict.status = "run" => [runbook |-> verdict.runbook, tree |-> verdict.tree] \in greens

\* The two files agree unless somebody is between their writes, or died there:
\* otherwise every turn of the project is refused until the next scan.
FilesAgree == AllRest /\ ~cut => runbook = validation.of

\* A daemon that takes its lease for held holds it.
LeaseIsHeld == Leased("daemon") /\ ~due => hub.holder = "daemon"

\* The hub hears of a scan only from the daemon that holds it.
AnswerIsTheHolders == hub.status \in {"completed", "failed"} => hub.holder = "daemon"

\* A scan that was claimed is answered, or goes back.
ScanComesBack == hub.status = "running" ~> hub.status # "running"
==============================================================================
