------------------------------ MODULE Watchdog ------------------------------
(***************************************************************************)
(* The watchdog of one agent run (packages/cli/src/agent.ts,               *)
(* createSemanticWatchdog and the stream it is armed over): it decides from *)
(* the frames of the agent's output whether a long silence is a death.      *)
(*                                                                         *)
(* What the agent really does - tools it has out, results that never come - *)
(* is kept beside what the watchdog sees of it, which depends on the        *)
(* dialect of the stream.  Time is counted in units; timers are on time.    *)
(***************************************************************************)
EXTENDS Integers, FiniteSetsExt

CONSTANTS
  Dialects,     \* of "claude", "opencode", and "bytes": a stream nobody decodes
  Inactivity, ToolBudget, Heartbeat,   \* WatchdogBudgets
  Configured,   \* the ceiling the configuration asks for
  Escalation,   \* the kill escalation and the margin on top of it
  MaxTools,     \* bound: tools out at once
  Losses        \* a tool_use whose result never comes, or says no end, may happen

ParametersAreSound ==
  /\ Dialects \subseteq {"claude", "opencode", "bytes"}
  /\ {Inactivity, ToolBudget, Heartbeat, Escalation, MaxTools} \subseteq Nat \ {0}
  /\ Configured \in Nat /\ Losses \in BOOLEAN

VARIABLES
  dialect,      \* of the run's command
  now, nextTick,
  lastActivityAt, lastBeatAt, inFlight, toolsSince,   \* the watchdog's
  verdict,      \* "none", or why the run was cut
  out, outSince, lossy   \* the truth: tools out, since when, was an end not told

vars == <<dialect, now, nextTick, lastActivityAt, lastBeatAt, inFlight, toolsSince, verdict,
          out, outSince, lossy>>
seen == <<lastActivityAt, inFlight, toolsSince>>
timers == <<dialect, now, nextTick, lastBeatAt, verdict>>

Never == -1

\* watchdogTickMs: as fine as the smallest budget.
TickPeriod == Min({Inactivity, ToolBudget, Heartbeat})

\* effectiveAbsoluteCapMs: never below the budgets and a whole escalation.
EffectiveCap(configured) ==
  Max({configured, Max({Inactivity, ToolBudget}) + Escalation})

Cap == EffectiveCap(Configured)

-----------------------------------------------------------------------------
(* What a frame does *)

\* openTool: the window opens when the count leaves zero.
OpenTool ==
  /\ inFlight' = inFlight + 1
  /\ toolsSince' = IF inFlight = 0 THEN now ELSE toolsSince

CloseKeepsWindow ==
  IF inFlight = 0 THEN UNCHANGED <<inFlight, toolsSince>>
  ELSE inFlight' = inFlight - 1 /\ UNCHANGED toolsSince

\* closeTool: a result nobody waits for is not counted.
CloseTool ==
  IF inFlight = 0 THEN UNCHANGED <<inFlight, toolsSince>>
  ELSE /\ inFlight' = inFlight - 1
       /\ toolsSince' = IF inFlight = 1 THEN Never ELSE toolsSince

Frame == lastActivityAt' = now
Unseen == UNCHANGED seen
JustAFrame == Frame /\ UNCHANGED <<inFlight, toolsSince>>

Going == verdict = "none"

Speaks == Going /\ JustAFrame /\ UNCHANGED <<timers, out, outSince, lossy>>

\* OpenCode says nothing before a tool is done; bytes may or may not flow.
ToolStarts ==
  /\ Going /\ out < MaxTools
  /\ dialect = "claude" => inFlight < MaxTools
  /\ out' = out + 1
  /\ outSince' = IF out = 0 THEN now ELSE outSince
  /\ CASE dialect = "claude" -> Frame /\ OpenTool
       [] dialect = "opencode" -> Unseen
       [] dialect = "bytes" -> JustAFrame \/ Unseen
  /\ UNCHANGED <<timers, lossy>>

\* Claude's result closes a tool; OpenCode opens and closes it in one frame.
ToolEnds ==
  /\ Going /\ out > 0
  /\ out' = out - 1
  /\ outSince' = IF out = 1 THEN Never ELSE outSince
  /\ CASE dialect = "claude" -> Frame /\ CloseTool
       [] dialect = "opencode" -> JustAFrame
       [] dialect = "bytes" -> JustAFrame \/ Unseen
  /\ UNCHANGED <<timers, lossy>>

\* The frame of an OpenCode tool that failed is a tool_use, neither completed nor
\* with an output: it opens a tool and closes none.
ToolErrs ==
  /\ Going /\ Losses /\ dialect = "opencode"
  /\ out > 0 /\ inFlight < MaxTools
  /\ out' = out - 1
  /\ outSince' = IF out = 1 THEN Never ELSE outSince
  /\ Frame /\ OpenTool
  /\ lossy' = TRUE
  /\ UNCHANGED timers

\* A tool ends and nothing says so.
ResultLost ==
  /\ Going /\ Losses /\ out > 0 /\ lossy' = TRUE
  /\ out' = out - 1
  /\ outSince' = IF out = 1 THEN Never ELSE outSince
  /\ Unseen /\ UNCHANGED timers

\* A result without a use: a replayed turn, a truncated stream; of OpenCode, a
\* tool_result on a line of its own.
OrphanResult ==
  /\ Going
  /\ \/ dialect = "claude" /\ out = 0 /\ ~ lossy
     \/ dialect = "opencode"
  /\ Frame /\ CloseTool
  /\ UNCHANGED <<timers, out, outSince, lossy>>

-----------------------------------------------------------------------------
(* Time *)

\* The beat comes first, and keeps coming while a tool is out.
Beats(at) == IF at - lastBeatAt >= Heartbeat THEN at ELSE lastBeatAt

\* One budget at a time: a tool out suspends the other.
Expiry(at) ==
  IF toolsSince # Never
  THEN IF at - toolsSince >= ToolBudget THEN "tool_budget" ELSE "none"
  ELSE IF at - lastActivityAt >= Inactivity THEN "inactivity" ELSE "none"

Tick ==
  /\ Going /\ now = nextTick
  /\ lastBeatAt' = Beats(now)
  /\ verdict' = Expiry(now)
  /\ nextTick' = now + TickPeriod
  /\ UNCHANGED <<dialect, now, seen, out, outSince, lossy>>

\* The ceiling, the net under the net.
CapFires ==
  /\ Going /\ now = Cap
  /\ verdict' = "timeout"
  /\ UNCHANGED <<dialect, now, nextTick, lastBeatAt, seen, out, outSince, lossy>>

Advance ==
  /\ Going /\ now < nextTick /\ now < Cap
  /\ now' = now + 1
  /\ UNCHANGED <<dialect, nextTick, lastBeatAt, verdict, seen, out, outSince, lossy>>

Init ==
  /\ dialect \in Dialects
  /\ now = 0 /\ nextTick = TickPeriod
  /\ lastActivityAt = 0 /\ lastBeatAt = 0 /\ inFlight = 0 /\ toolsSince = Never
  /\ verdict = "none" /\ out = 0 /\ outSince = Never /\ lossy = FALSE

Next ==
  \/ Speaks \/ ToolStarts \/ ToolEnds \/ ToolErrs \/ ResultLost \/ OrphanResult
  \/ Tick \/ CapFires \/ Advance

Spec == Init /\ [][Next]_vars

-----------------------------------------------------------------------------
(* Properties *)

TypeOK ==
  /\ dialect \in Dialects
  /\ now \in 0..Cap /\ nextTick \in Nat
  /\ lastActivityAt \in 0..Cap /\ lastBeatAt \in 0..Cap
  /\ inFlight \in 0..MaxTools /\ toolsSince \in (0..Cap) \union {Never}
  /\ verdict \in {"none", "inactivity", "tool_budget", "timeout"}
  /\ out \in 0..MaxTools /\ outSince \in (0..Cap) \union {Never}
  /\ lossy \in BOOLEAN

\* "An agent waiting on a test suite is not dead, it is waiting": silence never
\* cuts a run while one of its tools is out.
WaitingIsNotDeath == verdict = "inactivity" => out = 0

\* The tool budget bounds one uninterrupted window: tools called back to back
\* each get a fresh one, unless a result was lost.
WindowsAreFresh ==
  verdict = "tool_budget" /\ ~ lossy => out > 0 /\ now - outSince >= ToolBudget

\* "A suspended watchdog is always temporary": no run stays silent past the
\* larger budget, whatever became of its tools.
SilenceIsBounded ==
  Going => now - lastActivityAt <= Max({Inactivity, ToolBudget}) + TickPeriod

\* Where tools are not seen at work the inactivity guard is all there is, and it is
\* on time, unless a tool whose end was not told holds a window open.
BlindSilenceIsShort ==
  Going /\ (lossy => toolsSince = Never)
    => now - lastActivityAt <= Inactivity + Min({Inactivity, ToolBudget, Heartbeat})

\* The count of a run of OpenCode does not stick after a call: its tools are closed
\* by the frame that opens them (createOpencodeStreamParser's comment).
NothingSticks == dialect = "opencode" /\ Going => inFlight <= out

\* A run that is long keeps telling so, a tool out or not.
LongIsNotSilent == Going => now - lastBeatAt <= Heartbeat + TickPeriod

\* The ceiling never takes the place of the watchdog: a run that said nothing at
\* all is cut by the budget that names why.
WatchdogComesFirst == verdict = "timeout" => lastActivityAt > 0
=============================================================================
