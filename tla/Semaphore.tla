----------------------------- MODULE Semaphore -----------------------------
(***************************************************************************)
(* What the machine-wide load cap promises its callers, and nothing of how *)
(* it does it: at most Cap heavy processes hold a slot, nobody waits while *)
(* a slot is free, and a slot that comes back goes to somebody waiting.    *)
(* LoadCap implements this specification.                                  *)
(***************************************************************************)
EXTENDS Naturals, FiniteSets

CONSTANTS
  Clients,   \* the turns, reviews and checks runs that ask for a slot
  Cap        \* how many of them may run at the same time

VARIABLES
  holders,   \* the clients running now
  waiting    \* the clients waiting for a slot

semVars == <<holders, waiting>>

SemInit ==
  /\ holders = {}
  /\ waiting = {}

Take(c) ==
  /\ c \notin holders \union waiting
  /\ waiting = {}
  /\ Cardinality(holders) < Cap
  /\ holders' = holders \union {c}
  /\ UNCHANGED waiting

Park(c) ==
  /\ c \notin holders \union waiting
  /\ Cardinality(holders) = Cap
  /\ waiting' = waiting \union {c}
  /\ UNCHANGED holders

Leave(c) ==
  /\ c \in waiting
  /\ waiting' = waiting \ {c}
  /\ UNCHANGED holders

GiveBack(c) ==
  /\ c \in holders
  /\ waiting = {}
  /\ holders' = holders \ {c}
  /\ UNCHANGED waiting

HandOver(c, w) ==
  /\ c \in holders
  /\ w \in waiting
  /\ holders' = (holders \ {c}) \union {w}
  /\ waiting' = waiting \ {w}

SemNext ==
  \E c \in Clients :
    \/ Take(c)
    \/ Park(c)
    \/ Leave(c)
    \/ GiveBack(c)
    \/ \E w \in Clients : HandOver(c, w)

SemSpec == SemInit /\ [][SemNext]_semVars
=============================================================================
