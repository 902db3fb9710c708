---------------------------- MODULE TicketState ----------------------------
(***************************************************************************)
(* The ticket state machine the runner and the hub share                    *)
(* (packages/contract/src/ticket-state.ts), and what a report must carry to *)
(* be one at all (packages/contract/src/arm.ts).                            *)
(***************************************************************************)

ARM_TICKET_STATUSES ==
  {"proposed", "rejected", "published", "in_progress", "mr_opened", "ready_to_merge",
   "done", "failed", "already_implemented"}

TICKET_TRANSITIONS ==
  ({"proposed"} \X {"published", "rejected"})
  \union ({"published"} \X {"in_progress"})
  \union ({"in_progress"} \X {"published", "mr_opened", "already_implemented", "failed", "done"})
  \union ({"mr_opened"} \X {"mr_opened", "ready_to_merge", "failed", "done"})
  \union ({"ready_to_merge"} \X {"mr_opened", "done", "failed"})
  \union ({"failed"} \X {"in_progress", "published", "mr_opened", "failed"})
  \union ({"done"} \X {"mr_opened"})

isLegalTicketTransition(from, to) == <<from, to>> \in TICKET_TRANSITIONS

TICKET_TERMINAL_STATUSES ==
  {status \in ARM_TICKET_STATUSES :
     \A to \in ARM_TICKET_STATUSES : ~ isLegalTicketTransition(status, to)}

\* The status a report claims, or "none" when it moves no status.
targetTicketStatus(type, approves) ==
  CASE type = "mr_opened" -> "mr_opened"
    [] type = "merged"    -> "done"
    [] type = "failed"    -> "failed"
    [] OTHER              -> IF approves THEN "ready_to_merge" ELSE "none"

\* sanitizeArmTransition: a state requires its proof.
sanitizeArmTransition(type, proof) == type \in {"mr_opened", "merged"} => proof
=============================================================================
