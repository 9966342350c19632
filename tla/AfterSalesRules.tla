--------------------------- MODULE AfterSalesRules ---------------------------
(***************************************************************************)
(* The statuses of operations and tickets and the transitions that both    *)
(* back ends share (domain/after_sales/models.py).                         *)
(***************************************************************************)

OperationStatus == {"draft", "pending_approval", "approved", "rejected",
                    "executed", "unknown", "failed"}

\* OPERATION_TRANSITIONS
OperationTransitions ==
  {<<"draft", "pending_approval">>, <<"draft", "rejected">>,
   <<"pending_approval", "approved">>, <<"pending_approval", "rejected">>,
   <<"approved", "executed">>, <<"approved", "unknown">>,
   <<"unknown", "executed">>, <<"unknown", "failed">>}

TerminalStatus == {"rejected", "executed", "failed"}

TicketStatus == {"open", "resolved", "rejected", "closed"}

\* TICKET_TRANSITIONS
TicketTransitions ==
  {<<"open", "resolved">>, <<"open", "rejected">>,
   <<"resolved", "closed">>, <<"rejected", "closed">>}
=============================================================================
