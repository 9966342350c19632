------------------------------- MODULE PgLedger -------------------------------
(***************************************************************************)
(* PgCommands implements RefundLedger.  The refund of a key is the         *)
(* operation created with that key; begin, lock, check, submit, and every  *)
(* command on tickets are stuttering steps of the ledger.                  *)
(***************************************************************************)
EXTENDS PgCommands

CONSTANT Unused

ledgerState ==
  [draft |-> "proposed", pending_approval |-> "proposed", approved |-> "authorised",
   rejected |-> "refused", executed |-> "paid", unknown |-> "uncertain",
   failed |-> "unpaid"]

OpsOfKey(k) == {i \in DOMAIN ops : ops[i].key = k}

refundOfKey ==
  [k \in RefundKey |->
     IF OpsOfKey(k) = {} THEN Unused
     ELSE LET op == ops[CHOOSE i \in OpsOfKey(k) : TRUE] IN
          [order |-> op.order, amount |-> op.amount, state |-> ledgerState[op.status]]]

Ledger == INSTANCE RefundLedger WITH Key <- RefundKey, refund <- refundOfKey

\* what marks an unused key is no refund
ASSUME UnusedAssumption == Unused \notin Ledger!Refund

\* Every behaviour of the command service, with its stale reads, waits, version
\* conflicts, retries and disconnections, is one of the atomic ledger: each
\* committed command is one ledger step or none.
ImplementsLedger == Ledger!Spec
=============================================================================
