------------------------------ MODULE MemLedger ------------------------------
(***************************************************************************)
(* MemService implements RefundLedger as long as one thread decides.  The  *)
(* refund of a key is the operation created with that key; what is written *)
(* with the status is one step of the ledger, all the rest is stuttering.  *)
(***************************************************************************)
EXTENDS MemService

CONSTANT Unused

ledgerState ==
  [draft |-> "proposed", pending_approval |-> "proposed", approved |-> "authorised",
   rejected |-> "refused", executed |-> "paid", unknown |-> "uncertain",
   failed |-> "unpaid"]

OpsOfKey(k) == {i \in DOMAIN ops : ops[i].key = k}

refundOfKey ==
  [k \in RefundKey |->
     IF OpsOfKey(k) = {} THEN Unused
     ELSE LET op == ops[CHOOSE i \in OpsOfKey(k) : TRUE] IN
          [order |-> op.order, amount |-> op.amount, state |-> ledgerState[op.status]]]

Ledger == INSTANCE RefundLedger WITH Key <- RefundKey, refund <- refundOfKey

\* what marks an unused key is no refund
ASSUME UnusedAssumption == Unused \notin Ledger!Refund

\* Every behaviour of the in-memory service in which one thread decides, with its
\* waits, retries and its audit written after the fact, is one of the atomic ledger:
\* the same promise as the PostgreSQL service.
ImplementsLedger == Ledger!Spec
=============================================================================
