------------------------------ MODULE PgCommands ------------------------------
(***************************************************************************)
(* The PostgreSQL command service of the after-sales domain: eight         *)
(* commands, each one database transaction (PgCommandService over          *)
(* PostgresAfterSalesRepository, READ COMMITTED).  A database session runs *)
(* one command at a time, in these steps:                                  *)
(*                                                                         *)
(*    idle --begin--> blocked --lock--> locked --check--> writing --> idle *)
(*      \--begin (submit, approve, reject)---------------->/               *)
(*                                                                         *)
(*  begin   the statements before the order lock: an unlocked read, whose  *)
(*          result the session keeps in "seen"                             *)
(*  lock    SELECT ... FOR UPDATE on the order row: waits for its holder   *)
(*  check   the statements and rules after the lock, up to the first write *)
(*  commit  the writes and COMMIT.  The first UPDATE re-checks the version *)
(*          the session read; the row it writes stays locked and invisible *)
(*          until COMMIT, so other sessions cannot tell it from one step.  *)
(*                                                                         *)
(* A refusal before anything is locked changes nothing and is no step; one *)
(* after that, like a lost connection, rolls back.  All rows belong to one *)
(* tenant: every statement of the repository is keyed by tenant_id.        *)
(***************************************************************************)
EXTENDS Integers, Sequences, FiniteSets, AfterSalesRules

CONSTANTS
  Session,      \* database sessions: API threads and workflow runners
  Free,         \* the holder of an order row nobody has locked
  Order,        \* order rows
  Paid,         \* orders.paid_amount of each order, in cents
  Amount,       \* refund amounts a draft may ask for, in cents
  Request,      \* create_ticket payloads: customer, request type, reason, tags
  Entitled,     \* <<order, request>>: order open for after-sales, customer owns it
  Covered,      \* <<order, request>>: policies match and agree on the ratio
  TicketKey,    \* raw idempotency keys that clients use with create_ticket
  RefundKey     \* raw idempotency keys that clients use with create_refund

ASSUME SessionAssumption == Free \notin Session
ASSUME PaidAssumption == Paid \in [Order -> Nat]
ASSUME AmountAssumption == Amount \subseteq Nat \ {0}
ASSUME RequestAssumption == Entitled \subseteq Order \X Request
                         /\ Covered \subseteq Order \X Request

VARIABLES
  tickets,      \* rows of "tickets"; TKT-n is tickets[n] (next_seq is gap-free)
  ops,          \* rows of "refund_operations"; OP-n is ops[n]
  idem,         \* rows of "idempotency_records"
  decisions,    \* rows of "approval_decisions"
  ticketAudit,  \* audit_events of each ticket, in id order
  opAudit,      \* audit_events of each operation, in id order
  lock,         \* holder of the FOR UPDATE lock of each order row
  stage,        \* how far the command of each session has come
  cmd,          \* the command it runs
  seen,         \* the row it has read and will write back
  answers       \* history: what create commands have returned to their clients

tables == <<tickets, ops, idem, decisions, ticketAudit, opAudit>>
session == <<stage, cmd, seen>>
vars == <<tables, lock, session, answers>>

-----------------------------------------------------------------------------
(* Rows *)

Resolution == {"none", "refunded", "rejected"}

TicketRow == [order: Order, request: Request, status: TicketStatus,
              resolution: Resolution, version: Nat]

OperationRow == [ticket: Nat, order: Order, amount: Amount, key: RefundKey,
                 status: OperationStatus, version: Nat, decision_version: Nat]

\* hash stands for the canonical payload hash: equal iff the payloads are
IdemRow == [type: {"create_ticket"}, key: TicketKey, hash: Order \X Request, id: Nat]
      \cup [type: {"create_refund"}, key: RefundKey, hash: Nat \X Amount, id: Nat]

DecisionRow == [op: Nat, decision: {"approved", "rejected"}, version: Nat]

AuditRow == [before: OperationStatus \cup TicketStatus \cup {"none"},
             after: OperationStatus \cup TicketStatus]

Command ==
       [kind: {"create_ticket"}, key: TicketKey, order: Order, request: Request]
  \cup [kind: {"create_refund"}, key: RefundKey, ticket: Nat, amount: Amount]
  \cup [kind: {"submit", "approve", "reject"}, op: Nat]
  \cup [kind: {"execute"}, op: Nat, result: {"success", "timeout"}]
  \cup [kind: {"reconcile"}, op: Nat, result: {"success", "failed"}]
  \cup [kind: {"close_ticket"}, ticket: Nat]

NoCommand == [kind |-> "none"]

\* what a session keeps of a row it read: version for the CAS, status and
\* (close_ticket) the resolution its operations call for
Snapshot == [version: Nat, status: OperationStatus \cup TicketStatus,
             resolution: Resolution]

Nothing == [version |-> 0, status |-> "open", resolution |-> "none"]

SnapshotOf(row) ==
  [version |-> row.version, status |-> row.status, resolution |-> "none"]

-----------------------------------------------------------------------------
(* Queries over the tables *)

\* SUM(amount) of the executed operations of order o, counted cent by cent:
\* one element <<operation, cent>> for every cent of every executed operation
ExecutedOps(o) == {i \in DOMAIN ops : ops[i].order = o /\ ops[i].status = "executed"}
ExecutedCents(o) == UNION {{i} \X (1 .. ops[i].amount) : i \in ExecutedOps(o)}
ExecutedSum(o) == Cardinality(ExecutedCents(o))

\* validate_refund_capacity
WithinCapacity(o, amount) == ExecutedSum(o) + amount <= Paid[o]

OpsOfTicket(t) == {i \in DOMAIN ops : ops[i].ticket = t}

HasUnknown(o) == \E i \in DOMAIN ops : ops[i].order = o /\ ops[i].status = "unknown"

\* get_idem: the records of (command_type, raw_key)
IdemOf(type, key) == {r \in idem : r.type = type /\ r.key = key}

\* the order row the command of session s locks
OrderOf(s) ==
  CASE cmd[s].kind = "create_ticket" -> cmd[s].order
    [] cmd[s].kind \in {"create_refund", "close_ticket"} -> tickets[cmd[s].ticket].order
    [] cmd[s].kind \in {"execute", "reconcile"} -> ops[cmd[s].op].order

\* the payload a create command hashes
HashOf(c) == IF c.kind = "create_ticket" THEN <<c.order, c.request>>
                                         ELSE <<c.ticket, c.amount>>

-----------------------------------------------------------------------------
(* Begin: the statements before the order lock *)

Start(s, c, row, st) ==
  /\ stage' = [stage EXCEPT ![s] = st]
  /\ cmd' = [cmd EXCEPT ![s] = c]
  /\ seen' = [seen EXCEPT ![s] = row]
  /\ UNCHANGED <<tables, lock, answers>>

BeginCreateTicket(s, k, o, r) ==
  /\ stage[s] = "idle"
  /\ Start(s, [kind |-> "create_ticket", key |-> k, order |-> o, request |-> r],
           Nothing, "blocked")

\* get_ticket and the closed test come before the order lock
BeginCreateRefund(s, k, t, a) ==
  /\ stage[s] = "idle"
  /\ tickets[t].status # "closed"
  /\ Start(s, [kind |-> "create_refund", key |-> k, ticket |-> t, amount |-> a],
           Nothing, "blocked")

\* submit, approve and reject take no order lock: they rely on the version CAS.
\* An approver decides on the version it was shown; another one is refused here.
BeginSubmit(s, i) ==
  /\ stage[s] = "idle"
  /\ <<ops[i].status, "pending_approval">> \in OperationTransitions
  /\ Start(s, [kind |-> "submit", op |-> i], SnapshotOf(ops[i]), "writing")

BeginApprove(s, i) ==
  /\ stage[s] = "idle"
  /\ <<ops[i].status, "approved">> \in OperationTransitions
  /\ Start(s, [kind |-> "approve", op |-> i], SnapshotOf(ops[i]), "writing")

BeginReject(s, i) ==
  /\ stage[s] = "idle"
  /\ <<ops[i].status, "rejected">> \in OperationTransitions
  /\ Start(s, [kind |-> "reject", op |-> i], SnapshotOf(ops[i]), "writing")

\* the first _load_op only finds the order to lock
BeginExecute(s, i, result) ==
  /\ stage[s] = "idle"
  /\ Start(s, [kind |-> "execute", op |-> i, result |-> result], Nothing, "blocked")

BeginReconcile(s, i, result) ==
  /\ stage[s] = "idle"
  /\ Start(s, [kind |-> "reconcile", op |-> i, result |-> result], Nothing, "blocked")

\* the row read here, before the lock, is the one written back at the end
BeginCloseTicket(s, t) ==
  /\ stage[s] = "idle"
  /\ tickets[t].status # "closed"
  /\ Start(s, [kind |-> "close_ticket", ticket |-> t], SnapshotOf(tickets[t]), "blocked")

Begin(s) ==
  \/ \E k \in TicketKey, o \in Order, r \in Request : BeginCreateTicket(s, k, o, r)
  \/ \E k \in RefundKey, t \in DOMAIN tickets, a \in Amount : BeginCreateRefund(s, k, t, a)
  \/ \E i \in DOMAIN ops : BeginSubmit(s, i)
  \/ \E i \in DOMAIN ops : BeginApprove(s, i)
  \/ \E i \in DOMAIN ops : BeginReject(s, i)
  \/ \E i \in DOMAIN ops, result \in {"success", "timeout"} : BeginExecute(s, i, result)
  \/ \E i \in DOMAIN ops, result \in {"success", "failed"} : BeginReconcile(s, i, result)
  \/ \E t \in DOMAIN tickets : BeginCloseTicket(s, t)

-----------------------------------------------------------------------------
(* Lock: SELECT ... FROM orders ... FOR UPDATE *)

\* mutant: SELECT without FOR UPDATE, which waits for nobody
LockWithoutWaiting(s) ==
  /\ stage[s] = "blocked"
  /\ lock' = [lock EXCEPT ![OrderOf(s)] = s]
  /\ stage' = [stage EXCEPT ![s] = "locked"]
  /\ UNCHANGED <<tables, cmd, seen, answers>>

LockOrderForUpdate(s) ==
  /\ stage[s] = "blocked"
  /\ lock[OrderOf(s)] = Free
  /\ lock' = [lock EXCEPT ![OrderOf(s)] = s]
  /\ stage' = [stage EXCEPT ![s] = "locked"]
  /\ UNCHANGED <<tables, cmd, seen, answers>>

\* mutant: the lock outlives the transaction
FinishKeepingLock(s) ==
  /\ stage' = [stage EXCEPT ![s] = "idle"]
  /\ cmd' = [cmd EXCEPT ![s] = NoCommand]
  /\ seen' = [seen EXCEPT ![s] = Nothing]
  /\ UNCHANGED lock

\* the end of the transaction, committed or not: its locks are released
Finish(s) ==
  /\ stage' = [stage EXCEPT ![s] = "idle"]
  /\ cmd' = [cmd EXCEPT ![s] = NoCommand]
  /\ seen' = [seen EXCEPT ![s] = Nothing]
  /\ lock' = [o \in Order |-> IF lock[o] = s THEN Free ELSE lock[o]]

-----------------------------------------------------------------------------
(* Check: the reads and rules under the lock *)

KeyUnused(s) == IdemOf(cmd[s].kind, cmd[s].key) = {}

\* mutant: the first result is returned whatever the payload
ReplayedByKey(s) ==
  IF cmd[s].kind \in {"create_ticket", "create_refund"}
  THEN IdemOf(cmd[s].kind, cmd[s].key)
  ELSE {}

\* the records of the key, if it was used before with the same payload
Replayed(s) ==
  IF cmd[s].kind \in {"create_ticket", "create_refund"}
  THEN {r \in IdemOf(cmd[s].kind, cmd[s].key) :
          /\ r.hash = HashOf(cmd[s])
          /\ cmd[s].kind = "create_ticket" =>
               <<cmd[s].order, cmd[s].request>> \in Entitled}
  ELSE {}

TicketAllowed(s) ==
  /\ <<cmd[s].order, cmd[s].request>> \in Entitled
  /\ KeyUnused(s)
  /\ <<cmd[s].order, cmd[s].request>> \in Covered

\* mutant: no guard against operations with an unknown outcome
RefundDespiteUnknown(s) ==
  /\ KeyUnused(s)
  /\ WithinCapacity(OrderOf(s), cmd[s].amount)

RefundAllowed(s) ==
  /\ KeyUnused(s)
  /\ ~ HasUnknown(OrderOf(s))
  /\ WithinCapacity(OrderOf(s), cmd[s].amount)

\* mutant: anything that is not over may be executed
ExecuteUndecided(s) ==
  LET op == ops[cmd[s].op] IN
  /\ op.status \notin TerminalStatus
  /\ cmd[s].result = "success" => WithinCapacity(op.order, op.amount)

ExecuteAllowed(s) ==
  LET op == ops[cmd[s].op] IN
  /\ op.status = "approved"
  /\ cmd[s].result = "success" => WithinCapacity(op.order, op.amount)

\* mutant: a payment that was made outside is booked without a capacity check
ReconcileUnchecked(s) == ops[cmd[s].op].status = "unknown"

\* mutant: an operation is reconciled whatever its status
ReconcileAny(s) ==
  LET op == ops[cmd[s].op] IN
  cmd[s].result = "success" => WithinCapacity(op.order, op.amount)

ReconcileAllowed(s) ==
  LET op == ops[cmd[s].op] IN
  /\ op.status = "unknown"
  /\ cmd[s].result = "success" => WithinCapacity(op.order, op.amount)

CloseAllowed(s) ==
  \A i \in OpsOfTicket(cmd[s].ticket) : ops[i].status \in TerminalStatus

Allowed(s) ==
  CASE cmd[s].kind = "create_ticket" -> TicketAllowed(s)
    [] cmd[s].kind = "create_refund" -> RefundAllowed(s)
    [] cmd[s].kind = "execute" -> ExecuteAllowed(s)
    [] cmd[s].kind = "reconcile" -> ReconcileAllowed(s)
    [] cmd[s].kind = "close_ticket" -> CloseAllowed(s)

\* how the operations of ticket t qualify it when it is closed
ResolutionOf(t) ==
  LET has(st) == \E i \in OpsOfTicket(t) : ops[i].status = st IN
  CASE has("executed") -> "refunded"
    [] ~ has("executed") /\ has("rejected") -> "rejected"
    [] OTHER -> "none"

\* the row the command will write back, as it stands under the lock
RowUnderLock(s) ==
  CASE cmd[s].kind \in {"execute", "reconcile"} -> SnapshotOf(ops[cmd[s].op])
    [] cmd[s].kind = "close_ticket" ->
         [seen[s] EXCEPT !.resolution = ResolutionOf(cmd[s].ticket)]
    [] OTHER -> seen[s]

Check(s) ==
  /\ stage[s] = "locked"
  /\ Allowed(s)
  /\ stage' = [stage EXCEPT ![s] = "writing"]
  /\ seen' = [seen EXCEPT ![s] = RowUnderLock(s)]
  /\ UNCHANGED <<tables, lock, cmd, answers>>

\* the row a create command gets for its key and payload
AnswerTo(s, id) ==
  [type |-> cmd[s].kind, key |-> cmd[s].key, hash |-> HashOf(cmd[s]), id |-> id]

\* the first result is returned and nothing is written
Replay(s) ==
  /\ stage[s] = "locked"
  /\ \E r \in Replayed(s) : answers' = answers \cup {AnswerTo(s, r.id)}
  /\ Finish(s)
  /\ UNCHANGED tables

-----------------------------------------------------------------------------
(* Commit: the writes, all or none *)

\* mutants: UPDATE without the version in its WHERE clause
OpAnyVersion(s) == cmd[s].op \in DOMAIN ops
TicketAnyVersion(s) == cmd[s].ticket \in DOMAIN tickets

\* UPDATE ... SET version = version + 1 WHERE version = <the one read>
OpUnchanged(s) == ops[cmd[s].op].version = seen[s].version
TicketUnchanged(s) == tickets[cmd[s].ticket].version = seen[s].version

\* uq_approval_operation_version
FirstDecision(s) ==
  \A d \in decisions : ~ (d.op = cmd[s].op /\ d.version = seen[s].version)

\* mutant: no unique index on the idempotency records
WritableWithoutIndex(s) ==
  CASE cmd[s].kind \in {"create_ticket", "create_refund"} -> TRUE
    [] cmd[s].kind = "close_ticket" -> TicketUnchanged(s)
    [] cmd[s].kind \in {"approve", "reject"} -> OpUnchanged(s) /\ FirstDecision(s)
    [] cmd[s].kind \in {"submit", "execute", "reconcile"} -> OpUnchanged(s)

Writable(s) ==
  CASE cmd[s].kind \in {"create_ticket", "create_refund"} -> KeyUnused(s)
    [] cmd[s].kind = "close_ticket" -> TicketUnchanged(s)
    [] cmd[s].kind \in {"approve", "reject"} -> OpUnchanged(s) /\ FirstDecision(s)
    [] cmd[s].kind \in {"submit", "execute", "reconcile"} -> OpUnchanged(s)

Commit(s, kind) ==
  /\ stage[s] = "writing"
  /\ cmd[s].kind = kind
  /\ Writable(s)
  /\ Finish(s)

\* the idempotency record of a created row repeats the client's answer
RecordKey(s, id) ==
  /\ idem' = idem \cup {AnswerTo(s, id)}
  /\ answers' = answers \cup {AnswerTo(s, id)}

CommitCreateTicket(s) ==
  /\ Commit(s, "create_ticket")
  /\ tickets' = Append(tickets, [order |-> cmd[s].order, request |-> cmd[s].request,
                                 status |-> "open", resolution |-> "none", version |-> 1])
  /\ ticketAudit' = Append(ticketAudit, <<[before |-> "none", after |-> "open"]>>)
  /\ RecordKey(s, Len(tickets) + 1)
  /\ UNCHANGED <<ops, decisions, opAudit>>

CommitCreateRefund(s) ==
  /\ Commit(s, "create_refund")
  /\ ops' = Append(ops, [ticket |-> cmd[s].ticket, order |-> OrderOf(s),
                         amount |-> cmd[s].amount, key |-> cmd[s].key,
                         status |-> "draft", version |-> 1, decision_version |-> 0])
  /\ opAudit' = Append(opAudit, <<[before |-> "none", after |-> "draft"]>>)
  /\ RecordKey(s, Len(ops) + 1)
  /\ UNCHANGED <<tickets, decisions, ticketAudit>>

\* the SET clause of an operation's UPDATE (the column "executed" repeats the status)
WithStatus(row, to, read) ==
  [row EXCEPT !.status = to,
              !.version = @ + 1,
              !.decision_version = IF to = "approved" THEN read ELSE @]

\* update_operation_versioned, and the audit row with the status that was read
WriteStatus(s, to) ==
  /\ ops' = [ops EXCEPT ![cmd[s].op] = WithStatus(@, to, seen[s].version)]
  /\ opAudit' = [opAudit EXCEPT ![cmd[s].op] =
                   Append(@, [before |-> seen[s].status, after |-> to])]
  /\ UNCHANGED <<tickets, idem, ticketAudit, answers>>

CommitSubmit(s) ==
  /\ Commit(s, "submit")
  /\ WriteStatus(s, "pending_approval")
  /\ UNCHANGED decisions

RecordDecision(s, decision) ==
  decisions' = decisions \cup
    {[op |-> cmd[s].op, decision |-> decision, version |-> seen[s].version]}

CommitApprove(s) ==
  /\ Commit(s, "approve")
  /\ WriteStatus(s, "approved")
  /\ RecordDecision(s, "approved")

CommitReject(s) ==
  /\ Commit(s, "reject")
  /\ WriteStatus(s, "rejected")
  /\ RecordDecision(s, "rejected")

CommitExecute(s) ==
  /\ Commit(s, "execute")
  /\ WriteStatus(s, IF cmd[s].result = "success" THEN "executed" ELSE "unknown")
  /\ UNCHANGED decisions

CommitReconcile(s) ==
  /\ Commit(s, "reconcile")
  /\ WriteStatus(s, IF cmd[s].result = "success" THEN "executed" ELSE "failed")
  /\ UNCHANGED decisions

\* A qualified ticket is written twice, resolved or rejected and then closed,
\* but both audit rows carry the status the session read before the lock.
Closed(row, resolution) ==
  [row EXCEPT !.status = "closed",
              !.resolution = IF resolution = "none" THEN @ ELSE resolution,
              !.version = @ + (IF resolution = "none" THEN 1 ELSE 2)]

ClosingEvents(before, resolution) ==
  LET event(after) == [before |-> before, after |-> after] IN
  CASE resolution = "refunded" -> <<event("resolved"), event("closed")>>
    [] resolution = "rejected" -> <<event("rejected"), event("closed")>>
    [] resolution = "none" -> <<event("closed")>>

CommitCloseTicket(s) ==
  LET t == cmd[s].ticket IN
  /\ Commit(s, "close_ticket")
  /\ tickets' = [tickets EXCEPT ![t] = Closed(@, seen[s].resolution)]
  /\ ticketAudit' = [ticketAudit EXCEPT ![t] =
                       @ \o ClosingEvents(seen[s].status, seen[s].resolution)]
  /\ UNCHANGED <<ops, idem, decisions, opAudit, answers>>

-----------------------------------------------------------------------------
(* The ends without a write *)

\* a rule of the check fails, or the key was used with another payload
RefuseCheck(s) ==
  /\ stage[s] = "locked"
  /\ ~ Allowed(s)
  /\ Replayed(s) = {}
  /\ Finish(s)
  /\ UNCHANGED <<tables, answers>>

\* the UPDATE finds another version, or a unique constraint fails
RefuseWrite(s) ==
  /\ stage[s] = "writing"
  /\ ~ Writable(s)
  /\ Finish(s)
  /\ UNCHANGED <<tables, answers>>

\* the process dies or loses its connection: the server rolls back
Disconnect(s) ==
  /\ stage[s] # "idle"
  /\ Finish(s)
  /\ UNCHANGED <<tables, answers>>

-----------------------------------------------------------------------------
Init ==
  /\ tickets = <<>>
  /\ ops = <<>>
  /\ idem = {}
  /\ decisions = {}
  /\ ticketAudit = <<>>
  /\ opAudit = <<>>
  /\ lock = [o \in Order |-> Free]
  /\ stage = [s \in Session |-> "idle"]
  /\ cmd = [s \in Session |-> NoCommand]
  /\ seen = [s \in Session |-> Nothing]
  /\ answers = {}

CommitAny(s) ==
  \/ CommitCreateTicket(s) \/ CommitCreateRefund(s) \/ CommitSubmit(s)
  \/ CommitApprove(s) \/ CommitReject(s) \/ CommitExecute(s)
  \/ CommitReconcile(s) \/ CommitCloseTicket(s)

\* the server side of a transaction that has begun
Server(s) == Check(s) \/ Replay(s) \/ CommitAny(s) \/ RefuseCheck(s) \/ RefuseWrite(s)

Next ==
  \E s \in Session : Begin(s) \/ LockOrderForUpdate(s) \/ Server(s) \/ Disconnect(s)

Spec == Init /\ [][Next]_vars

\* The server runs the statements of a session to the end (weak fairness), and
\* queues the sessions that wait for a row, so that each gets it in turn
\* (strong fairness).  Clients need not send anything: Begin is not fair.
Fairness ==
  \A s \in Session :
    /\ SF_vars(LockOrderForUpdate(s))
    /\ WF_vars(Server(s))

FairSpec == Spec /\ Fairness

-----------------------------------------------------------------------------
(* Properties *)

\* Every variable holds rows, commands and snapshots of the right shape.
TypeOK ==
  /\ tickets \in Seq(TicketRow)
  /\ ops \in Seq(OperationRow)
  /\ idem \subseteq IdemRow
  /\ decisions \subseteq DecisionRow
  /\ ticketAudit \in Seq(Seq(AuditRow))
  /\ opAudit \in Seq(Seq(AuditRow))
  /\ lock \in [Order -> Session \cup {Free}]
  /\ stage \in [Session -> {"idle", "blocked", "locked", "writing"}]
  /\ cmd \in [Session -> Command \cup {NoCommand}]
  /\ seen \in [Session -> Snapshot]
  /\ answers \subseteq IdemRow

\* Refund capacity (validate_refund_capacity under the order lock): the executed
\* refunds of an order never add up to more than was paid for it, however the
\* executions and reconciliations of several sessions interleave.
RefundCapacity == \A o \in Order : ExecutedSum(o) <= Paid[o]

\* Idempotent creation (get_idem, insert_idem): a key creates at most one row,
\* every row has the record of its key, and the record describes that row.
OneRowPerKey ==
  /\ \A r1, r2 \in idem : r1.type = r2.type /\ r1.key = r2.key => r1 = r2
  /\ \A i \in DOMAIN ops :
       [type |-> "create_refund", key |-> ops[i].key,
        hash |-> <<ops[i].ticket, ops[i].amount>>, id |-> i] \in idem
  /\ \A t \in DOMAIN tickets : \E r \in idem :
       r.type = "create_ticket" /\ r.id = t /\ r.hash = <<tickets[t].order, tickets[t].request>>

\* A client that repeats a create command, after a lost reply or a crash, and from
\* any session, gets the row it got before; with another payload it gets none.
RetriesAgree ==
  \A a1, a2 \in answers : a1.type = a2.type /\ a1.key = a2.key => a1 = a2

\* Decisions (approve, reject, insert_approval): an operation gets at most one
\* decision, and it moves past approval or is rejected exactly as that decision
\* says, at the version the approver decided on.
DecidedOnce ==
  \A i \in DOMAIN ops :
    LET made == {d \in decisions : d.op = i} IN
    /\ Cardinality(made) <= 1
    /\ ops[i].status = "rejected" <=> \E d \in made : d.decision = "rejected"
    /\ ops[i].status \in {"approved", "executed", "unknown", "failed"} <=>
         \E d \in made : d.decision = "approved" /\ d.version = ops[i].decision_version

\* Audit of operations (_audit in each command): the events of an operation are an
\* unbroken path through OPERATION_TRANSITIONS from its draft to its status, one
\* event per version, although "before" comes from a read that nothing locks.
OperationAuditComplete ==
  \A i \in DOMAIN ops :
    LET events == opAudit[i] IN
    /\ Len(events) = ops[i].version
    /\ events[1] = [before |-> "none", after |-> "draft"]
    /\ events[Len(events)].after = ops[i].status
    /\ \A n \in 2 .. Len(events) :
         /\ events[n].before = events[n - 1].after
         /\ <<events[n].before, events[n].after>> \in OperationTransitions

\* Closing (close_ticket): two sessions never both close a ticket, and a ticket that
\* is closed as refunded, or as rejected, still has the operation that made it so.
ClosedOnceWithCause ==
  \A t \in DOMAIN tickets :
    LET closings == {n \in DOMAIN ticketAudit[t] : ticketAudit[t][n].after = "closed"}
        has(st) == \E i \in OpsOfTicket(t) : ops[i].status = st
    IN
    /\ Cardinality(closings) = (IF tickets[t].status = "closed" THEN 1 ELSE 0)
    /\ tickets[t].version = Len(ticketAudit[t])
    /\ tickets[t].resolution = "refunded" => has("executed")
    /\ tickets[t].resolution = "rejected" => has("rejected")

\* Terminal statuses: no command, started however long before, changes an
\* operation that is rejected, executed or failed.
TerminalIsFinal ==
  [][\A i \in DOMAIN ops : ops[i].status \in TerminalStatus => ops'[i] = ops[i]]_vars

\* Unknown guard (create_refund_draft): no draft is added to an order while one of
\* its operations has an unknown outcome, nor one that no longer fits.
DraftsRespectOrder ==
  [][Len(ops') > Len(ops) =>
       LET draft == ops'[Len(ops')] IN
       ~ HasUnknown(draft.order) /\ WithinCapacity(draft.order, draft.amount)]_vars

\* create_refund_draft refuses a closed ticket ("the ticket is closed, no refund
\* operation may be added") and close_ticket one with undecided operations, so a
\* closed ticket would have none.  The closed test reads the ticket before the order
\* lock and does not repeat it after: this does not hold.
NoOpenOperationOnClosedTicket ==
  \A t \in DOMAIN tickets : tickets[t].status = "closed" =>
    \A i \in OpsOfTicket(t) : ops[i].status \in TerminalStatus

\* TICKET_TRANSITIONS as the audit events of a qualified ticket tell it: every event
\* is a legal transition.  close_ticket writes the closing event with the status of
\* the row it read first, not of the one it has just qualified: this does not hold.
TicketAuditLegal ==
  \A t \in DOMAIN tickets : tickets[t].resolution # "none" =>
    \A n \in 2 .. Len(ticketAudit[t]) :
      <<ticketAudit[t][n].before, ticketAudit[t][n].after>> \in TicketTransitions

-----------------------------------------------------------------------------
(* The inductive invariant behind RefundCapacity *)

LockingKind == {"create_ticket", "create_refund", "execute", "reconcile", "close_ticket"}
OperationKind == {"submit", "approve", "reject", "execute", "reconcile"}
TicketKind == {"create_refund", "close_ticket"}

\* A command in progress is about rows that exist, and each table has its audit.
Referential ==
  /\ \A s \in Session :
       /\ stage[s] # "idle" => cmd[s] \in Command
       /\ stage[s] \in {"blocked", "locked"} => cmd[s].kind \in LockingKind
       /\ cmd[s].kind \in OperationKind => cmd[s].op \in DOMAIN ops
       /\ cmd[s].kind \in TicketKind => cmd[s].ticket \in DOMAIN tickets
  /\ Len(ticketAudit) = Len(tickets)
  /\ Len(opAudit) = Len(ops)

\* A session past the order lock holds it.
PastOrderLock(s) ==
  \/ stage[s] = "locked"
  \/ stage[s] = "writing" /\ cmd[s].kind \in LockingKind

HoldsOrderLock == \A s \in Session : PastOrderLock(s) => lock[OrderOf(s)] = s

\* A payment that was checked and is about to be written still fits.
Paying(s) ==
  /\ stage[s] = "writing"
  /\ cmd[s].kind \in {"execute", "reconcile"}
  /\ cmd[s].result = "success"

PaymentFits ==
  \A s \in Session : Paying(s) =>
    WithinCapacity(ops[cmd[s].op].order, ops[cmd[s].op].amount)

CapacityInv ==
  TypeOK /\ Referential /\ HoldsOrderLock /\ PaymentFits /\ RefundCapacity

-----------------------------------------------------------------------------
\* Every transaction ends: sessions that wait for order rows never wait for each
\* other in a circle, and none waits for ever.
CommandsEnd == \A s \in Session : stage[s] # "idle" ~> stage[s] = "idle"
=============================================================================
