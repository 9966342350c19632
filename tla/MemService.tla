------------------------------ MODULE MemService ------------------------------
(***************************************************************************)
(* The in-memory domain service (AfterSalesService with IdempotencyStore): *)
(* threads of one process that run domain commands on shared objects, with *)
(* one lock per order and one per idempotency key.  A command goes through *)
(*                                                                         *)
(*   idle -> [order] -> [key] -> locked -> writing -> [booking ->          *)
(*     \---- submit, approve, reject ------->/          recording] -> idle *)
(*                                                                         *)
(*   order, key   waiting for the order's lock, for the key's lock         *)
(*   locked       holding what it needs, before the rules are checked      *)
(*   writing      the rules were passed, nothing is written yet            *)
(*   booking      the status is written, what follows from it is not       *)
(*   recording    that is written too, the audit event is not              *)
(*                                                                         *)
(* submit, approve and reject take no lock.  An operation is one object    *)
(* that all threads share: what a thread reads again it reads anew, but    *)
(* check_transition is called with the status as it was at the call.       *)
(* Statements between two calls are one step: the interpreter switches     *)
(* threads at calls and at loops only, so "_seq += 1" gives unique ids.    *)
(* The sum of an order's refunds is read and written in one step, for only *)
(* the holder of the order's lock does so.                                 *)
(* The placeholder of a key under creation is never seen by another        *)
(* thread, for the key's lock is held from reservation to commit.          *)
(***************************************************************************)
EXTENDS Integers, Sequences, FiniteSets, AfterSalesRules

CONSTANTS
  Thread,       \* threads of the API's pool
  Decider,      \* those that serve submit, approve and reject
  Free,         \* the holder of a lock nobody holds
  Order, Paid,  \* orders, and what was paid for each in cents
  Amount,       \* refund amounts a draft may ask for
  Request,      \* create_ticket payloads
  Covered,      \* <<order, request>>: order open, policies match without conflict
  TicketKey,    \* idempotency keys clients use with create_ticket
  RefundKey     \* idempotency keys clients use with create_refund

ASSUME ThreadAssumption == Free \notin Thread /\ Decider \subseteq Thread
ASSUME OrderAssumption == Paid \in [Order -> Nat] /\ Covered \subseteq Order \X Request
ASSUME RefundAmountAssumption == Amount \subseteq Nat \ {0}

VARIABLES
  tickets,      \* _tickets in creation order
  ops,          \* _operations in creation order
  refunded,     \* _refunded_by_order
  records,      \* committed idempotency records; both create commands share the keys
  ticketAudit,  \* the audit events of each ticket
  opAudit,      \* the audit events of each operation
  orderLock,    \* holder of each order's lock
  keyLock,      \* holder of each key's lock
  stage,        \* how far the command of each thread has come
  cmd,          \* the command it runs
  before,       \* the status it overwrote, for the audit event
  answers       \* history: what create commands have returned to their clients

data == <<tickets, ops, refunded, records, ticketAudit, opAudit>>
locks == <<orderLock, keyLock>>
vars == <<data, locks, stage, cmd, before, answers>>

Key == TicketKey \cup RefundKey

-----------------------------------------------------------------------------
(* Objects *)

Stage == {"idle", "order", "key", "locked", "writing", "booking", "recording"}

Ticket == [order: Order, request: Request, status: TicketStatus,
           resolution: {"none", "refunded", "rejected"}]

Operation == [ticket: Nat, order: Order, amount: Amount, key: RefundKey,
              status: OperationStatus, version: Nat]

\* hash stands for the payload hash; the payloads of the two commands differ
Record == [key: Key, hash: (Order \X Request) \cup (Nat \X Amount), id: Nat]

AuditEvent == [before: OperationStatus \cup TicketStatus \cup {"none"},
               after: OperationStatus \cup TicketStatus]

NoCommand == [kind |-> "none"]

Creation == {"create_ticket", "create_refund"}
Decision == {"submit", "approve", "reject"}
Payment == {"execute", "reconcile"}
OrderLocking == {"create_refund", "close_ticket"} \cup Payment

Command ==
       [kind: {"create_ticket"}, key: TicketKey, order: Order, request: Request]
  \cup [kind: {"create_refund"}, key: RefundKey, ticket: Nat, amount: Amount]
  \cup [kind: Decision, op: Nat]
  \cup [kind: {"execute"}, op: Nat, result: {"success", "timeout"}]
  \cup [kind: {"reconcile"}, op: Nat, result: {"success", "failed"}]
  \cup [kind: {"close_ticket"}, ticket: Nat]

OpsOfTicket(t) == {i \in DOMAIN ops : ops[i].ticket = t}
HasUnknown(o) == \E i \in DOMAIN ops : ops[i].order = o /\ ops[i].status = "unknown"

\* _ensure_refund_capacity, and the test of the remaining amount in create_refund
WithinCapacity(o, amount) == refunded[o] + amount <= Paid[o]

RecordOf(k) == {r \in records : r.key = k}

HashOf(c) == IF c.kind = "create_ticket" THEN <<c.order, c.request>>
                                         ELSE <<c.ticket, c.amount>>

OrderOf(t) ==
  CASE cmd[t].kind = "create_ticket" -> cmd[t].order
    [] cmd[t].kind \in {"create_refund", "close_ticket"} -> tickets[cmd[t].ticket].order
    [] cmd[t].kind \in Payment -> ops[cmd[t].op].order

\* the status the command gives its operation
Target(c) ==
  CASE c.kind = "submit" -> "pending_approval"
    [] c.kind = "approve" -> "approved"
    [] c.kind = "reject" -> "rejected"
    [] c.kind = "execute" -> IF c.result = "success" THEN "executed" ELSE "unknown"
    [] c.kind = "reconcile" -> IF c.result = "success" THEN "executed" ELSE "failed"

-----------------------------------------------------------------------------
(* Begin and locks *)

Start(t, c, st) ==
  /\ stage' = [stage EXCEPT ![t] = st]
  /\ cmd' = [cmd EXCEPT ![t] = c]
  /\ UNCHANGED <<data, locks, before, answers>>

BeginCreateTicket(t, k, o, r) ==
  /\ stage[t] = "idle"
  /\ Start(t, [kind |-> "create_ticket", key |-> k, order |-> o, request |-> r], "key")

BeginCreateRefund(t, k, n, a) ==
  /\ stage[t] = "idle"
  /\ Start(t, [kind |-> "create_refund", key |-> k, ticket |-> n, amount |-> a], "order")

\* version and transition are checked here, with nothing held until the write
BeginDecision(t, kind, i) ==
  LET c == [kind |-> kind, op |-> i] IN
  /\ stage[t] = "idle"
  /\ <<ops[i].status, Target(c)>> \in OperationTransitions
  /\ Start(t, c, "writing")

BeginExecute(t, i, result) ==
  /\ stage[t] = "idle"
  /\ Start(t, [kind |-> "execute", op |-> i, result |-> result], "order")

BeginReconcile(t, i, result) ==
  /\ stage[t] = "idle"
  /\ Start(t, [kind |-> "reconcile", op |-> i, result |-> result], "order")

BeginCloseTicket(t, n) ==
  /\ stage[t] = "idle"
  /\ Start(t, [kind |-> "close_ticket", ticket |-> n], "order")

Begin(t) ==
  \/ \E k \in TicketKey, o \in Order, r \in Request : BeginCreateTicket(t, k, o, r)
  \/ \E k \in RefundKey, n \in DOMAIN tickets, a \in Amount : BeginCreateRefund(t, k, n, a)
  \/ t \in Decider /\ \E kind \in Decision, i \in DOMAIN ops : BeginDecision(t, kind, i)
  \/ \E i \in DOMAIN ops, result \in {"success", "timeout"} : BeginExecute(t, i, result)
  \/ \E i \in DOMAIN ops, result \in {"success", "failed"} : BeginReconcile(t, i, result)
  \/ \E n \in DOMAIN tickets : BeginCloseTicket(t, n)

\* create_refund takes the key's lock inside the order's
AfterOrderLock(kind) == IF kind = "create_refund" THEN "key" ELSE "locked"

\* mutant: create_ticket takes the order's lock inside the key's
OrderLockInsideKey(kind) == IF kind = "create_ticket" THEN "order" ELSE "locked"

AfterKeyLock(kind) == "locked"

\* mutant: the lock object is made anew for each caller
LockOrderAlways(t) ==
  /\ stage[t] = "order"
  /\ orderLock' = [orderLock EXCEPT ![OrderOf(t)] = t]
  /\ stage' = [stage EXCEPT ![t] = AfterOrderLock(cmd[t].kind)]
  /\ UNCHANGED <<data, keyLock, cmd, before, answers>>

LockOrder(t) ==
  /\ stage[t] = "order"
  /\ orderLock[OrderOf(t)] = Free
  /\ orderLock' = [orderLock EXCEPT ![OrderOf(t)] = t]
  /\ stage' = [stage EXCEPT ![t] = AfterOrderLock(cmd[t].kind)]
  /\ UNCHANGED <<data, keyLock, cmd, before, answers>>

\* mutant: check-then-act without the key's lock
LockKeyAlways(t) ==
  /\ stage[t] = "key"
  /\ keyLock' = [keyLock EXCEPT ![cmd[t].key] = t]
  /\ stage' = [stage EXCEPT ![t] = AfterKeyLock(cmd[t].kind)]
  /\ UNCHANGED <<data, orderLock, cmd, before, answers>>

LockKey(t) ==
  /\ stage[t] = "key"
  /\ keyLock[cmd[t].key] = Free
  /\ keyLock' = [keyLock EXCEPT ![cmd[t].key] = t]
  /\ stage' = [stage EXCEPT ![t] = AfterKeyLock(cmd[t].kind)]
  /\ UNCHANGED <<data, orderLock, cmd, before, answers>>

\* the command returns or raises: its with-blocks release the locks
Finish(t) ==
  /\ stage' = [stage EXCEPT ![t] = "idle"]
  /\ cmd' = [cmd EXCEPT ![t] = NoCommand]
  /\ before' = [before EXCEPT ![t] = "none"]
  /\ orderLock' = [o \in Order |-> IF orderLock[o] = t THEN Free ELSE orderLock[o]]
  /\ keyLock' = [k \in Key |-> IF keyLock[k] = t THEN Free ELSE keyLock[k]]

-----------------------------------------------------------------------------
(* Check: the rules, under the locks *)

KeyUnused(t) == RecordOf(cmd[t].key) = {}

TicketAllowed(t) == KeyUnused(t) /\ <<cmd[t].order, cmd[t].request>> \in Covered

RefundAllowed(t) ==
  /\ tickets[cmd[t].ticket].status # "closed"
  /\ KeyUnused(t)
  /\ ~ HasUnknown(OrderOf(t))
  /\ WithinCapacity(OrderOf(t), cmd[t].amount)

\* mutant: anything that is not over may be executed
ExecuteUndecided(t) ==
  LET op == ops[cmd[t].op] IN
  /\ op.status \notin TerminalStatus
  /\ cmd[t].result = "success" => WithinCapacity(op.order, op.amount)

ExecuteAllowed(t) ==
  LET op == ops[cmd[t].op] IN
  /\ op.status = "approved"
  /\ cmd[t].result = "success" => WithinCapacity(op.order, op.amount)

ReconcileAllowed(t) ==
  LET op == ops[cmd[t].op] IN
  /\ op.status = "unknown"
  /\ cmd[t].result = "success" => WithinCapacity(op.order, op.amount)

HasStatus(n, status) == \E i \in OpsOfTicket(n) : ops[i].status = status

\* mutant: closing a closed ticket again
CloseAgain(t) ==
  LET n == cmd[t].ticket IN
  /\ \A i \in OpsOfTicket(n) : ops[i].status \in TerminalStatus
  /\ HasStatus(n, "executed") \/ HasStatus(n, "rejected")

\* without an executed or rejected operation the ticket is still open, and
\* check_ticket_transition refuses open -> closed
CloseAllowed(t) ==
  LET n == cmd[t].ticket IN
  /\ tickets[n].status # "closed"
  /\ \A i \in OpsOfTicket(n) : ops[i].status \in TerminalStatus
  /\ HasStatus(n, "executed") \/ HasStatus(n, "rejected")

Allowed(t) ==
  CASE cmd[t].kind = "create_ticket" -> TicketAllowed(t)
    [] cmd[t].kind = "create_refund" -> RefundAllowed(t)
    [] cmd[t].kind = "execute" -> ExecuteAllowed(t)
    [] cmd[t].kind = "reconcile" -> ReconcileAllowed(t)
    [] cmd[t].kind = "close_ticket" -> CloseAllowed(t)

\* mutant: the first result is returned whatever the payload
ReplayedByKey(t) ==
  IF cmd[t].kind \in Creation THEN RecordOf(cmd[t].key) ELSE {}

\* the first result of a key, if it was used with the same payload; a draft is not
\* even looked up once its ticket is closed
Replayed(t) ==
  IF \/ cmd[t].kind = "create_ticket"
     \/ cmd[t].kind = "create_refund" /\ tickets[cmd[t].ticket].status # "closed"
  THEN {r \in RecordOf(cmd[t].key) : r.hash = HashOf(cmd[t])}
  ELSE {}

Check(t) ==
  /\ stage[t] = "locked"
  /\ Allowed(t)
  /\ stage' = [stage EXCEPT ![t] = "writing"]
  /\ UNCHANGED <<data, locks, cmd, before, answers>>

AnswerTo(t, id) == [key |-> cmd[t].key, hash |-> HashOf(cmd[t]), id |-> id]

Replay(t) ==
  /\ stage[t] = "locked"
  /\ \E r \in Replayed(t) : answers' = answers \cup {AnswerTo(t, r.id)}
  /\ Finish(t)
  /\ UNCHANGED data

\* a rule fails, or the key was used with another payload: an exception
Refuse(t) ==
  /\ stage[t] = "locked"
  /\ ~ Allowed(t)
  /\ Replayed(t) = {}
  /\ Finish(t)
  /\ UNCHANGED <<data, answers>>

\* another thread inserts an operation while this one iterates over _operations:
\* RuntimeError (the dictionary changed size), and the placeholder is released
IterationFails(t) ==
  /\ \/ stage[t] = "locked" /\ cmd[t].kind = "create_refund" /\ KeyUnused(t)
     \/ stage[t] \in {"locked", "writing"} /\ cmd[t].kind = "close_ticket"
  /\ tickets[cmd[t].ticket].status # "closed"
  /\ \E u \in Thread \ {t} : stage[u] = "writing" /\ cmd[u].kind = "create_refund"
  /\ Finish(t)
  /\ UNCHANGED <<data, answers>>

-----------------------------------------------------------------------------
(* Write *)

Commit(t, kind) ==
  /\ stage[t] = "writing"
  /\ cmd[t].kind = kind
  /\ Finish(t)

RecordKey(t, id) ==
  /\ records' = records \cup {AnswerTo(t, id)}
  /\ answers' = answers \cup {AnswerTo(t, id)}

CreateTicket(t) ==
  /\ Commit(t, "create_ticket")
  /\ tickets' = Append(tickets, [order |-> cmd[t].order, request |-> cmd[t].request,
                                 status |-> "open", resolution |-> "none"])
  /\ ticketAudit' = Append(ticketAudit, <<[before |-> "none", after |-> "open"]>>)
  /\ RecordKey(t, Len(tickets) + 1)
  /\ UNCHANGED <<ops, refunded, opAudit>>

CreateRefund(t) ==
  /\ Commit(t, "create_refund")
  /\ ops' = Append(ops, [ticket |-> cmd[t].ticket, order |-> OrderOf(t),
                         amount |-> cmd[t].amount, key |-> cmd[t].key,
                         status |-> "draft", version |-> 1])
  /\ opAudit' = Append(opAudit, <<[before |-> "none", after |-> "draft"]>>)
  /\ RecordKey(t, Len(ops) + 1)
  /\ UNCHANGED <<tickets, refunded, ticketAudit>>

\* mutant: a timeout is booked like a success
BookedAlways(c, op) == IF c.kind \in Payment THEN op.amount ELSE 0

\* what the command adds to the order's refunds
Booked(c, op) == IF Target(c) = "executed" THEN op.amount ELSE 0

\* mutant: "before" is read after the assignment
BeforeWrite(t) == Target(cmd[t])

\* _apply_op_transition reads the status again just before it sets it
StatusBefore(t) == ops[cmd[t].op].status

\* the assignments of _apply_op_transition
WriteStatus(t) ==
  /\ stage[t] = "writing"
  /\ cmd[t].kind \in Decision \cup Payment
  /\ ops' = [ops EXCEPT ![cmd[t].op].status = Target(cmd[t])]
  /\ before' = [before EXCEPT ![t] = StatusBefore(t)]
  /\ stage' = [stage EXCEPT ![t] = "booking"]
  /\ UNCHANGED <<tickets, refunded, records, ticketAudit, opAudit, locks, cmd, answers>>

\* a decision counts the version up
Counted(c) == IF c.kind \in {"approve", "reject"} THEN 1 ELSE 0

\* the assignments that follow its return
Book(t) ==
  LET i == cmd[t].op IN
  /\ stage[t] = "booking"
  /\ ops' = [ops EXCEPT ![i].version = @ + Counted(cmd[t])]
  /\ refunded' = [refunded EXCEPT ![ops[i].order] = @ + Booked(cmd[t], ops[i])]
  /\ stage' = [stage EXCEPT ![t] = "recording"]
  /\ UNCHANGED <<tickets, records, ticketAudit, opAudit, locks, cmd, before, answers>>

\* _record, and the end of the command
RecordStatus(t) ==
  /\ stage[t] = "recording"
  /\ opAudit' = [opAudit EXCEPT ![cmd[t].op] =
                   Append(@, [before |-> before[t], after |-> Target(cmd[t])])]
  /\ Finish(t)
  /\ UNCHANGED <<tickets, ops, refunded, records, ticketAudit, answers>>

Qualification(n) == IF HasStatus(n, "executed") THEN "resolved" ELSE "rejected"

ResolutionOf(n) == IF HasStatus(n, "executed") THEN "refunded" ELSE "rejected"

Closed(n) == [tickets[n] EXCEPT !.status = "closed", !.resolution = ResolutionOf(n)]

\* the ticket is qualified and then closed, with an event for each
CloseTicket(t) ==
  LET n == cmd[t].ticket IN
  /\ Commit(t, "close_ticket")
  /\ HasStatus(n, "executed") \/ HasStatus(n, "rejected")
  /\ tickets' = [tickets EXCEPT ![n] = Closed(n)]
  /\ ticketAudit' = [ticketAudit EXCEPT ![n] = @ \o
       <<[before |-> tickets[n].status, after |-> Qualification(n)],
         [before |-> Qualification(n), after |-> "closed"]>>]
  /\ UNCHANGED <<ops, refunded, records, opAudit, answers>>

\* by now an operation that was rejected may be approved again: then the ticket is
\* still open, and check_ticket_transition refuses to close it
CloseFails(t) ==
  /\ Commit(t, "close_ticket")
  /\ ~ HasStatus(cmd[t].ticket, "executed") /\ ~ HasStatus(cmd[t].ticket, "rejected")
  /\ UNCHANGED <<data, answers>>

-----------------------------------------------------------------------------
Init ==
  /\ tickets = <<>> /\ ops = <<>> /\ records = {}
  /\ refunded = [o \in Order |-> 0]
  /\ ticketAudit = <<>> /\ opAudit = <<>>
  /\ orderLock = [o \in Order |-> Free]
  /\ keyLock = [k \in Key |-> Free]
  /\ stage = [t \in Thread |-> "idle"]
  /\ cmd = [t \in Thread |-> NoCommand]
  /\ before = [t \in Thread |-> "none"]
  /\ answers = {}

Next ==
  \E t \in Thread :
    \/ Begin(t) \/ LockOrder(t) \/ LockKey(t) \/ Check(t) \/ Replay(t) \/ Refuse(t)
    \/ IterationFails(t) \/ CreateTicket(t) \/ CreateRefund(t) \/ WriteStatus(t)
    \/ Book(t) \/ RecordStatus(t) \/ CloseTicket(t) \/ CloseFails(t)

Spec == Init /\ [][Next]_vars

-----------------------------------------------------------------------------
(* Properties *)

\* Every variable holds objects, commands and events of the right shape.
TypeOK ==
  /\ tickets \in Seq(Ticket)
  /\ ops \in Seq(Operation)
  /\ refunded \in [Order -> Nat]
  /\ records \subseteq Record
  /\ ticketAudit \in Seq(Seq(AuditEvent)) /\ Len(ticketAudit) = Len(tickets)
  /\ opAudit \in Seq(Seq(AuditEvent)) /\ Len(opAudit) = Len(ops)
  /\ orderLock \in [Order -> Thread \cup {Free}]
  /\ keyLock \in [Key -> Thread \cup {Free}]
  /\ stage \in [Thread -> Stage]
  /\ cmd \in [Thread -> Command \cup {NoCommand}]
  /\ before \in [Thread -> OperationStatus \cup {"none"}]
  /\ answers \subseteq Record

\* Commands name objects that exist (none is ever deleted), and wait only for the
\* locks their kind takes.
Referential ==
  \A t \in Thread :
    /\ stage[t] # "idle" => cmd[t] \in Command
    /\ stage[t] = "order" => cmd[t].kind \in OrderLocking
    /\ stage[t] = "key" => cmd[t].kind \in Creation
    /\ stage[t] \in {"booking", "recording"} => cmd[t].kind \in Decision \cup Payment
    /\ cmd[t].kind \in Decision \cup Payment => cmd[t].op \in DOMAIN ops
    /\ cmd[t].kind \in {"create_refund", "close_ticket"} => cmd[t].ticket \in DOMAIN tickets

\* Capacity (_ensure_refund_capacity under the order's lock): however executions
\* and decisions interleave, what is booked as refunded for an order never exceeds
\* what was paid for it.
RefundCapacity == \A o \in Order : refunded[o] <= Paid[o]

\* A thread past the order's lock holds it until it ends.
HoldsOrderLock ==
  \A t \in Thread :
    cmd[t].kind \in OrderLocking /\ stage[t] \notin {"idle", "order"}
      => orderLock[OrderOf(t)] = t

\* a payment that passed the check and is not booked yet
ToBook(t) ==
  stage[t] \in {"writing", "booking"} /\ cmd[t].kind \in Payment /\ cmd[t].result = "success"

\* Such a payment still fits.
PaymentFits ==
  \A t \in Thread : ToBook(t) => WithinCapacity(OrderOf(t), ops[cmd[t].op].amount)

\* The inductive form of RefundCapacity: the check holds until the booking, although
\* nothing is checked again, because the lock is held from one to the other.
CapacityInv == Referential /\ RefundCapacity /\ HoldsOrderLock /\ PaymentFits

\* Idempotent creation (lock_for, get_or_reserve, commit): a key is recorded once,
\* for either command, and every object is the one its key's record points to.
OneObjectPerKey ==
  /\ \A r1, r2 \in records : r1.key = r2.key => r1 = r2
  /\ \A i \in DOMAIN ops :
       [key |-> ops[i].key, hash |-> <<ops[i].ticket, ops[i].amount>>, id |-> i] \in records
  /\ \A n \in DOMAIN tickets : \E r \in records :
       r.id = n /\ r.hash = <<tickets[n].order, tickets[n].request>>

\* A client that repeats a create command gets the object it got before; with
\* another payload, or another command, the key yields nothing.
RetriesAgree == \A a1, a2 \in answers : a1.key = a2.key => a1 = a2

\* Tickets (close_ticket under the order's lock): a closed ticket was qualified and
\* closed once, along TICKET_TRANSITIONS, whatever happens to its operations.
TicketHistoryLegal ==
  \A n \in DOMAIN tickets :
    /\ tickets[n].status \in {"open", "closed"}
    /\ Len(ticketAudit[n]) = (IF tickets[n].status = "closed" THEN 3 ELSE 1)
    /\ \A e \in 2 .. Len(ticketAudit[n]) :
         /\ <<ticketAudit[n][e].before, ticketAudit[n][e].after>> \in TicketTransitions
         /\ ticketAudit[n][e].before = ticketAudit[n][e - 1].after

\* Lock order (_order_lock: "first the order's lock, then the key's"): threads never
\* wait for each other in a circle, some thread that runs a command can go on.
SomeThreadCanMove ==
  (\E t \in Thread : stage[t] # "idle") =>
    \E t \in Thread :
      \/ stage[t] \in {"locked", "writing", "booking", "recording"}
      \/ stage[t] = "order" /\ orderLock[OrderOf(t)] = Free
      \/ stage[t] = "key" /\ keyLock[cmd[t].key] = Free

\* the operations that are executed and that no thread is still about to book
Executed(o) == {i \in DOMAIN ops : ops[i].order = o /\ ops[i].status = "executed"}
Unbooked == {cmd[t].op : t \in {u \in Thread : stage[u] = "booking" /\ cmd[u].kind \in Payment}}

\* "_refunded_by_order: order -> sum of the executed refunds": while one thread decides,
\* the sum is that of the executed operations but the one a payment has just given the
\* status and is about to book.  So the sum is exact whenever the order's lock is free.
\* With two deciders, a decision that was checked earlier overwrites "executed".
BooksMatchOperations ==
  \A o \in Order :
    /\ refunded[o] =
         Cardinality(UNION {{i} \X (1 .. ops[i].amount) : i \in Executed(o) \ Unbooked})
    /\ orderLock[o] = Free => Executed(o) \cap Unbooked = {}

\* "Approval and rejection use a version CAS; of concurrent decisions only one is
\* valid": an operation has at most one decision.  approve and reject check the
\* version and the status and write later, without a lock: this does not hold.
OneDecision ==
  \A i \in DOMAIN ops :
    Cardinality({e \in DOMAIN opAudit[i] : opAudit[i][e].after \in {"approved", "rejected"}}) <= 1

\* Audit of operations (while one thread decides): events may be appended out of
\* order, since no lock covers status and event, but those of an operation nobody is
\* recording make up one path of OPERATION_TRANSITIONS from its draft to its status.
AuditIsPath ==
  \A i \in DOMAIN ops :
    LET events == {opAudit[i][e] : e \in DOMAIN opAudit[i]}
        done == \A t \in Thread : ~ (stage[t] \in {"booking", "recording"} /\ cmd[t].op = i)
    IN
    /\ Cardinality(events) = Len(opAudit[i])
    /\ \A e \in events : e.before = "none" \/ <<e.before, e.after>> \in OperationTransitions
    /\ done => {e.after : e \in events} \ {e.before : e \in events} = {ops[i].status}
=============================================================================
