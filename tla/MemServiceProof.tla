--------------------------- MODULE MemServiceProof ---------------------------
(***************************************************************************)
(* Theorems about MemService for any threads, deciders, orders, amounts    *)
(* and keys, and those that hold while one thread decides: the books, the  *)
(* audit of operations and the refinement of RefundLedger.                 *)
(***************************************************************************)
EXTENDS MemLedger, SequenceTheorems, FiniteSetTheorems, TLAPS

Structure == TypeOK /\ Referential

-----------------------------------------------------------------------------
(* Lemmas about the operators of the model *)

\* The fields of a command are determined by its kind.
LEMMA CommandFields ==
  ASSUME NEW c \in Command
  PROVE  /\ c.kind = "create_ticket" =>
              c.key \in TicketKey /\ c.order \in Order /\ c.request \in Request
         /\ c.kind = "create_refund" =>
              c.key \in RefundKey /\ c.ticket \in Nat /\ c.amount \in Amount
         /\ c.kind \in Decision \cup Payment => c.op \in Nat
         /\ c.kind = "execute" => c.result \in {"success", "timeout"}
         /\ c.kind = "reconcile" => c.result \in {"success", "failed"}
         /\ c.kind = "close_ticket" => c.ticket \in Nat
         /\ c.kind \in Creation \cup Decision \cup Payment \cup {"close_ticket"}
  BY DEF Command, Creation, Decision, Payment

\* A list with an object appended keeps its objects.
LEMMA AppendObject ==
  ASSUME NEW S, NEW q \in Seq(S), NEW e \in S
  PROVE  /\ Append(q, e) \in Seq(S)
         /\ Len(Append(q, e)) = Len(q) + 1
         /\ DOMAIN q \subseteq DOMAIN Append(q, e)
         /\ \A i \in DOMAIN q : Append(q, e)[i] = q[i]
  OBVIOUS

LEMMA AppendKeeps ==
  ASSUME NEW S, NEW q \in Seq(S), NEW e
  PROVE  \A i \in DOMAIN q : Append(q, e)[i] = q[i]
  OBVIOUS

\* The status a command gives its operation is one, and only a payment that
\* succeeded gives "executed".
LEMMA TargetType ==
  ASSUME NEW c \in Command, c.kind \in Decision \cup Payment
  PROVE  /\ Target(c) \in OperationStatus
         /\ Target(c) = "executed" => c.kind \in Payment /\ c.result = "success"
  <1> USE DEF Decision, Payment
  <1>1. CASE c.kind = "submit"
    BY <1>1 DEF Target, OperationStatus
  <1>2. CASE c.kind = "approve"
    BY <1>2 DEF Target, OperationStatus
  <1>3. CASE c.kind = "reject"
    BY <1>3 DEF Target, OperationStatus
  <1>4. CASE c.kind = "execute"
    BY <1>4, CommandFields DEF Target, OperationStatus
  <1>5. CASE c.kind = "reconcile"
    BY <1>5, CommandFields DEF Target, OperationStatus
  <1> QED
    BY <1>1, <1>2, <1>3, <1>4, <1>5

\* Another status, or another version, leaves alone what the operation is about.
LEMMA OperationKept ==
  ASSUME NEW op \in Operation, NEW s \in OperationStatus, NEW v \in Nat
  PROVE  /\ [op EXCEPT !.status = s] \in Operation /\ [op EXCEPT !.version = v] \in Operation
         /\ [op EXCEPT !.status = s].status = s /\ [op EXCEPT !.version = v].status = op.status
         /\ \A new \in {[op EXCEPT !.status = s], [op EXCEPT !.version = v]} :
              /\ new.order = op.order /\ new.amount = op.amount
              /\ new.ticket = op.ticket /\ new.key = op.key
  BY DEF Operation

\* Closing a ticket keeps its order.
LEMMA ClosedType ==
  ASSUME NEW n, tickets[n] \in Ticket
  PROVE  Closed(n) \in Ticket /\ Closed(n).order = tickets[n].order
  <1>1. ResolutionOf(n) \in {"none", "refunded", "rejected"}
    BY DEF ResolutionOf
  <1> HIDE DEF ResolutionOf
  <1> QED
    BY <1>1 DEF Closed, Ticket, TicketStatus

\* The order a command locks is an order.
LEMMA OrderOfType ==
  ASSUME Structure, NEW t \in Thread, stage[t] # "idle", cmd[t].kind \in OrderLocking
  PROVE  OrderOf(t) \in Order
  <1> USE DEF Structure, TypeOK, Referential, OrderLocking, Payment
  <1>1. CASE cmd[t].kind \in {"create_refund", "close_ticket"}
    <2>1. tickets[cmd[t].ticket] \in Ticket
      BY <1>1
    <2> QED
      BY <1>1, <2>1 DEF OrderOf, Ticket
  <1>2. CASE cmd[t].kind \in Payment
    <2>1. ops[cmd[t].op] \in Operation
      BY <1>2
    <2> QED
      BY <1>2, <2>1 DEF OrderOf, Operation
  <1> QED
    BY <1>1, <1>2

\* What a create command answers, and records, is an idempotency record.
LEMMA AnswerType ==
  ASSUME NEW t \in Thread, cmd[t] \in Command, cmd[t].kind \in Creation, NEW id \in Nat
  PROVE  AnswerTo(t, id) \in Record
  <1>1. CASE cmd[t].kind = "create_ticket"
    BY <1>1, CommandFields DEF AnswerTo, HashOf, Record, Key
  <1>2. CASE cmd[t].kind = "create_refund"
    BY <1>2, CommandFields DEF AnswerTo, HashOf, Record, Key
  <1> QED
    BY <1>1, <1>2 DEF Creation

\* The end of a command frees its thread and its locks and touches no other.
LEMMA FinishFacts ==
  ASSUME TypeOK, NEW t \in Thread, Finish(t)
  PROVE  /\ orderLock' \in [Order -> Thread \cup {Free}]
         /\ keyLock' \in [Key -> Thread \cup {Free}]
         /\ stage' \in [Thread -> Stage]
         /\ cmd' \in [Thread -> Command \cup {NoCommand}]
         /\ before' \in [Thread -> OperationStatus \cup {"none"}]
         /\ stage'[t] = "idle" /\ cmd'[t] = NoCommand
         /\ \A u \in Thread \ {t} : stage'[u] = stage[u] /\ cmd'[u] = cmd[u]
         /\ \A o \in Order : orderLock[o] # t => orderLock'[o] = orderLock[o]
  BY DEF TypeOK, Finish, Stage

-----------------------------------------------------------------------------
(* Types and references *)

LEMMA StartStructure ==
  ASSUME Structure, NEW t \in Thread, NEW c \in Command, NEW st \in {"order", "key", "writing"},
         Start(t, c, st),
         st = "order" => c.kind \in OrderLocking,
         st = "key" => c.kind \in Creation,
         c.kind \in Decision \cup Payment => c.op \in DOMAIN ops,
         c.kind \in {"create_refund", "close_ticket"} => c.ticket \in DOMAIN tickets
  PROVE  Structure'
  <1>1. TypeOK'
    BY DEF Structure, TypeOK, Start, Stage, data, locks
  <1>2. Referential'
    BY DEF Structure, TypeOK, Referential, Start, data, locks
  <1> QED
    BY <1>1, <1>2 DEF Structure

LEMMA BeginStructure ==
  ASSUME Structure, NEW t \in Thread, Begin(t)
  PROVE  Structure'
  <1> USE DEF OrderLocking, Creation, Decision, Payment, Command, Stage
  <1>0. DOMAIN ops \subseteq Nat /\ DOMAIN tickets \subseteq Nat
    BY DEF Structure, TypeOK
  <1>1. ASSUME NEW k \in TicketKey, NEW o \in Order, NEW r \in Request,
               BeginCreateTicket(t, k, o, r)
        PROVE  Structure'
    BY <1>1, StartStructure DEF BeginCreateTicket
  <1>2. ASSUME NEW k \in RefundKey, NEW n \in DOMAIN tickets, NEW a \in Amount,
               BeginCreateRefund(t, k, n, a)
        PROVE  Structure'
    BY <1>0, <1>2, StartStructure DEF BeginCreateRefund
  <1>3. ASSUME NEW kind \in Decision, NEW i \in DOMAIN ops, BeginDecision(t, kind, i)
        PROVE  Structure'
    BY <1>0, <1>3, StartStructure DEF BeginDecision
  <1>4. ASSUME NEW i \in DOMAIN ops, NEW result \in {"success", "timeout"},
               BeginExecute(t, i, result)
        PROVE  Structure'
    BY <1>0, <1>4, StartStructure DEF BeginExecute
  <1>5. ASSUME NEW i \in DOMAIN ops, NEW result \in {"success", "failed"},
               BeginReconcile(t, i, result)
        PROVE  Structure'
    BY <1>0, <1>5, StartStructure DEF BeginReconcile
  <1>6. ASSUME NEW n \in DOMAIN tickets, BeginCloseTicket(t, n) PROVE Structure'
    BY <1>0, <1>6, StartStructure DEF BeginCloseTicket
  <1> QED
    BY <1>1, <1>2, <1>3, <1>4, <1>5, <1>6 DEF Begin

LEMMA LockStructure ==
  ASSUME Structure, NEW t \in Thread, LockOrder(t) \/ LockKey(t) \/ Check(t)
  PROVE  Structure'
  <1> USE DEF Structure, TypeOK, Referential, Stage, data
  <1>1. CASE LockOrder(t)
    <2>1. OrderOf(t) \in Order
      BY <1>1, OrderOfType DEF LockOrder
    <2>2. /\ AfterOrderLock(cmd[t].kind) \in {"key", "locked"}
          /\ AfterOrderLock(cmd[t].kind) = "key" => cmd[t].kind \in Creation
      BY DEF AfterOrderLock, Creation
    <2> HIDE DEF AfterOrderLock
    <2>3. TypeOK'
      BY <1>1, <2>1, <2>2 DEF LockOrder
    <2>4. Referential'
      BY <1>1, <2>1, <2>2 DEF LockOrder
    <2> QED
      BY <2>3, <2>4
  <1>2. CASE LockKey(t)
    <2>1. TypeOK'
      BY <1>2 DEF LockKey, AfterKeyLock
    <2>2. Referential'
      BY <1>2 DEF LockKey, AfterKeyLock
    <2> QED
      BY <2>1, <2>2
  <1>3. CASE Check(t)
    <2>1. TypeOK'
      BY <1>3 DEF Check, locks
    <2>2. Referential'
      BY <1>3 DEF Check, locks
    <2> QED
      BY <2>1, <2>2
  <1> QED
    BY <1>1, <1>2, <1>3

\* Nothing is ever deleted, so the references of the other threads survive.
LEMMA ReferentialAfterFinish ==
  ASSUME Structure, NEW t \in Thread, Finish(t),
         DOMAIN ops \subseteq DOMAIN ops', DOMAIN tickets \subseteq DOMAIN tickets'
  PROVE  Referential'
  BY FinishFacts DEF Structure, Referential, NoCommand, OrderLocking, Creation,
                     Decision, Payment

\* A command that ends without writing.
LEMMA NoWriteStructure ==
  ASSUME Structure, NEW t \in Thread,
         Replay(t) \/ Refuse(t) \/ IterationFails(t) \/ CloseFails(t)
  PROVE  Structure'
  <1>1. Finish(t) /\ UNCHANGED data
    BY DEF Replay, Refuse, IterationFails, CloseFails, Commit
  <1>2. answers' \subseteq Record
    <2>1. CASE Replay(t)
      <3>1. PICK r \in Replayed(t) : answers' = answers \cup {AnswerTo(t, r.id)}
        BY <2>1 DEF Replay
      <3>2. r \in Record /\ cmd[t].kind \in Creation
        BY DEF Replayed, RecordOf, Creation, Structure, TypeOK
      <3>3. r.id \in Nat
        BY <3>2 DEF Record
      <3>4. cmd[t] \in Command
        BY <2>1 DEF Replay, Structure, Referential
      <3> QED
        BY <3>1, <3>2, <3>3, <3>4, AnswerType DEF Structure, TypeOK
    <2>2. CASE ~ Replay(t)
      BY <2>2 DEF Refuse, IterationFails, CloseFails, Structure, TypeOK
    <2> QED
      BY <2>1, <2>2
  <1>3. TypeOK'
    BY <1>1, <1>2, FinishFacts DEF Structure, TypeOK, data
  <1>4. Referential'
    BY <1>1, ReferentialAfterFinish DEF data
  <1> QED
    BY <1>3, <1>4 DEF Structure

LEMMA CreateTicketStructure ==
  ASSUME Structure, NEW t \in Thread, CreateTicket(t)
  PROVE  Structure'
  <1> DEFINE ticket == [order |-> cmd[t].order, request |-> cmd[t].request,
                        status |-> "open", resolution |-> "none"]
             event == <<[before |-> "none", after |-> "open"]>>
             record == AnswerTo(t, Len(tickets) + 1)
  <1>0. /\ cmd[t] \in Command /\ cmd[t].kind = "create_ticket" /\ Finish(t)
        /\ tickets' = Append(tickets, ticket)
        /\ ticketAudit' = Append(ticketAudit, event)
        /\ records' = records \cup {record} /\ answers' = answers \cup {record}
        /\ UNCHANGED <<ops, refunded, opAudit>>
    BY DEF CreateTicket, Commit, RecordKey, Structure, Referential
  <1>1. cmd[t].order \in Order /\ cmd[t].request \in Request
    BY <1>0, CommandFields
  <1>2. ticket \in Ticket
    BY <1>1 DEF Ticket, TicketStatus
  <1>3. event \in Seq(AuditEvent)
    BY DEF AuditEvent, OperationStatus, TicketStatus
  <1>4. Len(tickets) + 1 \in Nat
    BY DEF Structure, TypeOK
  <1>5. record \in Record
    BY <1>0, <1>4, AnswerType DEF Creation
  <1> HIDE DEF ticket, event, record
  <1>6. TypeOK'
    BY <1>0, <1>2, <1>3, <1>5, FinishFacts, AppendObject DEF Structure, TypeOK
  <1>7. DOMAIN tickets \subseteq DOMAIN tickets'
    BY <1>0, <1>2, AppendObject DEF Structure, TypeOK
  <1>8. Referential'
    BY <1>0, <1>7, ReferentialAfterFinish
  <1> QED
    BY <1>6, <1>8 DEF Structure

LEMMA CreateRefundStructure ==
  ASSUME Structure, NEW t \in Thread, CreateRefund(t)
  PROVE  Structure'
  <1> DEFINE draft == [ticket |-> cmd[t].ticket, order |-> OrderOf(t),
                       amount |-> cmd[t].amount, key |-> cmd[t].key,
                       status |-> "draft", version |-> 1]
             event == <<[before |-> "none", after |-> "draft"]>>
             record == AnswerTo(t, Len(ops) + 1)
  <1>0. /\ cmd[t] \in Command /\ cmd[t].kind = "create_refund" /\ Finish(t)
        /\ stage[t] = "writing"
        /\ ops' = Append(ops, draft)
        /\ opAudit' = Append(opAudit, event)
        /\ records' = records \cup {record} /\ answers' = answers \cup {record}
        /\ UNCHANGED <<tickets, refunded, ticketAudit>>
    BY DEF CreateRefund, Commit, RecordKey, Structure, Referential
  <1>1. /\ cmd[t].key \in RefundKey /\ cmd[t].ticket \in Nat /\ cmd[t].amount \in Amount
        /\ OrderOf(t) \in Order
    BY <1>0, CommandFields, OrderOfType DEF OrderLocking
  <1>2. draft \in Operation
    BY <1>1 DEF Operation, OperationStatus
  <1>3. event \in Seq(AuditEvent)
    BY DEF AuditEvent, OperationStatus, TicketStatus
  <1>4. Len(ops) + 1 \in Nat
    BY DEF Structure, TypeOK
  <1>5. record \in Record
    BY <1>0, <1>4, AnswerType DEF Creation
  <1> HIDE DEF draft, event, record
  <1>6. TypeOK'
    BY <1>0, <1>2, <1>3, <1>5, FinishFacts, AppendObject DEF Structure, TypeOK
  <1>7. DOMAIN ops \subseteq DOMAIN ops'
    BY <1>0, <1>2, AppendObject DEF Structure, TypeOK
  <1>8. Referential'
    BY <1>0, <1>7, ReferentialAfterFinish
  <1> QED
    BY <1>6, <1>8 DEF Structure

\* What is booked is a number of cents: the operation's amount for a payment that
\* succeeded, nothing otherwise.
LEMMA BookedType ==
  ASSUME Structure, NEW t \in Thread, stage[t] # "idle", cmd[t].kind \in Decision \cup Payment
  PROVE  LET op == ops[cmd[t].op] IN
         /\ cmd[t].op \in DOMAIN ops /\ cmd[t] \in Command
         /\ op \in Operation /\ op.order \in Order /\ op.amount \in Nat
         /\ Booked(cmd[t], op) \in {0, op.amount}
         /\ Booked(cmd[t], op) # 0 => cmd[t].kind \in Payment /\ cmd[t].result = "success"
  <1>1. cmd[t].op \in DOMAIN ops /\ cmd[t] \in Command
    BY DEF Structure, Referential
  <1>2. ops[cmd[t].op] \in Operation
    BY <1>1 DEF Structure, TypeOK
  <1>3. ops[cmd[t].op].order \in Order /\ ops[cmd[t].op].amount \in Amount
    BY <1>2 DEF Operation
  <1> QED
    BY <1>1, <1>2, <1>3, TargetType, RefundAmountAssumption DEF Booked

\* What an assignment to a row of the operations leaves alone.
KeptRows(i) ==
  /\ ops' \in Seq(Operation) /\ DOMAIN ops' = DOMAIN ops /\ Len(ops') = Len(ops)
  /\ \A j \in DOMAIN ops :
       /\ ops'[j].order = ops[j].order /\ ops'[j].amount = ops[j].amount
       /\ ops'[j].ticket = ops[j].ticket /\ ops'[j].key = ops[j].key
       /\ j # i => ops'[j] = ops[j]

LEMMA RowAssigned ==
  ASSUME Structure, NEW i \in DOMAIN ops, NEW new \in Operation, ops' = [ops EXCEPT ![i] = new],
         new.order = ops[i].order, new.amount = ops[i].amount,
         new.ticket = ops[i].ticket, new.key = ops[i].key
  PROVE  KeptRows(i) /\ ops'[i] = new
  <1>1. ops \in Seq(Operation)
    BY DEF Structure, TypeOK
  <1>2. ops' \in Seq(Operation) /\ DOMAIN ops' = DOMAIN ops /\ Len(ops') = Len(ops)
    BY <1>1, ExceptSeq, LenProperties
  <1> QED
    BY <1>1, <1>2 DEF KeptRows

\* A status change touches one operation, and of it only the status.
LEMMA WriteStatusFacts ==
  ASSUME Structure, NEW t \in Thread, WriteStatus(t)
  PROVE  /\ cmd[t].op \in DOMAIN ops /\ KeptRows(cmd[t].op)
         /\ ops'[cmd[t].op].status = Target(cmd[t])
  <1>0. PICK i, to : i = cmd[t].op /\ to = Target(cmd[t])
    OBVIOUS
  <1> DEFINE new == [ops[i] EXCEPT !.status = to]
  <1>1. /\ i \in DOMAIN ops /\ ops[i] \in Operation /\ to \in OperationStatus
    BY <1>0, BookedType, TargetType DEF WriteStatus
  <1>2. /\ new \in Operation /\ new.order = ops[i].order /\ new.amount = ops[i].amount
        /\ new.ticket = ops[i].ticket /\ new.key = ops[i].key /\ new.status = to
    BY <1>1, OperationKept, 0 \in Nat
  <1>3. ops' = [ops EXCEPT ![i] = new]
    BY <1>0 DEF WriteStatus
  <1> HIDE DEF new
  <1>4. KeptRows(i) /\ ops'[i] = new
    BY <1>1, <1>2, <1>3, RowAssigned
  <1> QED
    BY <1>0, <1>1, <1>2, <1>4

\* What follows it touches the version of the operation and the sum of its order.
LEMMA BookFacts ==
  ASSUME Structure, NEW t \in Thread, Book(t)
  PROVE  /\ cmd[t].op \in DOMAIN ops /\ KeptRows(cmd[t].op)
         /\ \A j \in DOMAIN ops : ops'[j].status = ops[j].status
         /\ refunded' \in [Order -> Nat]
         /\ refunded' = [refunded EXCEPT ![ops[cmd[t].op].order] =
                            refunded[ops[cmd[t].op].order] + Booked(cmd[t], ops[cmd[t].op])]
  <1>0. PICK i, c, cents : i = cmd[t].op /\ c = cmd[t] /\ cents = Booked(cmd[t], ops[i])
    OBVIOUS
  <1> DEFINE v == ops[i].version + Counted(c)
             new == [ops[i] EXCEPT !.version = v]
  <1>1. /\ i \in DOMAIN ops /\ ops[i] \in Operation /\ ops[i].order \in Order
        /\ cents \in Nat /\ c.kind \in Decision \cup Payment
    BY <1>0, BookedType DEF Book, Structure, Referential
  <1>2. v \in Nat
    BY <1>1 DEF Operation, Counted
  <1>3. ops' = [ops EXCEPT ![i] = new]
    BY <1>0 DEF Book
  <1> HIDE DEF v
  <1>4. /\ new \in Operation /\ new.order = ops[i].order /\ new.amount = ops[i].amount
        /\ new.ticket = ops[i].ticket /\ new.key = ops[i].key /\ new.status = ops[i].status
    BY <1>1, <1>2, OperationKept DEF Operation
  <1> HIDE DEF new
  <1>5. KeptRows(i) /\ ops'[i] = new
    BY <1>1, <1>3, <1>4, RowAssigned
  <1>6. \A j \in DOMAIN ops : ops'[j].status = ops[j].status
    BY <1>4, <1>5 DEF KeptRows
  <1>7. /\ refunded \in [Order -> Nat]
        /\ refunded' = [refunded EXCEPT ![ops[i].order] = refunded[ops[i].order] + cents]
    BY <1>0 DEF Book, Structure, TypeOK
  <1>8. refunded' \in [Order -> Nat]
    BY <1>1, <1>7
  <1> QED
    BY <1>0, <1>1, <1>5, <1>6, <1>7, <1>8

LEMMA WriteStatusStructure ==
  ASSUME Structure, NEW t \in Thread, WriteStatus(t)
  PROVE  Structure'
  <1>1. /\ cmd[t] \in Command /\ cmd[t].op \in DOMAIN ops
        /\ cmd[t].kind \in Decision \cup Payment
        /\ StatusBefore(t) \in OperationStatus
    <2>1. cmd[t].op \in DOMAIN ops /\ ops[cmd[t].op] \in Operation /\ cmd[t] \in Command
      BY BookedType DEF WriteStatus
    <2> QED
      BY <2>1 DEF WriteStatus, StatusBefore, Operation
  <1>2. /\ before' = [before EXCEPT ![t] = StatusBefore(t)]
        /\ stage' = [stage EXCEPT ![t] = "booking"]
        /\ UNCHANGED <<tickets, refunded, records, ticketAudit, opAudit, locks, cmd, answers>>
    BY DEF WriteStatus
  <1>3. TypeOK'
    BY <1>1, <1>2, WriteStatusFacts DEF Structure, TypeOK, Stage, locks, KeptRows
  <1>4. Referential'
    BY <1>1, <1>2, WriteStatusFacts DEF Structure, TypeOK, Referential, Stage, KeptRows
  <1> QED
    BY <1>3, <1>4 DEF Structure

LEMMA BookStructure ==
  ASSUME Structure, NEW t \in Thread, Book(t)
  PROVE  Structure'
  <1>1. /\ stage[t] = "booking" /\ stage' = [stage EXCEPT ![t] = "recording"]
        /\ UNCHANGED <<tickets, records, ticketAudit, opAudit, locks, cmd, before, answers>>
    BY DEF Book
  <1>2. TypeOK'
    BY <1>1, BookFacts DEF Structure, TypeOK, Stage, locks, KeptRows
  <1>3. Referential'
    BY <1>1, BookFacts DEF Structure, TypeOK, Referential, Stage, KeptRows
  <1> QED
    BY <1>2, <1>3 DEF Structure

LEMMA RecordStatusStructure ==
  ASSUME Structure, NEW t \in Thread, RecordStatus(t)
  PROVE  Structure'
  <1> DEFINE i == cmd[t].op
             event == [before |-> before[t], after |-> Target(cmd[t])]
  <1>1. /\ cmd[t] \in Command /\ cmd[t].kind \in Decision \cup Payment /\ i \in DOMAIN ops
    BY DEF RecordStatus, Structure, Referential
  <1>2. event \in AuditEvent
    BY <1>1, TargetType DEF Structure, TypeOK, AuditEvent
  <1>3. /\ opAudit \in Seq(Seq(AuditEvent)) /\ i \in DOMAIN opAudit
        /\ opAudit[i] \in Seq(AuditEvent)
    BY <1>1 DEF Structure, TypeOK
  <1>4. /\ opAudit' = [opAudit EXCEPT ![i] = Append(opAudit[i], event)] /\ Finish(t)
        /\ UNCHANGED <<tickets, ops, refunded, records, ticketAudit, answers>>
    BY DEF RecordStatus
  <1> HIDE DEF event
  <1>5. Append(opAudit[i], event) \in Seq(AuditEvent)
    BY <1>2, <1>3
  <1>6. opAudit' \in Seq(Seq(AuditEvent)) /\ Len(opAudit') = Len(opAudit)
    BY <1>3, <1>4, <1>5, ExceptSeq, LenProperties
  <1>7. TypeOK'
    BY <1>4, <1>6, FinishFacts DEF Structure, TypeOK
  <1>8. Referential'
    BY <1>4, ReferentialAfterFinish
  <1> QED
    BY <1>7, <1>8 DEF Structure

LEMMA CloseTicketFacts ==
  ASSUME Structure, NEW t \in Thread, CloseTicket(t)
  PROVE  /\ Finish(t)
         /\ tickets' \in Seq(Ticket) /\ DOMAIN tickets' = DOMAIN tickets
         /\ Len(tickets') = Len(tickets)
         /\ \A n \in DOMAIN tickets : tickets'[n].order = tickets[n].order
         /\ ticketAudit' \in Seq(Seq(AuditEvent)) /\ Len(ticketAudit') = Len(ticketAudit)
         /\ UNCHANGED <<ops, refunded, records, opAudit, answers>>
  <1> DEFINE n == cmd[t].ticket
             ticket == Closed(n)
             events == <<[before |-> tickets[n].status, after |-> Qualification(n)],
                         [before |-> Qualification(n), after |-> "closed"]>>
  <1>1. /\ cmd[t].kind = "close_ticket" /\ Finish(t)
        /\ tickets' = [tickets EXCEPT ![n] = ticket]
        /\ ticketAudit' = [ticketAudit EXCEPT ![n] = ticketAudit[n] \o events]
        /\ UNCHANGED <<ops, refunded, records, opAudit, answers>>
    BY DEF CloseTicket, Commit
  <1>2. /\ tickets \in Seq(Ticket) /\ n \in DOMAIN tickets /\ tickets[n] \in Ticket
        /\ ticketAudit \in Seq(Seq(AuditEvent)) /\ n \in DOMAIN ticketAudit
        /\ ticketAudit[n] \in Seq(AuditEvent)
    BY <1>1 DEF Structure, TypeOK, Referential
  <1>3. ticket \in Ticket /\ ticket.order = tickets[n].order
    BY <1>2, ClosedType
  <1>4. events \in Seq(AuditEvent)
    <2>1. Qualification(n) \in {"resolved", "rejected"}
      BY DEF Qualification
    <2>2. /\ [before |-> tickets[n].status, after |-> Qualification(n)] \in AuditEvent
          /\ [before |-> Qualification(n), after |-> "closed"] \in AuditEvent
      BY <1>2, <2>1 DEF Ticket, AuditEvent, TicketStatus
    <2> QED
      BY <2>2
  <1> HIDE DEF ticket, events
  <1>5. ticketAudit[n] \o events \in Seq(AuditEvent)
    BY <1>2, <1>4, ConcatProperties
  <1>6. tickets' \in Seq(Ticket) /\ DOMAIN tickets' = DOMAIN tickets /\ Len(tickets') = Len(tickets)
    BY <1>1, <1>2, <1>3, ExceptSeq, LenProperties
  <1>7. ticketAudit' \in Seq(Seq(AuditEvent)) /\ Len(ticketAudit') = Len(ticketAudit)
    BY <1>1, <1>2, <1>5, ExceptSeq, LenProperties
  <1> QED
    BY <1>1, <1>2, <1>3, <1>6, <1>7

LEMMA CloseTicketStructure ==
  ASSUME Structure, NEW t \in Thread, CloseTicket(t)
  PROVE  Structure'
  <1>1. TypeOK'
    BY CloseTicketFacts, FinishFacts DEF Structure, TypeOK
  <1>2. Referential'
    BY CloseTicketFacts, ReferentialAfterFinish
  <1> QED
    BY <1>1, <1>2 DEF Structure

LEMMA InitStructure == Init => Structure
  BY DEF Init, Structure, TypeOK, Referential, NoCommand, Stage, OrderLocking,
         Creation, Decision, Payment

LEMMA StructureInvariant == Spec => []Structure
  <1>1. Init => Structure
    BY InitStructure
  <1>2. Structure /\ [Next]_vars => Structure'
    <2> SUFFICES ASSUME Structure, [Next]_vars PROVE Structure'
      OBVIOUS
    <2>1. CASE UNCHANGED vars
      BY <2>1 DEF vars, data, locks, Structure, TypeOK, Referential
    <2>2. ASSUME NEW t \in Thread, Begin(t) PROVE Structure'
      BY <2>2, BeginStructure
    <2>3. ASSUME NEW t \in Thread, LockOrder(t) \/ LockKey(t) \/ Check(t) PROVE Structure'
      BY <2>3, LockStructure
    <2>4. ASSUME NEW t \in Thread, Replay(t) \/ Refuse(t) \/ IterationFails(t) \/ CloseFails(t)
          PROVE  Structure'
      BY <2>4, NoWriteStructure
    <2>5. ASSUME NEW t \in Thread, CreateTicket(t) PROVE Structure'
      BY <2>5, CreateTicketStructure
    <2>6. ASSUME NEW t \in Thread, CreateRefund(t) PROVE Structure'
      BY <2>6, CreateRefundStructure
    <2>7. ASSUME NEW t \in Thread, WriteStatus(t) PROVE Structure'
      BY <2>7, WriteStatusStructure
    <2>8. ASSUME NEW t \in Thread, RecordStatus(t) PROVE Structure'
      BY <2>8, RecordStatusStructure
    <2>9. ASSUME NEW t \in Thread, CloseTicket(t) PROVE Structure'
      BY <2>9, CloseTicketStructure
    <2>10. ASSUME NEW t \in Thread, Book(t) PROVE Structure'
      BY <2>10, BookStructure
    <2> QED
      BY <2>1, <2>2, <2>3, <2>4, <2>5, <2>6, <2>7, <2>8, <2>9, <2>10 DEF Next
  <1> QED
    BY <1>1, <1>2, PTL DEF Spec

\* Every variable of the in-memory service keeps its type.
THEOREM TypeCorrect == Spec => []TypeOK
  <1>1. Structure => TypeOK
    BY DEF Structure
  <1> QED
    BY <1>1, StructureInvariant, PTL

-----------------------------------------------------------------------------
(* Capacity *)

Capacity == RefundCapacity /\ HoldsOrderLock /\ PaymentFits

\* What a step of thread t leaves alone: the other threads and what they hold, and
\* what existing objects are about.
LeavesOthers(t) ==
  /\ \A u \in Thread \ {t} : stage'[u] = stage[u] /\ cmd'[u] = cmd[u]
  /\ \A o \in Order : orderLock[o] \notin {t, Free} => orderLock'[o] = orderLock[o]
  /\ \A n \in DOMAIN tickets : tickets'[n].order = tickets[n].order
  /\ \A i \in DOMAIN ops : ops'[i].order = ops[i].order /\ ops'[i].amount = ops[i].amount

\* A thread whose command goes on keeps its order.
LEMMA OrderOfStable ==
  ASSUME Structure, NEW t \in Thread, LeavesOthers(t), NEW u \in Thread,
         stage[u] # "idle", cmd'[u] = cmd[u], cmd[u].kind \in OrderLocking
  PROVE  OrderOf(u)' = OrderOf(u)
  <1>1. CASE cmd[u].kind \in {"create_refund", "close_ticket"}
    <2>1. tickets'[cmd[u].ticket].order = tickets[cmd[u].ticket].order
      BY <1>1 DEF Structure, Referential, LeavesOthers
    <2> QED
      BY <1>1, <2>1 DEF OrderOf, Payment
  <1>2. CASE cmd[u].kind \in Payment
    <2>1. ops'[cmd[u].op].order = ops[cmd[u].op].order
      BY <1>2 DEF Structure, Referential, LeavesOthers
    <2> QED
      BY <1>2, <2>1 DEF OrderOf, Payment
  <1> QED
    BY <1>1, <1>2 DEF OrderLocking

\* Who held the lock of its order goes on holding it.
LEMMA LocksStay ==
  ASSUME Structure, HoldsOrderLock, NEW t \in Thread, LeavesOthers(t),
         NEW u \in Thread \ {t}, cmd[u].kind \in OrderLocking, stage[u] \notin {"idle", "order"}
  PROVE  orderLock'[OrderOf(u)'] = u
  <1>1. orderLock[OrderOf(u)] = u
    BY DEF HoldsOrderLock
  <1>2. OrderOf(u)' = OrderOf(u)
    BY OrderOfStable DEF LeavesOthers
  <1>3. OrderOf(u) \in Order
    BY OrderOfType
  <1> QED
    BY <1>1, <1>2, <1>3, ThreadAssumption DEF LeavesOthers

\* The invariant survives a step that books nothing, if it holds for the thread that
\* takes the step.
LEMMA BooksNothing ==
  ASSUME Structure, Capacity, NEW t \in Thread, LeavesOthers(t), refunded' = refunded,
         cmd'[t].kind \in OrderLocking /\ stage'[t] \notin {"idle", "order"}
           => orderLock'[OrderOf(t)'] = t,
         ToBook(t)' => WithinCapacity(OrderOf(t), ops[cmd[t].op].amount)'
  PROVE  Capacity'
  <1>1. RefundCapacity'
    BY DEF Capacity, RefundCapacity
  <1>2. HoldsOrderLock'
    BY LocksStay DEF Capacity, HoldsOrderLock, LeavesOthers
  <1>3. PaymentFits'
    <2> SUFFICES ASSUME NEW u \in Thread, u # t, ToBook(u)'
                 PROVE  WithinCapacity(OrderOf(u), ops[cmd[u].op].amount)'
      BY DEF PaymentFits
    <2>1. stage[u] = stage'[u] /\ cmd'[u] = cmd[u] /\ cmd[u].op \in DOMAIN ops
          /\ stage[u] # "idle" /\ cmd[u].kind \in Payment
      BY DEF LeavesOthers, Structure, Referential, ToBook
    <2>2. WithinCapacity(OrderOf(u), ops[cmd[u].op].amount)
      BY <2>1 DEF Capacity, PaymentFits, ToBook
    <2>3. OrderOf(u)' = OrderOf(u) /\ ops'[cmd[u].op].amount = ops[cmd[u].op].amount
      BY <2>1, OrderOfStable DEF OrderLocking, LeavesOthers
    <2> QED
      BY <2>1, <2>2, <2>3 DEF WithinCapacity
  <1> QED
    BY <1>1, <1>2, <1>3 DEF Capacity

LEMMA StartCapacity ==
  ASSUME Structure, Capacity, NEW t \in Thread, NEW c \in Command, NEW st, Start(t, c, st),
         st = "order" \/ c.kind \notin OrderLocking
  PROVE  Capacity'
  <1>1. LeavesOthers(t) /\ refunded' = refunded /\ stage'[t] = st /\ cmd'[t] = c
    BY DEF Start, LeavesOthers, Structure, TypeOK, data, locks
  <1> QED
    BY <1>1, BooksNothing DEF OrderLocking, ToBook

LEMMA BeginCapacity ==
  ASSUME Structure, Capacity, NEW t \in Thread, Begin(t)
  PROVE  Capacity'
  <1> USE DEF OrderLocking, Decision, Payment, Command
  <1>0. DOMAIN ops \subseteq Nat /\ DOMAIN tickets \subseteq Nat
    BY DEF Structure, TypeOK
  <1>1. ASSUME NEW k \in TicketKey, NEW o \in Order, NEW r \in Request,
               BeginCreateTicket(t, k, o, r)
        PROVE  Capacity'
    BY <1>1, StartCapacity DEF BeginCreateTicket
  <1>2. ASSUME NEW k \in RefundKey, NEW n \in DOMAIN tickets, NEW a \in Amount,
               BeginCreateRefund(t, k, n, a)
        PROVE  Capacity'
    BY <1>0, <1>2, StartCapacity DEF BeginCreateRefund
  <1>3. ASSUME NEW kind \in Decision, NEW i \in DOMAIN ops, BeginDecision(t, kind, i)
        PROVE  Capacity'
    BY <1>0, <1>3, StartCapacity DEF BeginDecision
  <1>4. ASSUME NEW i \in DOMAIN ops, NEW result \in {"success", "timeout"},
               BeginExecute(t, i, result)
        PROVE  Capacity'
    BY <1>0, <1>4, StartCapacity DEF BeginExecute
  <1>5. ASSUME NEW i \in DOMAIN ops, NEW result \in {"success", "failed"},
               BeginReconcile(t, i, result)
        PROVE  Capacity'
    BY <1>0, <1>5, StartCapacity DEF BeginReconcile
  <1>6. ASSUME NEW n \in DOMAIN tickets, BeginCloseTicket(t, n) PROVE Capacity'
    BY <1>0, <1>6, StartCapacity DEF BeginCloseTicket
  <1> QED
    BY <1>1, <1>2, <1>3, <1>4, <1>5, <1>6 DEF Begin

\* Taking the order's lock is what HoldsOrderLock is about; the key's lock does not
\* matter.
LEMMA LockCapacity ==
  ASSUME Structure, Capacity, NEW t \in Thread, LockOrder(t) \/ LockKey(t)
  PROVE  Capacity'
  <1>1. CASE LockOrder(t)
    <2>1. OrderOf(t) \in Order
      BY <1>1, OrderOfType DEF LockOrder, Structure, Referential
    <2>2. LeavesOthers(t) /\ refunded' = refunded
      BY <1>1 DEF LockOrder, LeavesOthers, Structure, TypeOK, data
    <2>3. stage'[t] \in {"key", "locked"}
      BY <1>1 DEF LockOrder, AfterOrderLock, Structure, TypeOK
    <2>4. orderLock'[OrderOf(t)'] = t
      <3>1. OrderOf(t)' = OrderOf(t)
        BY <1>1 DEF LockOrder, OrderOf, data
      <3> QED
        BY <1>1, <2>1, <3>1 DEF LockOrder, Structure, TypeOK
    <2> QED
      BY <2>2, <2>3, <2>4, BooksNothing DEF ToBook
  <1>2. CASE LockKey(t)
    <2>1. LeavesOthers(t) /\ refunded' = refunded /\ OrderOf(t)' = OrderOf(t)
      BY <1>2 DEF LockKey, LeavesOthers, OrderOf, Structure, TypeOK, data
    <2>2. stage'[t] = "locked" /\ stage[t] = "key" /\ cmd'[t] = cmd[t]
          /\ orderLock' = orderLock
      BY <1>2 DEF LockKey, AfterKeyLock, Structure, TypeOK
    <2> QED
      BY <2>1, <2>2, BooksNothing DEF Capacity, HoldsOrderLock, ToBook
  <1> QED
    BY <1>1, <1>2

\* The check establishes that the payment fits.
LEMMA CheckCapacity ==
  ASSUME Structure, Capacity, NEW t \in Thread, Check(t)
  PROVE  Capacity'
  <1>1. LeavesOthers(t) /\ refunded' = refunded
    BY DEF Check, LeavesOthers, Structure, TypeOK, data, locks
  <1>2. OrderOf(t)' = OrderOf(t) /\ cmd' = cmd /\ ops' = ops /\ orderLock' = orderLock
    BY DEF Check, OrderOf, data, locks
  <1>3. orderLock'[OrderOf(t)'] = t \/ cmd[t].kind \notin OrderLocking
    BY <1>2 DEF Check, Capacity, HoldsOrderLock
  <1>4. ASSUME cmd[t].kind \in Payment, cmd[t].result = "success"
        PROVE  WithinCapacity(OrderOf(t), ops[cmd[t].op].amount)
    <2>1. OrderOf(t) = ops[cmd[t].op].order
      BY <1>4 DEF OrderOf, Payment
    <2>2. CASE cmd[t].kind = "execute"
      BY <1>4, <2>1, <2>2 DEF Check, Allowed, ExecuteAllowed
    <2>3. CASE cmd[t].kind = "reconcile"
      BY <1>4, <2>1, <2>3 DEF Check, Allowed, ReconcileAllowed
    <2> QED
      BY <1>4, <2>2, <2>3 DEF Payment
  <1>5. cmd'[t].kind \in Payment /\ cmd'[t].result = "success"
          => WithinCapacity(OrderOf(t), ops[cmd[t].op].amount)'
    BY <1>1, <1>2, <1>4 DEF WithinCapacity
  <1> QED
    BY <1>1, <1>2, <1>3, <1>5, BooksNothing DEF ToBook

\* A command that ends has nothing left to book.
LEMMA FinishCapacity ==
  ASSUME Structure, Capacity, NEW t \in Thread, Finish(t), refunded' = refunded,
         \A n \in DOMAIN tickets : tickets'[n].order = tickets[n].order,
         \A i \in DOMAIN ops : ops'[i].order = ops[i].order /\ ops'[i].amount = ops[i].amount
  PROVE  Capacity'
  <1>1. LeavesOthers(t)
    BY FinishFacts DEF Structure, LeavesOthers
  <1>2. stage'[t] = "idle"
    BY FinishFacts DEF Structure
  <1> QED
    BY <1>1, <1>2, BooksNothing DEF ToBook

LEMMA EndCapacity ==
  ASSUME Structure, Capacity, NEW t \in Thread,
         \/ Replay(t) \/ Refuse(t) \/ IterationFails(t) \/ CloseFails(t)
         \/ CreateTicket(t) \/ CreateRefund(t) \/ RecordStatus(t) \/ CloseTicket(t)
  PROVE  Capacity'
  <1>1. CASE Replay(t) \/ Refuse(t) \/ IterationFails(t) \/ CloseFails(t)
    BY <1>1, FinishCapacity DEF Replay, Refuse, IterationFails, CloseFails, Commit, data
  <1>2. CASE CreateTicket(t)
    <2>1. \A n \in DOMAIN tickets : tickets'[n] = tickets[n]
      BY <1>2, AppendKeeps DEF CreateTicket, Structure, TypeOK
    <2> QED
      BY <1>2, <2>1, FinishCapacity DEF CreateTicket, Commit
  <1>3. CASE CreateRefund(t)
    <2>1. \A i \in DOMAIN ops : ops'[i] = ops[i]
      BY <1>3, AppendKeeps DEF CreateRefund, Structure, TypeOK
    <2> QED
      BY <1>3, <2>1, FinishCapacity DEF CreateRefund, Commit
  <1>4. CASE RecordStatus(t)
    BY <1>4, FinishCapacity DEF RecordStatus
  <1>5. CASE CloseTicket(t)
    BY <1>5, CloseTicketFacts, FinishCapacity
  <1> QED
    BY <1>1, <1>2, <1>3, <1>4, <1>5

\* The status is written, the payment still fits.
LEMMA WriteStatusCapacity ==
  ASSUME Structure, Capacity, NEW t \in Thread, WriteStatus(t)
  PROVE  Capacity'
  <1>1. /\ LeavesOthers(t) /\ stage[t] = "writing" /\ stage'[t] = "booking" /\ cmd' = cmd
        /\ orderLock' = orderLock /\ refunded' = refunded
    BY WriteStatusFacts DEF WriteStatus, LeavesOthers, Structure, TypeOK, locks, KeptRows
  <1>2. cmd[t].kind \in OrderLocking => OrderOf(t)' = OrderOf(t)
    BY <1>1, OrderOfStable
  <1>3. cmd[t].kind \in OrderLocking => orderLock'[OrderOf(t)'] = t
    BY <1>1, <1>2 DEF Capacity, HoldsOrderLock
  <1>4. ASSUME cmd[t].kind \in Payment, cmd[t].result = "success"
        PROVE  WithinCapacity(OrderOf(t), ops[cmd[t].op].amount)'
    <2>1. WithinCapacity(OrderOf(t), ops[cmd[t].op].amount)
      BY <1>1, <1>4 DEF Capacity, PaymentFits, ToBook
    <2>2. ops'[cmd[t].op].amount = ops[cmd[t].op].amount
      BY WriteStatusFacts DEF KeptRows
    <2> QED
      BY <1>1, <1>2, <1>4, <2>1, <2>2 DEF WithinCapacity, OrderLocking
  <1> QED
    BY <1>1, <1>3, <1>4, BooksNothing DEF ToBook

\* The booking: the thread that books was checked and holds the lock of its order
\* since; no other thread that was checked for this order is about to book.
LEMMA BookCapacity ==
  ASSUME Structure, Capacity, NEW t \in Thread, Book(t)
  PROVE  Capacity'
  <1> DEFINE op == ops[cmd[t].op]
             cents == Booked(cmd[t], op)
  <1>1. LeavesOthers(t) /\ stage'[t] = "recording" /\ cmd' = cmd /\ orderLock' = orderLock
    BY BookFacts DEF Book, KeptRows, LeavesOthers, Structure, TypeOK, locks
  <1>2. CASE cents = 0
    <2>1. refunded' = refunded
      <3>1. refunded' = [refunded EXCEPT ![op.order] = refunded[op.order] + cents]
        BY BookFacts
      <3>2. op.order \in Order /\ refunded \in [Order -> Nat]
        BY BookedType DEF Book, Structure, TypeOK, Referential
      <3> QED
        BY <1>2, <3>1, <3>2
    <2>2. cmd[t].kind \in OrderLocking => orderLock'[OrderOf(t)'] = t
      <3> SUFFICES ASSUME cmd[t].kind \in OrderLocking PROVE orderLock'[OrderOf(t)'] = t
        OBVIOUS
      <3>1. orderLock[OrderOf(t)] = t
        BY DEF Book, Capacity, HoldsOrderLock
      <3>2. OrderOf(t)' = OrderOf(t)
        BY <1>1, OrderOfStable DEF Book
      <3> QED
        BY <1>1, <3>1, <3>2
    <2> QED
      BY <1>1, <2>1, <2>2, BooksNothing DEF ToBook
  <1>3. CASE cents # 0
    <2>1. /\ cents = op.amount /\ op.order \in Order /\ op.amount \in Nat
          /\ cmd[t].kind \in Payment /\ cmd[t].result = "success" /\ stage[t] = "booking"
      BY <1>3, BookedType DEF Book, Structure, Referential
    <2>2. OrderOf(t) = op.order
      BY <2>1 DEF OrderOf, Payment
    <2>3. refunded[op.order] + op.amount <= Paid[op.order] /\ orderLock[op.order] = t
      BY <2>1, <2>2 DEF Capacity, PaymentFits, ToBook, HoldsOrderLock, WithinCapacity, OrderLocking
    <2>4. refunded' = [refunded EXCEPT ![op.order] = refunded[op.order] + op.amount]
      BY <2>1, BookFacts
    <2>5. refunded \in [Order -> Nat]
      BY DEF Structure, TypeOK
    <2>6. RefundCapacity'
      BY <2>1, <2>3, <2>4, <2>5 DEF Capacity, RefundCapacity
    <2>7. HoldsOrderLock'
      <3> SUFFICES ASSUME NEW u \in Thread, cmd[u].kind \in OrderLocking,
                          stage'[u] \notin {"idle", "order"}
                   PROVE  orderLock'[OrderOf(u)'] = u
        BY <1>1 DEF HoldsOrderLock
      <3>1. CASE u = t
        BY <1>1, <2>1, <2>2, <2>3, <3>1, OrderOfStable
      <3>2. CASE u # t
        BY <1>1, <3>2, LocksStay DEF LeavesOthers, Capacity
      <3> QED
        BY <3>1, <3>2
    <2>8. PaymentFits'
      <3> SUFFICES ASSUME NEW u \in Thread, ToBook(u)'
                   PROVE  WithinCapacity(OrderOf(u), ops[cmd[u].op].amount)'
        BY DEF PaymentFits
      <3>1. /\ u # t /\ stage[u] = stage'[u] /\ cmd[u].op \in DOMAIN ops
            /\ stage[u] \in {"writing", "booking"} /\ cmd[u].kind \in Payment /\ ToBook(u)
        BY <1>1 DEF LeavesOthers, Structure, Referential, ToBook
      <3>2. /\ WithinCapacity(OrderOf(u), ops[cmd[u].op].amount)
            /\ orderLock[OrderOf(u)] = u
        BY <3>1 DEF Capacity, PaymentFits, HoldsOrderLock, OrderLocking
      <3>3. OrderOf(u)' = OrderOf(u) /\ ops'[cmd[u].op].amount = ops[cmd[u].op].amount
        BY <1>1, <3>1, OrderOfStable DEF OrderLocking, LeavesOthers
      <3>4. OrderOf(u) # op.order
        BY <2>3, <3>1, <3>2
      <3>5. OrderOf(u) \in Order
        BY <3>1, OrderOfType DEF OrderLocking
      <3>6. refunded'[OrderOf(u)] = refunded[OrderOf(u)]
        BY <2>4, <2>5, <3>4, <3>5
      <3> QED
        BY <1>1, <3>2, <3>3, <3>6 DEF WithinCapacity
    <2> QED
      BY <2>6, <2>7, <2>8 DEF Capacity
  <1> QED
    BY <1>2, <1>3

\* The inductive invariant: from the check under the order's lock to the booking, the
\* lock is held and the payment goes on fitting, whatever stale decisions write.
THEOREM CapacityInvariant == Spec => []CapacityInv
  <1>1. Init => Capacity
    BY OrderAssumption DEF Init, Capacity, RefundCapacity, HoldsOrderLock, PaymentFits, ToBook
  <1>2. Structure /\ Capacity /\ [Next]_vars => Capacity'
    <2> SUFFICES ASSUME Structure, Capacity, [Next]_vars PROVE Capacity'
      OBVIOUS
    <2>1. CASE UNCHANGED vars
      BY <2>1 DEF vars, data, locks, Capacity, RefundCapacity, HoldsOrderLock, PaymentFits,
                  ToBook, OrderOf, WithinCapacity
    <2>2. ASSUME NEW t \in Thread, Begin(t) PROVE Capacity'
      BY <2>2, BeginCapacity
    <2>3. ASSUME NEW t \in Thread, LockOrder(t) \/ LockKey(t) PROVE Capacity'
      BY <2>3, LockCapacity
    <2>4. ASSUME NEW t \in Thread, Check(t) PROVE Capacity'
      BY <2>4, CheckCapacity
    <2>5. ASSUME NEW t \in Thread, WriteStatus(t) \/ Book(t) PROVE Capacity'
      BY <2>5, WriteStatusCapacity, BookCapacity
    <2>6. ASSUME NEW t \in Thread,
                 \/ Replay(t) \/ Refuse(t) \/ IterationFails(t) \/ CloseFails(t)
                 \/ CreateTicket(t) \/ CreateRefund(t) \/ RecordStatus(t) \/ CloseTicket(t)
          PROVE  Capacity'
      BY <2>6, EndCapacity
    <2> QED
      BY <2>1, <2>2, <2>3, <2>4, <2>5, <2>6 DEF Next
  <1>3. Structure /\ Capacity => CapacityInv
    BY DEF Structure, Capacity, CapacityInv
  <1> QED
    BY <1>1, <1>2, <1>3, StructureInvariant, PTL DEF Spec

\* However many threads execute, reconcile and decide at once, with stale decisions
\* overwriting statuses, no order is booked as refunded beyond what was paid for it.
THEOREM CapacityHolds == Spec => []RefundCapacity
  <1>1. CapacityInv => RefundCapacity
    BY DEF CapacityInv
  <1> QED
    BY <1>1, CapacityInvariant, PTL

-----------------------------------------------------------------------------
(* Who holds which lock *)

\* The owner of a lock is past it, runs a command that takes it, and runs it on what
\* the lock is for; and a creation past its key's lock holds it.
LockOwners ==
  /\ \A o \in Order : orderLock[o] # Free =>
       /\ stage[orderLock[o]] \notin {"idle", "order"}
       /\ cmd[orderLock[o]].kind \in OrderLocking
       /\ OrderOf(orderLock[o]) = o
  /\ \A k \in Key : keyLock[k] # Free =>
       /\ stage[keyLock[k]] \in {"locked", "writing"}
       /\ cmd[keyLock[k]].kind \in Creation
       /\ cmd[keyLock[k]].key = k
  /\ \A t \in Thread : cmd[t].kind \in Creation /\ stage[t] \in {"locked", "writing"}
                         => keyLock[cmd[t].key] = t

\* A lock changes hands only from or to the thread that takes the step.
OnlyOwnLocks(t) ==
  /\ \A o \in Order : orderLock'[o] \notin {t, Free} => orderLock'[o] = orderLock[o]
  /\ \A k \in Key : keyLock'[k] \notin {t, Free} => keyLock'[k] = keyLock[k]
  /\ \A k \in Key : keyLock[k] \notin {t, Free} => keyLock'[k] = keyLock[k]

\* Owners stay owners, if the thread that takes the step still is one.
LEMMA OwnersStay ==
  ASSUME Structure, LockOwners, NEW t \in Thread, LeavesOthers(t), OnlyOwnLocks(t), Structure',
         \A o \in Order : orderLock'[o] = t => /\ stage'[t] \notin {"idle", "order"}
                                              /\ cmd'[t].kind \in OrderLocking
                                              /\ OrderOf(t)' = o,
         \A k \in Key : keyLock'[k] = t => /\ stage'[t] \in {"locked", "writing"}
                                          /\ cmd'[t].kind \in Creation
                                          /\ cmd'[t].key = k,
         cmd'[t].kind \in Creation /\ stage'[t] \in {"locked", "writing"}
           => keyLock'[cmd'[t].key] = t
  PROVE  LockOwners'
  <1>1. ASSUME NEW o \in Order, orderLock'[o] # Free
        PROVE  /\ stage'[orderLock'[o]] \notin {"idle", "order"}
               /\ cmd'[orderLock'[o]].kind \in OrderLocking
               /\ OrderOf(orderLock[o])' = o
    <2>1. CASE orderLock'[o] = t
      <3>1. OrderOf(orderLock[o])' = OrderOf(t)'
        BY <2>1 DEF OrderOf
      <3> QED
        BY <1>1, <2>1, <3>1
    <2>2. CASE orderLock'[o] # t
      <3>1. PICK u \in Thread : u = orderLock[o]
        BY <1>1, <2>2 DEF OnlyOwnLocks, Structure, TypeOK
      <3>2. /\ orderLock'[o] = u /\ u # t /\ orderLock[o] # Free
        BY <1>1, <2>2, <3>1 DEF OnlyOwnLocks
      <3>3. /\ stage[u] \notin {"idle", "order"} /\ cmd[u].kind \in OrderLocking
            /\ OrderOf(u) = o
        BY <3>1, <3>2 DEF LockOwners
      <3>4. stage'[u] = stage[u] /\ cmd'[u] = cmd[u]
        BY <3>2 DEF LeavesOthers
      <3>5. OrderOf(u)' = o
        BY <3>3, <3>4, OrderOfStable
      <3>6. OrderOf(orderLock[o])' = OrderOf(u)'
        BY <3>2 DEF OrderOf
      <3> QED
        BY <3>2, <3>3, <3>4, <3>5, <3>6
    <2> QED
      BY <2>1, <2>2
  <1>2. ASSUME NEW k \in Key, keyLock'[k] # Free
        PROVE  /\ stage'[keyLock'[k]] \in {"locked", "writing"}
               /\ cmd'[keyLock'[k]].kind \in Creation
               /\ cmd'[keyLock'[k]].key = k
    <2>1. CASE keyLock'[k] = t
      BY <2>1
    <2>2. CASE keyLock'[k] # t
      <3>1. keyLock'[k] = keyLock[k] /\ keyLock[k] \in Thread \ {t}
        BY <1>2, <2>2 DEF OnlyOwnLocks, Structure, TypeOK
      <3> QED
        BY <1>2, <3>1 DEF LockOwners, LeavesOthers
    <2> QED
      BY <2>1, <2>2
  <1>3. ASSUME NEW u \in Thread, cmd'[u].kind \in Creation, stage'[u] \in {"locked", "writing"}
        PROVE  keyLock'[cmd'[u].key] = u
    <2>1. CASE u # t
      <3>1. /\ cmd'[u] = cmd[u] /\ stage'[u] = stage[u] /\ keyLock[cmd[u].key] = u
        BY <1>3, <2>1 DEF LeavesOthers, LockOwners
      <3>2. cmd[u].key \in Key
        BY <1>3, <3>1, CommandFields DEF Structure, Referential, Creation, Key
      <3> QED
        BY <2>1, <3>1, <3>2, ThreadAssumption DEF OnlyOwnLocks
    <2> QED
      BY <1>3, <2>1
  <1> QED
    BY <1>1, <1>2, <1>3 DEF LockOwners

LEMMA StartOwners ==
  ASSUME Structure, LockOwners, NEW t \in Thread, NEW c \in Command, NEW st, Start(t, c, st),
         stage[t] = "idle", st \in {"order", "key"} \/ c.kind \notin Creation, Structure'
  PROVE  LockOwners'
  <1>1. LeavesOthers(t) /\ OnlyOwnLocks(t) /\ stage'[t] = st /\ cmd'[t] = c
    BY DEF Start, LeavesOthers, OnlyOwnLocks, Structure, TypeOK, data, locks
  <1>2. \A o \in Order : orderLock'[o] # t
    BY ThreadAssumption DEF Start, locks, LockOwners
  <1>3. \A k \in Key : keyLock'[k] # t
    BY ThreadAssumption DEF Start, locks, LockOwners
  <1> QED
    BY <1>1, <1>2, <1>3, OwnersStay

LEMMA BeginOwners ==
  ASSUME Structure, LockOwners, NEW t \in Thread, Begin(t), Structure'
  PROVE  LockOwners'
  <1> USE DEF Creation, Decision, Command
  <1>0. DOMAIN ops \subseteq Nat /\ DOMAIN tickets \subseteq Nat
    BY DEF Structure, TypeOK
  <1>1. ASSUME NEW k \in TicketKey, NEW o \in Order, NEW r \in Request,
               BeginCreateTicket(t, k, o, r)
        PROVE  LockOwners'
    BY <1>1, StartOwners DEF BeginCreateTicket
  <1>2. ASSUME NEW k \in RefundKey, NEW n \in DOMAIN tickets, NEW a \in Amount,
               BeginCreateRefund(t, k, n, a)
        PROVE  LockOwners'
    BY <1>0, <1>2, StartOwners DEF BeginCreateRefund
  <1>3. ASSUME NEW kind \in Decision, NEW i \in DOMAIN ops, BeginDecision(t, kind, i)
        PROVE  LockOwners'
    BY <1>0, <1>3, StartOwners DEF BeginDecision
  <1>4. ASSUME NEW i \in DOMAIN ops, NEW result \in {"success", "timeout"},
               BeginExecute(t, i, result)
        PROVE  LockOwners'
    BY <1>0, <1>4, StartOwners DEF BeginExecute
  <1>5. ASSUME NEW i \in DOMAIN ops, NEW result \in {"success", "failed"},
               BeginReconcile(t, i, result)
        PROVE  LockOwners'
    BY <1>0, <1>5, StartOwners DEF BeginReconcile
  <1>6. ASSUME NEW n \in DOMAIN tickets, BeginCloseTicket(t, n) PROVE LockOwners'
    BY <1>0, <1>6, StartOwners DEF BeginCloseTicket
  <1> QED
    BY <1>1, <1>2, <1>3, <1>4, <1>5, <1>6 DEF Begin

\* Taking a lock: a thread that waits for its order's lock holds nothing, one that
\* waits for its key's lock holds no key.
LEMMA TakeOwners ==
  ASSUME Structure, LockOwners, NEW t \in Thread, LockOrder(t) \/ LockKey(t) \/ Check(t),
         Structure'
  PROVE  LockOwners'
  <1>0. OrderOf(t)' = OrderOf(t) /\ cmd' = cmd
    BY DEF LockOrder, LockKey, Check, OrderOf, data
  <1>1. CASE LockOrder(t)
    <2>1. OrderOf(t) \in Order /\ cmd[t].kind \in OrderLocking /\ stage[t] = "order"
      BY <1>1, OrderOfType DEF LockOrder, Structure, Referential
    <2>2. LeavesOthers(t) /\ OnlyOwnLocks(t)
      BY <1>1, <2>1 DEF LockOrder, LeavesOthers, OnlyOwnLocks, Structure, TypeOK, data
    <2>3. \A o \in Order : orderLock'[o] = t => o = OrderOf(t)
      BY <1>1, <2>1, ThreadAssumption DEF LockOrder, LockOwners, Structure, TypeOK
    <2>4. \A k \in Key : keyLock'[k] # t
      BY <1>1, <2>1, ThreadAssumption DEF LockOrder, LockOwners
    <2>5. /\ stage'[t] \in {"key", "locked"}
          /\ stage'[t] = "locked" => cmd[t].kind \notin Creation
      BY <1>1, <2>1 DEF LockOrder, AfterOrderLock, Structure, TypeOK, Creation, OrderLocking,
                        Payment
    <2> QED
      BY <1>0, <2>1, <2>2, <2>3, <2>4, <2>5, OwnersStay
  <1>2. CASE LockKey(t)
    <2>1. stage[t] = "key" /\ cmd[t].kind \in Creation /\ cmd[t].key \in Key
      BY <1>2, CommandFields DEF LockKey, Structure, Referential, Creation, Key
    <2>2. LeavesOthers(t) /\ OnlyOwnLocks(t)
      BY <1>2, <2>1 DEF LockKey, LeavesOthers, OnlyOwnLocks, Structure, TypeOK, data
    <2>3. stage'[t] = "locked" /\ keyLock'[cmd[t].key] = t /\ orderLock' = orderLock
      BY <1>2, <2>1 DEF LockKey, AfterKeyLock, Structure, TypeOK
    <2>4. \A k \in Key : keyLock'[k] = t => k = cmd[t].key
      BY <1>2, <2>1, ThreadAssumption DEF LockKey, LockOwners, Structure, TypeOK
    <2>5. \A o \in Order : orderLock[o] = t => cmd[t].kind \in OrderLocking /\ OrderOf(t) = o
      BY ThreadAssumption DEF LockOwners
    <2> QED
      BY <1>0, <2>1, <2>2, <2>3, <2>4, <2>5, OwnersStay
  <1>3. CASE Check(t)
    <2>1. LeavesOthers(t) /\ OnlyOwnLocks(t)
      BY <1>3 DEF Check, LeavesOthers, OnlyOwnLocks, Structure, TypeOK, data, locks
    <2>2. /\ stage[t] = "locked" /\ stage'[t] = "writing"
          /\ keyLock' = keyLock /\ orderLock' = orderLock
      BY <1>3 DEF Check, Structure, TypeOK, locks
    <2>3. \A o \in Order : orderLock[o] = t => cmd[t].kind \in OrderLocking /\ OrderOf(t) = o
      BY ThreadAssumption DEF LockOwners
    <2>4. \A k \in Key : keyLock[k] = t => cmd[t].kind \in Creation /\ cmd[t].key = k
      BY ThreadAssumption DEF LockOwners
    <2>5. cmd[t].kind \in Creation => keyLock[cmd[t].key] = t
      BY <2>2 DEF LockOwners
    <2> QED
      BY <1>0, <2>1, <2>2, <2>3, <2>4, <2>5, OwnersStay
  <1> QED
    BY <1>1, <1>2, <1>3

LEMMA WriteStatusOwners ==
  ASSUME Structure, LockOwners, NEW t \in Thread, WriteStatus(t) \/ Book(t), Structure'
  PROVE  LockOwners'
  <1>1. LeavesOthers(t) /\ OnlyOwnLocks(t)
    BY WriteStatusFacts, BookFacts
    DEF WriteStatus, Book, LeavesOthers, OnlyOwnLocks, Structure, TypeOK, locks, KeptRows
  <1>2. /\ stage[t] \in {"writing", "booking"} /\ stage'[t] \in {"booking", "recording"}
        /\ cmd' = cmd /\ keyLock' = keyLock /\ orderLock' = orderLock
        /\ cmd[t].kind \notin Creation
    BY DEF WriteStatus, Book, Structure, TypeOK, Referential, locks, Creation, Decision, Payment
  <1>3. \A o \in Order : orderLock[o] = t => cmd[t].kind \in OrderLocking /\ OrderOf(t) = o
    BY ThreadAssumption DEF LockOwners
  <1>4. cmd[t].kind \in OrderLocking => OrderOf(t)' = OrderOf(t)
    BY <1>1, <1>2, OrderOfStable
  <1>5. \A k \in Key : keyLock[k] # t
    BY <1>2, ThreadAssumption DEF LockOwners
  <1> QED
    BY <1>1, <1>2, <1>3, <1>4, <1>5, OwnersStay

\* The end of a command frees what its thread held.
LEMMA FinishOwners ==
  ASSUME Structure, LockOwners, NEW t \in Thread, Finish(t), Structure',
         \A n \in DOMAIN tickets : tickets'[n].order = tickets[n].order,
         \A i \in DOMAIN ops : ops'[i].order = ops[i].order /\ ops'[i].amount = ops[i].amount
  PROVE  LockOwners'
  <1>1. LeavesOthers(t) /\ stage'[t] = "idle" /\ cmd'[t] = NoCommand
    BY FinishFacts DEF Structure, LeavesOthers
  <1>2. OnlyOwnLocks(t)
    BY DEF Finish, OnlyOwnLocks, Structure, TypeOK
  <1>3. \A o \in Order : orderLock'[o] # t
    BY ThreadAssumption DEF Finish
  <1>4. \A k \in Key : keyLock'[k] # t
    BY ThreadAssumption DEF Finish
  <1> QED
    BY <1>1, <1>2, <1>3, <1>4, OwnersStay

LEMMA EndOwners ==
  ASSUME Structure, LockOwners, NEW t \in Thread, Structure',
         \/ Replay(t) \/ Refuse(t) \/ IterationFails(t) \/ CloseFails(t)
         \/ CreateTicket(t) \/ CreateRefund(t) \/ RecordStatus(t) \/ CloseTicket(t)
  PROVE  LockOwners'
  <1>1. CASE Replay(t) \/ Refuse(t) \/ IterationFails(t) \/ CloseFails(t)
    BY <1>1, FinishOwners DEF Replay, Refuse, IterationFails, CloseFails, Commit, data
  <1>2. CASE CreateTicket(t)
    <2>1. \A n \in DOMAIN tickets : tickets'[n] = tickets[n]
      BY <1>2, AppendKeeps DEF CreateTicket, Structure, TypeOK
    <2> QED
      BY <1>2, <2>1, FinishOwners DEF CreateTicket, Commit
  <1>3. CASE CreateRefund(t)
    <2>1. \A i \in DOMAIN ops : ops'[i] = ops[i]
      BY <1>3, AppendKeeps DEF CreateRefund, Structure, TypeOK
    <2> QED
      BY <1>3, <2>1, FinishOwners DEF CreateRefund, Commit
  <1>4. CASE RecordStatus(t)
    BY <1>4, FinishOwners DEF RecordStatus
  <1>5. CASE CloseTicket(t)
    BY <1>5, CloseTicketFacts, FinishOwners
  <1> QED
    BY <1>1, <1>2, <1>3, <1>4, <1>5

LEMMA LockOwnersInvariant == Spec => [](Structure /\ LockOwners)
  <1>1. Init => LockOwners
    BY DEF Init, LockOwners, NoCommand, Creation
  <1>2. Structure /\ LockOwners /\ [Next]_vars /\ Structure' => LockOwners'
    <2> SUFFICES ASSUME Structure, LockOwners, [Next]_vars, Structure' PROVE LockOwners'
      OBVIOUS
    <2>1. CASE UNCHANGED vars
      BY <2>1 DEF vars, data, locks, LockOwners, OrderOf
    <2>2. ASSUME NEW t \in Thread, Begin(t) PROVE LockOwners'
      BY <2>2, BeginOwners
    <2>3. ASSUME NEW t \in Thread, LockOrder(t) \/ LockKey(t) \/ Check(t) PROVE LockOwners'
      BY <2>3, TakeOwners
    <2>4. ASSUME NEW t \in Thread, WriteStatus(t) \/ Book(t) PROVE LockOwners'
      BY <2>4, WriteStatusOwners
    <2>5. ASSUME NEW t \in Thread,
                 \/ Replay(t) \/ Refuse(t) \/ IterationFails(t) \/ CloseFails(t)
                 \/ CreateTicket(t) \/ CreateRefund(t) \/ RecordStatus(t) \/ CloseTicket(t)
          PROVE  LockOwners'
      BY <2>5, EndOwners
    <2> QED
      BY <2>1, <2>2, <2>3, <2>4, <2>5 DEF Next
  <1> QED
    BY <1>1, <1>2, StructureInvariant, PTL DEF Spec

\* Threads never wait for each other in a circle: the owner of a key's lock waits for
\* nothing, and the owner of an order's lock waits at most for a key's.
THEOREM NoCircularWait == Spec => []SomeThreadCanMove
  <1>1. Structure /\ LockOwners => SomeThreadCanMove
    <2> SUFFICES ASSUME Structure, LockOwners, NEW t \in Thread, stage[t] # "idle"
                 PROVE  \E u \in Thread :
                          \/ stage[u] \in {"locked", "writing", "booking", "recording"}
                          \/ stage[u] = "order" /\ orderLock[OrderOf(u)] = Free
                          \/ stage[u] = "key" /\ keyLock[cmd[u].key] = Free
      BY DEF SomeThreadCanMove
    <2>1. ASSUME NEW u \in Thread, stage[u] = "key", keyLock[cmd[u].key] # Free
          PROVE  \E v \in Thread : stage[v] \in {"locked", "writing"}
      <3>1. cmd[u].key \in Key
        BY <2>1, CommandFields DEF Structure, Referential, Creation, Key
      <3> QED
        BY <2>1, <3>1 DEF Structure, TypeOK, LockOwners
    <2>2. ASSUME stage[t] = "order", orderLock[OrderOf(t)] # Free
          PROVE  \E v \in Thread :
                   stage[v] \in {"key", "locked", "writing", "booking", "recording"}
      <3>1. OrderOf(t) \in Order
        BY <2>2, OrderOfType DEF Structure, Referential
      <3> QED
        BY <2>2, <3>1 DEF Structure, TypeOK, LockOwners, Stage
    <2>3. stage[t] \in Stage
      BY DEF Structure, TypeOK
    <2> QED
      BY <2>1, <2>2, <2>3 DEF Stage
  <1> QED
    BY <1>1, LockOwnersInvariant, PTL

-----------------------------------------------------------------------------
(* Idempotent creation *)

\* The inductive form of OneObjectPerKey: what is answered is recorded, and a key that
\* was found unused under its lock is unused until the object is recorded.
KeysInv ==
  /\ OneObjectPerKey
  /\ answers \subseteq records
  /\ \A t \in Thread : stage[t] = "writing" /\ cmd[t].kind \in Creation => KeyUnused(t)

\* What the objects are about, apart from their status.
SameObjects ==
  /\ DOMAIN ops' = DOMAIN ops /\ DOMAIN tickets' = DOMAIN tickets
  /\ \A i \in DOMAIN ops :
       ops'[i].key = ops[i].key /\ ops'[i].ticket = ops[i].ticket /\ ops'[i].amount = ops[i].amount
  /\ \A n \in DOMAIN tickets :
       tickets'[n].order = tickets[n].order /\ tickets'[n].request = tickets[n].request

\* A step that records nothing.
LEMMA RecordsNothing ==
  ASSUME Structure, KeysInv, NEW t \in Thread, LeavesOthers(t), SameObjects,
         records' = records, answers' \subseteq records,
         stage'[t] = "writing" /\ cmd'[t].kind \in Creation
           => stage[t] = "locked" /\ cmd'[t] = cmd[t] /\ KeyUnused(t)
  PROVE  KeysInv'
  <1>1. OneObjectPerKey'
    BY DEF KeysInv, OneObjectPerKey, SameObjects
  <1>2. ASSUME NEW u \in Thread, stage'[u] = "writing", cmd'[u].kind \in Creation
        PROVE  KeyUnused(u)'
    BY <1>2 DEF KeysInv, LeavesOthers, KeyUnused, RecordOf
  <1> QED
    BY <1>1, <1>2 DEF KeysInv

\* A step that records an object under a key that was unused: another thread that is
\* about to record holds the lock of another key.
LEMMA RecordsOne ==
  ASSUME Structure, KeysInv, LockOwners, NEW t \in Thread, Finish(t), stage[t] = "writing",
         cmd[t].kind \in Creation, NEW id,
         records' = records \cup {AnswerTo(t, id)},
         answers' = answers \cup {AnswerTo(t, id)}
  PROVE  /\ \A r1, r2 \in records' : r1.key = r2.key => r1 = r2
         /\ answers' \subseteq records'
         /\ \A u \in Thread : stage'[u] = "writing" /\ cmd'[u].kind \in Creation
                                => KeyUnused(u)'
  <1>0. AnswerTo(t, id).key = cmd[t].key
    BY DEF AnswerTo
  <1>1. \A r \in records : r.key # cmd[t].key
    BY DEF KeysInv, KeyUnused, RecordOf
  <1>2. \A r1, r2 \in records' : r1.key = r2.key => r1 = r2
    BY <1>0, <1>1 DEF KeysInv, OneObjectPerKey
  <1>3. ASSUME NEW u \in Thread, stage'[u] = "writing", cmd'[u].kind \in Creation
        PROVE  KeyUnused(u)'
    <2>1. u # t /\ stage[u] = "writing" /\ cmd'[u] = cmd[u]
      BY <1>3, FinishFacts DEF Structure
    <2>2. KeyUnused(u) /\ keyLock[cmd[u].key] = u /\ keyLock[cmd[t].key] = t
      BY <1>3, <2>1 DEF KeysInv, LockOwners
    <2>3. cmd[u].key # cmd[t].key
      BY <2>1, <2>2
    <2> QED
      BY <1>0, <2>1, <2>2, <2>3 DEF KeyUnused, RecordOf
  <1> QED
    BY <1>2, <1>3 DEF KeysInv

LEMMA CreateTicketKeys ==
  ASSUME Structure, KeysInv, LockOwners, NEW t \in Thread, CreateTicket(t)
  PROVE  KeysInv'
  <1> DEFINE ticket == [order |-> cmd[t].order, request |-> cmd[t].request,
                        status |-> "open", resolution |-> "none"]
             record == AnswerTo(t, Len(tickets) + 1)
  <1>0. /\ cmd[t].kind = "create_ticket" /\ Finish(t) /\ stage[t] = "writing"
        /\ tickets' = Append(tickets, ticket)
        /\ records' = records \cup {record} /\ answers' = answers \cup {record}
        /\ ops' = ops
    BY DEF CreateTicket, Commit, RecordKey
  <1>1. record.id = Len(tickets) + 1 /\ record.hash = <<ticket.order, ticket.request>>
    BY <1>0 DEF AnswerTo, HashOf
  <1>2. /\ \A r1, r2 \in records' : r1.key = r2.key => r1 = r2
        /\ answers' \subseteq records'
        /\ \A u \in Thread : stage'[u] = "writing" /\ cmd'[u].kind \in Creation
                               => KeyUnused(u)'
    BY <1>0, RecordsOne DEF Creation
  <1>3. ASSUME NEW n \in DOMAIN tickets'
        PROVE  \E r \in records' : r.id = n /\ r.hash = <<tickets'[n].order, tickets'[n].request>>
    <2> HIDE DEF ticket, record
    <2>1. tickets \in Seq(Ticket)
      BY DEF Structure, TypeOK
    <2>2. CASE n = Len(tickets) + 1
      <3>1. tickets'[n] = ticket
        BY <1>0, <2>1, <2>2
      <3> QED
        BY <1>0, <1>1, <2>2, <3>1
    <2>3. CASE n # Len(tickets) + 1
      <3>1. n \in DOMAIN tickets /\ tickets'[n] = tickets[n]
        BY <1>0, <2>1, <2>3
      <3>2. PICK r \in records : r.id = n /\ r.hash = <<tickets[n].order, tickets[n].request>>
        BY <3>1 DEF KeysInv, OneObjectPerKey
      <3>3. r \in records'
        BY <1>0, <3>2
      <3> QED
        BY <3>1, <3>2, <3>3
    <2> QED
      BY <2>2, <2>3
  <1>4. \A i \in DOMAIN ops' :
          [key |-> ops'[i].key, hash |-> <<ops'[i].ticket, ops'[i].amount>>, id |-> i] \in records'
    BY <1>0 DEF KeysInv, OneObjectPerKey
  <1> QED
    BY <1>2, <1>3, <1>4 DEF KeysInv, OneObjectPerKey

LEMMA CreateRefundKeys ==
  ASSUME Structure, KeysInv, LockOwners, NEW t \in Thread, CreateRefund(t)
  PROVE  KeysInv'
  <1> DEFINE draft == [ticket |-> cmd[t].ticket, order |-> OrderOf(t),
                       amount |-> cmd[t].amount, key |-> cmd[t].key,
                       status |-> "draft", version |-> 1]
             record == AnswerTo(t, Len(ops) + 1)
  <1>0. /\ cmd[t].kind = "create_refund" /\ Finish(t) /\ stage[t] = "writing"
        /\ ops' = Append(ops, draft)
        /\ records' = records \cup {record} /\ answers' = answers \cup {record}
        /\ tickets' = tickets
    BY DEF CreateRefund, Commit, RecordKey
  <1>1. record = [key |-> draft.key, hash |-> <<draft.ticket, draft.amount>>, id |-> Len(ops) + 1]
    BY <1>0 DEF AnswerTo, HashOf
  <1>2. /\ \A r1, r2 \in records' : r1.key = r2.key => r1 = r2
        /\ answers' \subseteq records'
        /\ \A u \in Thread : stage'[u] = "writing" /\ cmd'[u].kind \in Creation
                               => KeyUnused(u)'
    BY <1>0, RecordsOne DEF Creation
  <1>3. ASSUME NEW i \in DOMAIN ops'
        PROVE  [key |-> ops'[i].key, hash |-> <<ops'[i].ticket, ops'[i].amount>>, id |-> i]
                  \in records'
    <2> HIDE DEF draft, record
    <2>1. ops \in Seq(Operation)
      BY DEF Structure, TypeOK
    <2>2. CASE i = Len(ops) + 1
      <3>1. ops'[i] = draft
        BY <1>0, <2>1, <2>2
      <3> QED
        BY <1>0, <1>1, <2>2, <3>1
    <2>3. CASE i # Len(ops) + 1
      <3>1. i \in DOMAIN ops /\ ops'[i] = ops[i]
        BY <1>0, <2>1, <2>3
      <3> QED
        BY <1>0, <3>1 DEF KeysInv, OneObjectPerKey
    <2> QED
      BY <2>2, <2>3
  <1>4. \A n \in DOMAIN tickets' : \E r \in records' :
          r.id = n /\ r.hash = <<tickets'[n].order, tickets'[n].request>>
    BY <1>0 DEF KeysInv, OneObjectPerKey
  <1> QED
    BY <1>2, <1>3, <1>4 DEF KeysInv, OneObjectPerKey

\* A replay answers with the record it found: key and hash agree.
LEMMA ReplayKeys ==
  ASSUME Structure, KeysInv, NEW t \in Thread, Replay(t)
  PROVE  answers' \subseteq records
  <1>1. PICK r \in Replayed(t) : answers' = answers \cup {AnswerTo(t, r.id)}
    BY DEF Replay
  <1>2. r \in records /\ r.key = cmd[t].key /\ r.hash = HashOf(cmd[t])
    BY DEF Replayed, RecordOf
  <1>3. r \in Record
    BY <1>2 DEF Structure, TypeOK
  <1>4. AnswerTo(t, r.id) = r
    BY <1>2, <1>3 DEF AnswerTo, Record
  <1> QED
    BY <1>1, <1>2, <1>4 DEF KeysInv

\* Status changes and closing leave alone what the objects are about.
LEMMA StatusKeepsObjects ==
  ASSUME Structure, NEW t \in Thread, WriteStatus(t) \/ Book(t) \/ CloseTicket(t)
  PROVE  SameObjects
  <1>1. CASE WriteStatus(t) \/ Book(t)
    BY <1>1, WriteStatusFacts, BookFacts DEF WriteStatus, Book, KeptRows, SameObjects
  <1>2. CASE CloseTicket(t)
    <2> DEFINE n == cmd[t].ticket
    <2>1. n \in DOMAIN tickets /\ tickets \in Seq(Ticket)
      BY <1>2 DEF CloseTicket, Commit, Structure, TypeOK, Referential
    <2>2. tickets' = [tickets EXCEPT ![n] = Closed(n)] /\ ops' = ops
      BY <1>2 DEF CloseTicket
    <2>3. tickets[n] \in Ticket
      BY <2>1
    <2>4. Closed(n).order = tickets[n].order /\ Closed(n).request = tickets[n].request
      BY <2>3 DEF Closed, Ticket
    <2> HIDE DEF n
    <2> QED
      BY <2>1, <2>2, <2>4 DEF SameObjects
  <1> QED
    BY <1>1, <1>2

LEMMA StepLeavesOthers ==
  ASSUME Structure, NEW t \in Thread,
         \/ Begin(t) \/ LockOrder(t) \/ LockKey(t) \/ Check(t) \/ Replay(t) \/ Refuse(t)
         \/ IterationFails(t) \/ CloseFails(t) \/ RecordStatus(t) \/ WriteStatus(t)
         \/ Book(t) \/ CloseTicket(t)
  PROVE  LeavesOthers(t)
  <1>1. ASSUME NEW c, NEW st, Start(t, c, st) PROVE LeavesOthers(t)
    BY <1>1 DEF Start, LeavesOthers, Structure, TypeOK, data, locks
  <1>2. CASE Begin(t)
    BY <1>1, <1>2 DEF Begin, BeginCreateTicket, BeginCreateRefund, BeginDecision, BeginExecute,
                      BeginReconcile, BeginCloseTicket
  <1>3. CASE LockOrder(t)
    <2>1. OrderOf(t) \in Order
      BY <1>3, OrderOfType DEF LockOrder, Structure, Referential
    <2> QED
      BY <1>3, <2>1 DEF LockOrder, LeavesOthers, Structure, TypeOK, data
  <1>4. CASE LockKey(t)
    BY <1>4 DEF LockKey, LeavesOthers, Structure, TypeOK, data
  <1>5. CASE Check(t)
    BY <1>5 DEF Check, LeavesOthers, Structure, TypeOK, data, locks
  <1>6. CASE Replay(t) \/ Refuse(t) \/ IterationFails(t) \/ CloseFails(t) \/ RecordStatus(t)
    <2>1. Finish(t) /\ UNCHANGED <<tickets, ops>>
      BY <1>6 DEF Replay, Refuse, IterationFails, CloseFails, RecordStatus, Commit, data
    <2> QED
      BY <2>1, FinishFacts DEF LeavesOthers, Structure
  <1>7. CASE WriteStatus(t) \/ Book(t)
    BY <1>7, WriteStatusFacts, BookFacts
    DEF WriteStatus, Book, LeavesOthers, Structure, TypeOK, locks, KeptRows
  <1>8. CASE CloseTicket(t)
    BY <1>8, CloseTicketFacts, FinishFacts DEF LeavesOthers, Structure
  <1> QED
    BY <1>2, <1>3, <1>4, <1>5, <1>6, <1>7, <1>8

LEMMA StartKeys ==
  ASSUME Structure, KeysInv, NEW t \in Thread, NEW c \in Command, NEW st, Start(t, c, st),
         Begin(t), st \in {"order", "key"} \/ c.kind \notin Creation
  PROVE  KeysInv'
  <1>1. /\ records' = records /\ answers' = answers /\ UNCHANGED <<ops, tickets>>
        /\ stage'[t] = st /\ cmd'[t] = c
    BY DEF Start, Structure, TypeOK, data
  <1>2. SameObjects
    BY <1>1 DEF SameObjects
  <1> QED
    BY <1>1, <1>2, StepLeavesOthers, RecordsNothing DEF KeysInv

LEMMA BeginKeys ==
  ASSUME Structure, KeysInv, NEW t \in Thread, Begin(t)
  PROVE  KeysInv'
  <1> USE DEF Creation, Decision, Command
  <1>0. DOMAIN ops \subseteq Nat /\ DOMAIN tickets \subseteq Nat
    BY DEF Structure, TypeOK
  <1>1. ASSUME NEW k \in TicketKey, NEW o \in Order, NEW r \in Request,
               BeginCreateTicket(t, k, o, r)
        PROVE  KeysInv'
    BY <1>1, StartKeys DEF BeginCreateTicket
  <1>2. ASSUME NEW k \in RefundKey, NEW n \in DOMAIN tickets, NEW a \in Amount,
               BeginCreateRefund(t, k, n, a)
        PROVE  KeysInv'
    BY <1>0, <1>2, StartKeys DEF BeginCreateRefund
  <1>3. ASSUME NEW kind \in Decision, NEW i \in DOMAIN ops, BeginDecision(t, kind, i)
        PROVE  KeysInv'
    BY <1>0, <1>3, StartKeys DEF BeginDecision
  <1>4. ASSUME NEW i \in DOMAIN ops, NEW result \in {"success", "timeout"},
               BeginExecute(t, i, result)
        PROVE  KeysInv'
    BY <1>0, <1>4, StartKeys DEF BeginExecute
  <1>5. ASSUME NEW i \in DOMAIN ops, NEW result \in {"success", "failed"},
               BeginReconcile(t, i, result)
        PROVE  KeysInv'
    BY <1>0, <1>5, StartKeys DEF BeginReconcile
  <1>6. ASSUME NEW n \in DOMAIN tickets, BeginCloseTicket(t, n) PROVE KeysInv'
    BY <1>0, <1>6, StartKeys DEF BeginCloseTicket
  <1> QED
    BY <1>1, <1>2, <1>3, <1>4, <1>5, <1>6 DEF Begin

LEMMA OtherKeys ==
  ASSUME Structure, KeysInv, NEW t \in Thread,
         \/ LockOrder(t) \/ LockKey(t) \/ Check(t) \/ Replay(t) \/ Refuse(t)
         \/ IterationFails(t) \/ CloseFails(t) \/ RecordStatus(t) \/ WriteStatus(t)
         \/ Book(t) \/ CloseTicket(t)
  PROVE  KeysInv'
  <1>1. LeavesOthers(t)
    BY StepLeavesOthers
  <1>2. SameObjects
    <2>1. CASE WriteStatus(t) \/ Book(t) \/ CloseTicket(t)
      BY <2>1, StatusKeepsObjects
    <2>2. CASE ~ (WriteStatus(t) \/ Book(t) \/ CloseTicket(t))
      <3>1. UNCHANGED <<ops, tickets>>
        BY <2>2 DEF LockOrder, LockKey, Check, Replay, Refuse, IterationFails, CloseFails,
                    RecordStatus, data
      <3> QED
        BY <3>1 DEF SameObjects
    <2> QED
      BY <2>1, <2>2
  <1>3. records' = records
    BY DEF LockOrder, LockKey, Check, Replay, Refuse, IterationFails, CloseFails,
           RecordStatus, WriteStatus, Book, CloseTicket, data
  <1>4. answers' \subseteq records
    <2>1. CASE Replay(t)
      BY <2>1, ReplayKeys
    <2>2. CASE ~ Replay(t)
      BY <2>2 DEF LockOrder, LockKey, Check, Refuse, IterationFails, CloseFails,
                  RecordStatus, WriteStatus, Book, CloseTicket, KeysInv
    <2> QED
      BY <2>1, <2>2
  <1>5. stage'[t] = "writing" => Check(t)
    <2>1. ASSUME Finish(t) PROVE stage'[t] # "writing"
      BY <2>1, FinishFacts DEF Structure
    <2> QED
      BY <2>1 DEF LockOrder, AfterOrderLock, LockKey, AfterKeyLock, Replay, Refuse,
                  IterationFails, CloseFails, RecordStatus, WriteStatus, Book, CloseTicket, Commit,
                  Structure, TypeOK
  <1>6. Check(t) /\ cmd[t].kind \in Creation => KeyUnused(t)
    BY DEF Check, Allowed, TicketAllowed, RefundAllowed, Creation
  <1> QED
    BY <1>1, <1>2, <1>3, <1>4, <1>5, <1>6, RecordsNothing DEF Check

LEMMA KeysInvariant == Spec => []KeysInv
  <1>1. Init => KeysInv
    BY DEF Init, KeysInv, OneObjectPerKey
  <1>2. Structure /\ LockOwners /\ KeysInv /\ [Next]_vars => KeysInv'
    <2> SUFFICES ASSUME Structure, LockOwners, KeysInv, [Next]_vars PROVE KeysInv'
      OBVIOUS
    <2>1. CASE UNCHANGED vars
      BY <2>1 DEF vars, data, KeysInv, OneObjectPerKey, KeyUnused, RecordOf
    <2>2. ASSUME NEW t \in Thread, Begin(t) PROVE KeysInv'
      BY <2>2, BeginKeys
    <2>3. ASSUME NEW t \in Thread, CreateTicket(t) PROVE KeysInv'
      BY <2>3, CreateTicketKeys
    <2>4. ASSUME NEW t \in Thread, CreateRefund(t) PROVE KeysInv'
      BY <2>4, CreateRefundKeys
    <2>5. ASSUME NEW t \in Thread,
                 \/ LockOrder(t) \/ LockKey(t) \/ Check(t) \/ Replay(t) \/ Refuse(t)
                 \/ IterationFails(t) \/ CloseFails(t) \/ RecordStatus(t) \/ WriteStatus(t)
                 \/ Book(t) \/ CloseTicket(t)
          PROVE  KeysInv'
      BY <2>5, OtherKeys
    <2> QED
      BY <2>1, <2>2, <2>3, <2>4, <2>5 DEF Next
  <1> QED
    BY <1>1, <1>2, LockOwnersInvariant, PTL DEF Spec

\* However create commands with one key interleave, the key is recorded once, for
\* either command, and every object is the one its record points to.
THEOREM KeysCreateOnce == Spec => []OneObjectPerKey
  <1>1. KeysInv => OneObjectPerKey
    BY DEF KeysInv
  <1> QED
    BY <1>1, KeysInvariant, PTL

\* A client that repeats a create command gets the object it got before.
THEOREM RetriesGetTheSameObject == Spec => []RetriesAgree
  <1>1. KeysInv => RetriesAgree
    BY DEF KeysInv, OneObjectPerKey, RetriesAgree
  <1> QED
    BY <1>1, KeysInvariant, PTL

-----------------------------------------------------------------------------
(* The history of tickets *)

\* The inductive form of TicketHistoryLegal: a ticket starts open, and one that is
\* about to be closed is still open, for the order's lock is held since the check.
HistoryInv ==
  /\ TicketHistoryLegal
  /\ \A n \in DOMAIN tickets : ticketAudit[n][1].after = "open"
  /\ \A t \in Thread : stage[t] = "writing" /\ cmd[t].kind = "close_ticket"
                         => tickets[cmd[t].ticket].status # "closed"

\* What HistoryInv says of one ticket and its events.
LegalHistory(ticket, events) ==
  /\ ticket.status \in {"open", "closed"}
  /\ Len(events) = (IF ticket.status = "closed" THEN 3 ELSE 1)
  /\ \A e \in 2 .. Len(events) :
       /\ <<events[e].before, events[e].after>> \in TicketTransitions
       /\ events[e].before = events[e - 1].after
  /\ events[1].after = "open"

LEMMA HistoryOfEach ==
  HistoryInv <=> /\ \A n \in DOMAIN tickets : LegalHistory(tickets[n], ticketAudit[n])
                 /\ \A t \in Thread : stage[t] = "writing" /\ cmd[t].kind = "close_ticket"
                                        => tickets[cmd[t].ticket].status # "closed"
  BY DEF HistoryInv, TicketHistoryLegal, LegalHistory

\* A step that closes no ticket and creates none.
LEMMA ClosesNothing ==
  ASSUME Structure, HistoryInv, NEW t \in Thread, LeavesOthers(t),
         tickets' = tickets, ticketAudit' = ticketAudit,
         stage'[t] = "writing" /\ cmd'[t].kind = "close_ticket"
           => cmd'[t] = cmd[t] /\ tickets[cmd[t].ticket].status # "closed"
  PROVE  HistoryInv'
  <1>1. \A n \in DOMAIN tickets' : LegalHistory(tickets'[n], ticketAudit'[n])
    BY HistoryOfEach
  <1>2. ASSUME NEW u \in Thread, stage'[u] = "writing", cmd'[u].kind = "close_ticket"
        PROVE  tickets'[cmd'[u].ticket].status # "closed"
    BY <1>2 DEF HistoryInv, LeavesOthers
  <1>3. TicketHistoryLegal' /\ \A n \in DOMAIN tickets' : ticketAudit'[n][1].after = "open"
    BY <1>1 DEF LegalHistory, TicketHistoryLegal
  <1> QED
    BY <1>2, <1>3 DEF HistoryInv

LEMMA CreateTicketHistory ==
  ASSUME Structure, HistoryInv, NEW t \in Thread, CreateTicket(t)
  PROVE  HistoryInv'
  <1> DEFINE ticket == [order |-> cmd[t].order, request |-> cmd[t].request,
                        status |-> "open", resolution |-> "none"]
             events == <<[before |-> "none", after |-> "open"]>>
  <1>0. /\ Finish(t)
        /\ tickets' = Append(tickets, ticket) /\ ticketAudit' = Append(ticketAudit, events)
    BY DEF CreateTicket, Commit
  <1>1. LegalHistory(ticket, events)
    BY DEF LegalHistory
  <1>2. /\ tickets \in Seq(Ticket) /\ ticketAudit \in Seq(Seq(AuditEvent))
        /\ Len(ticketAudit) = Len(tickets)
    BY DEF Structure, TypeOK
  <1> HIDE DEF ticket, events
  <1>3. \A n \in DOMAIN tickets : tickets'[n] = tickets[n]
    BY <1>0, <1>2
  <1>4. ASSUME NEW n \in DOMAIN tickets' PROVE LegalHistory(tickets'[n], ticketAudit'[n])
    <2>1. CASE n = Len(tickets) + 1
      <3>1. tickets'[n] = ticket /\ ticketAudit'[n] = events
        BY <1>0, <1>2, <2>1
      <3> QED
        BY <1>1, <3>1
    <2>2. CASE n # Len(tickets) + 1
      <3>1. n \in DOMAIN tickets /\ tickets'[n] = tickets[n] /\ ticketAudit'[n] = ticketAudit[n]
        BY <1>0, <1>2, <2>2
      <3> QED
        BY <3>1, HistoryOfEach
    <2> QED
      BY <2>1, <2>2
  <1>5. ASSUME NEW u \in Thread, stage'[u] = "writing", cmd'[u].kind = "close_ticket"
        PROVE  tickets'[cmd'[u].ticket].status # "closed"
    <2>1. stage[u] = "writing" /\ cmd'[u] = cmd[u]
      BY <1>0, <1>5, FinishFacts DEF Structure
    <2>2. cmd[u].ticket \in DOMAIN tickets
      BY <1>5, <2>1 DEF Structure, Referential
    <2> QED
      BY <1>3, <1>5, <2>1, <2>2 DEF HistoryInv
  <1>6. TicketHistoryLegal' /\ \A n \in DOMAIN tickets' : ticketAudit'[n][1].after = "open"
    BY <1>4 DEF LegalHistory, TicketHistoryLegal
  <1> QED
    BY <1>5, <1>6 DEF HistoryInv

\* Two events after the first.
LEMMA ConcatTwo ==
  ASSUME NEW S, NEW p \in Seq(S), Len(p) = 1, NEW q \in Seq(S), Len(q) = 2
  PROVE  /\ Len(p \o q) = 3 /\ (p \o q)[1] = p[1]
         /\ (p \o q)[2] = q[1] /\ (p \o q)[3] = q[2]
  <1>1. Len(p \o q) = Len(p) + Len(q)
    BY ConcatProperties, Zenon
  <1>2. \A i \in 1 .. Len(p) + Len(q) : (p \o q)[i] = IF i <= Len(p) THEN p[i] ELSE q[i - Len(p)]
    BY ConcatProperties, Zenon
  <1>3. {1, 2, 3} \subseteq 1 .. Len(p) + Len(q)
    OBVIOUS
  <1>4. /\ (p \o q)[1] = IF 1 <= Len(p) THEN p[1] ELSE q[1 - Len(p)]
        /\ (p \o q)[2] = IF 2 <= Len(p) THEN p[2] ELSE q[2 - Len(p)]
        /\ (p \o q)[3] = IF 3 <= Len(p) THEN p[3] ELSE q[3 - Len(p)]
    BY <1>2, <1>3, Zenon
  <1>5. /\ 1 <= Len(p) /\ ~ (2 <= Len(p)) /\ ~ (3 <= Len(p))
        /\ 2 - Len(p) = 1 /\ 3 - Len(p) = 2
    OBVIOUS
  <1>6. (p \o q)[1] = p[1] /\ (p \o q)[2] = q[1] /\ (p \o q)[3] = q[2]
    BY <1>4, <1>5, Zenon
  <1> QED
    BY <1>1, <1>6

\* The closing: another thread that is about to close this ticket would hold the same
\* lock, for both were checked under the lock of the ticket's order.
LEMMA CloseTicketHistory ==
  ASSUME Structure, HoldsOrderLock, HistoryInv, NEW t \in Thread, CloseTicket(t)
  PROVE  HistoryInv'
  <1> DEFINE n == cmd[t].ticket
             ticket == Closed(n)
             last == <<[before |-> tickets[n].status, after |-> Qualification(n)],
                       [before |-> Qualification(n), after |-> "closed"]>>
             events == ticketAudit[n] \o last
  <1>0. /\ cmd[t].kind = "close_ticket" /\ stage[t] = "writing" /\ Finish(t)
        /\ tickets' = [tickets EXCEPT ![n] = ticket]
        /\ ticketAudit' = [ticketAudit EXCEPT ![n] = events]
    BY DEF CloseTicket, Commit
  <1>1. /\ n \in DOMAIN tickets /\ tickets[n] \in Ticket /\ n \in DOMAIN ticketAudit
        /\ ticketAudit[n] \in Seq(AuditEvent)
        /\ tickets \in Seq(Ticket) /\ ticketAudit \in Seq(Seq(AuditEvent))
        /\ Len(ticketAudit) = Len(tickets)
    BY <1>0 DEF Structure, TypeOK, Referential
  <1>2. tickets[n].status = "open" /\ Len(ticketAudit[n]) = 1 /\ ticketAudit[n][1].after = "open"
    BY <1>0, <1>1 DEF HistoryInv, TicketHistoryLegal
  <1>3. Qualification(n) \in {"resolved", "rejected"}
    BY DEF Qualification
  <1>4. ticket.status = "closed"
    BY <1>1 DEF Closed, Ticket
  <1>5. /\ last \in Seq(AuditEvent) /\ Len(last) = 2
        /\ last[1] = [before |-> "open", after |-> Qualification(n)]
        /\ last[2] = [before |-> Qualification(n), after |-> "closed"]
    <2>1. /\ [before |-> tickets[n].status, after |-> Qualification(n)] \in AuditEvent
          /\ [before |-> Qualification(n), after |-> "closed"] \in AuditEvent
      BY <1>2, <1>3 DEF AuditEvent, TicketStatus
    <2> QED
      BY <1>2, <2>1
  <1>6. /\ Len(events) = 3 /\ events[1] = ticketAudit[n][1]
        /\ events[2] = last[1] /\ events[3] = last[2]
    <2> HIDE DEF last
    <2> QED
      BY <1>1, <1>2, <1>5, ConcatTwo
  <1>7. LegalHistory(ticket, events)
    <2> HIDE DEF ticket, events, last
    <2>1. \A e \in 2 .. 3 : e = 2 \/ e = 3
      OBVIOUS
    <2>2. /\ <<events[2].before, events[2].after>> \in TicketTransitions
          /\ events[2].before = events[1].after
      BY <1>2, <1>3, <1>5, <1>6 DEF TicketTransitions
    <2>3. /\ <<events[3].before, events[3].after>> \in TicketTransitions
          /\ events[3].before = events[2].after
      BY <1>3, <1>5, <1>6 DEF TicketTransitions
    <2>4. 3 - 1 = 2 /\ 2 - 1 = 1
      OBVIOUS
    <2> QED
      BY <1>2, <1>4, <1>6, <2>1, <2>2, <2>3, <2>4 DEF LegalHistory
  <1> HIDE DEF ticket, last, events
  <1>8. ASSUME NEW m \in DOMAIN tickets' PROVE LegalHistory(tickets'[m], ticketAudit'[m])
    <2>1. CASE m = n
      BY <1>0, <1>1, <1>7, <2>1
    <2>2. CASE m # n
      <3>1. m \in DOMAIN tickets /\ tickets'[m] = tickets[m] /\ ticketAudit'[m] = ticketAudit[m]
        BY <1>0, <1>1, <2>2
      <3> QED
        BY <3>1, HistoryOfEach
    <2> QED
      BY <2>1, <2>2
  <1>9. ASSUME NEW u \in Thread, stage'[u] = "writing", cmd'[u].kind = "close_ticket"
        PROVE  tickets'[cmd'[u].ticket].status # "closed"
    <2>1. stage[u] = "writing" /\ cmd'[u] = cmd[u] /\ u # t
      BY <1>0, <1>9, FinishFacts DEF Structure
    <2>2. orderLock[OrderOf(u)] = u /\ orderLock[OrderOf(t)] = t
      BY <1>0, <1>9, <2>1 DEF HoldsOrderLock, OrderLocking
    <2>3. cmd[u].ticket # n
      <3>1. OrderOf(u) = tickets[cmd[u].ticket].order
        BY <1>9, <2>1 DEF OrderOf, Payment
      <3>2. OrderOf(t) = tickets[n].order
        BY <1>0 DEF OrderOf, Payment
      <3> QED
        BY <2>1, <2>2, <3>1, <3>2
    <2>4. cmd[u].ticket \in DOMAIN tickets
      BY <1>9, <2>1 DEF Structure, Referential
    <2> QED
      BY <1>0, <1>1, <1>9, <2>1, <2>3, <2>4 DEF HistoryInv
  <1>10. TicketHistoryLegal' /\ \A m \in DOMAIN tickets' : ticketAudit'[m][1].after = "open"
    BY <1>8 DEF LegalHistory, TicketHistoryLegal
  <1> QED
    BY <1>9, <1>10 DEF HistoryInv

LEMMA StartHistory ==
  ASSUME Structure, HistoryInv, NEW t \in Thread, NEW c \in Command, NEW st, Start(t, c, st),
         Begin(t), st \in {"order", "key"} \/ c.kind # "close_ticket"
  PROVE  HistoryInv'
  <1>1. UNCHANGED <<tickets, ticketAudit>> /\ stage'[t] = st /\ cmd'[t] = c
    BY DEF Start, Structure, TypeOK, data
  <1> QED
    BY <1>1, StepLeavesOthers, ClosesNothing

LEMMA BeginHistory ==
  ASSUME Structure, HistoryInv, NEW t \in Thread, Begin(t)
  PROVE  HistoryInv'
  <1> USE DEF Decision, Command
  <1>0. DOMAIN ops \subseteq Nat /\ DOMAIN tickets \subseteq Nat
    BY DEF Structure, TypeOK
  <1>1. ASSUME NEW k \in TicketKey, NEW o \in Order, NEW r \in Request,
               BeginCreateTicket(t, k, o, r)
        PROVE  HistoryInv'
    BY <1>1, StartHistory DEF BeginCreateTicket
  <1>2. ASSUME NEW k \in RefundKey, NEW n \in DOMAIN tickets, NEW a \in Amount,
               BeginCreateRefund(t, k, n, a)
        PROVE  HistoryInv'
    BY <1>0, <1>2, StartHistory DEF BeginCreateRefund
  <1>3. ASSUME NEW kind \in Decision, NEW i \in DOMAIN ops, BeginDecision(t, kind, i)
        PROVE  HistoryInv'
    BY <1>0, <1>3, StartHistory DEF BeginDecision
  <1>4. ASSUME NEW i \in DOMAIN ops, NEW result \in {"success", "timeout"},
               BeginExecute(t, i, result)
        PROVE  HistoryInv'
    BY <1>0, <1>4, StartHistory DEF BeginExecute
  <1>5. ASSUME NEW i \in DOMAIN ops, NEW result \in {"success", "failed"},
               BeginReconcile(t, i, result)
        PROVE  HistoryInv'
    BY <1>0, <1>5, StartHistory DEF BeginReconcile
  <1>6. ASSUME NEW n \in DOMAIN tickets, BeginCloseTicket(t, n) PROVE HistoryInv'
    BY <1>0, <1>6, StartHistory DEF BeginCloseTicket
  <1> QED
    BY <1>1, <1>2, <1>3, <1>4, <1>5, <1>6 DEF Begin

LEMMA OtherHistory ==
  ASSUME Structure, HistoryInv, NEW t \in Thread,
         \/ LockOrder(t) \/ LockKey(t) \/ Check(t) \/ Replay(t) \/ Refuse(t)
         \/ IterationFails(t) \/ CloseFails(t) \/ RecordStatus(t) \/ WriteStatus(t)
         \/ Book(t)
  PROVE  HistoryInv'
  <1>1. LeavesOthers(t)
    BY StepLeavesOthers
  <1>2. UNCHANGED <<tickets, ticketAudit>>
    BY DEF LockOrder, LockKey, Check, Replay, Refuse, IterationFails, CloseFails,
           RecordStatus, WriteStatus, Book, data
  <1>3. stage'[t] = "writing" => Check(t)
    <2>1. ASSUME Finish(t) PROVE stage'[t] # "writing"
      BY <2>1, FinishFacts DEF Structure
    <2> QED
      BY <2>1 DEF LockOrder, AfterOrderLock, LockKey, AfterKeyLock, Replay, Refuse,
                  IterationFails, CloseFails, RecordStatus, WriteStatus, Book, Commit,
                  Structure, TypeOK
  <1>4. Check(t) /\ cmd[t].kind = "close_ticket" => tickets[cmd[t].ticket].status # "closed"
    BY DEF Check, Allowed, CloseAllowed
  <1> QED
    BY <1>1, <1>2, <1>3, <1>4, ClosesNothing DEF Check

LEMMA CreateRefundHistory ==
  ASSUME Structure, HistoryInv, NEW t \in Thread, CreateRefund(t)
  PROVE  HistoryInv'
  <1>1. Finish(t) /\ UNCHANGED <<tickets, ticketAudit>>
    BY DEF CreateRefund, Commit
  <1>2. \A i \in DOMAIN ops : ops'[i] = ops[i]
    BY AppendKeeps DEF CreateRefund, Structure, TypeOK
  <1>3. LeavesOthers(t) /\ stage'[t] # "writing"
    BY <1>1, <1>2, FinishFacts DEF LeavesOthers, Structure
  <1> QED
    BY <1>1, <1>3, ClosesNothing

\* A ticket is qualified and closed once, along TICKET_TRANSITIONS, however many
\* threads close it at once and whatever becomes of its operations.
THEOREM TicketsCloseOnce == Spec => []TicketHistoryLegal
  <1>1. Init => HistoryInv
    BY DEF Init, HistoryInv, TicketHistoryLegal
  <1>2. Structure /\ CapacityInv /\ HistoryInv /\ [Next]_vars => HistoryInv'
    <2> SUFFICES ASSUME Structure, HoldsOrderLock, HistoryInv, [Next]_vars PROVE HistoryInv'
      BY DEF CapacityInv
    <2>1. CASE UNCHANGED vars
      BY <2>1 DEF vars, data, HistoryInv, TicketHistoryLegal
    <2>2. ASSUME NEW t \in Thread, Begin(t) PROVE HistoryInv'
      BY <2>2, BeginHistory
    <2>3. ASSUME NEW t \in Thread, CreateTicket(t) PROVE HistoryInv'
      BY <2>3, CreateTicketHistory
    <2>4. ASSUME NEW t \in Thread, CreateRefund(t) PROVE HistoryInv'
      BY <2>4, CreateRefundHistory
    <2>5. ASSUME NEW t \in Thread, CloseTicket(t) PROVE HistoryInv'
      BY <2>5, CloseTicketHistory
    <2>6. ASSUME NEW t \in Thread,
                 \/ LockOrder(t) \/ LockKey(t) \/ Check(t) \/ Replay(t) \/ Refuse(t)
                 \/ IterationFails(t) \/ CloseFails(t) \/ RecordStatus(t) \/ WriteStatus(t)
                 \/ Book(t)
          PROVE  HistoryInv'
      BY <2>6, OtherHistory
    <2> QED
      BY <2>1, <2>2, <2>3, <2>4, <2>5, <2>6 DEF Next
  <1>3. HistoryInv => TicketHistoryLegal
    BY DEF HistoryInv
  <1> QED
    BY <1>1, <1>2, <1>3, StructureInvariant, CapacityInvariant, PTL DEF Spec

-----------------------------------------------------------------------------
(* What one decider gives: a status is still what it was checked to be *)

\* One thread serves submit, approve and reject.
OneDecider == \A t, u \in Decider : t = u

\* A change of status that was checked and is not written yet is still a transition:
\* payments of an order exclude each other, and a decision starts from a status that
\* no payment starts from.
StatusInv ==
  /\ \A t \in Thread : stage[t] # "idle" /\ cmd[t].kind \in Decision
                         => t \in Decider /\ stage[t] \in {"writing", "booking", "recording"}
  /\ \A t \in Thread :
       stage[t] = "writing" /\ cmd[t].kind \in Decision \cup Payment
         => <<ops[cmd[t].op].status, Target(cmd[t])>> \in OperationTransitions

\* Decisions and payments start from different statuses.
LEMMA SourceOfChange ==
  ASSUME NEW c \in Command, c.kind \in Decision \cup Payment, NEW from,
         <<from, Target(c)>> \in OperationTransitions
  PROVE  /\ c.kind \in Decision => from \in {"draft", "pending_approval"}
         /\ c.kind \in Payment => from \in {"approved", "unknown"}
         /\ from # Target(c)
  <1> USE DEF Decision, Payment, OperationTransitions
  <1>1. CASE c.kind = "submit"
    BY <1>1 DEF Target
  <1>2. CASE c.kind = "approve"
    BY <1>2 DEF Target
  <1>3. CASE c.kind = "reject"
    BY <1>3 DEF Target
  <1>4. CASE c.kind = "execute"
    BY <1>4, CommandFields DEF Target
  <1>5. CASE c.kind = "reconcile"
    BY <1>5, CommandFields DEF Target
  <1> QED
    BY <1>1, <1>2, <1>3, <1>4, <1>5

\* Creations leave the other threads and the existing objects alone, too.
LEMMA CreationLeavesOthers ==
  ASSUME Structure, NEW t \in Thread, CreateTicket(t) \/ CreateRefund(t)
  PROVE  /\ LeavesOthers(t) /\ stage'[t] = "idle"
         /\ \A n \in DOMAIN tickets : tickets'[n] = tickets[n]
         /\ \A i \in DOMAIN ops : ops'[i] = ops[i]
  <1>1. Finish(t)
    BY DEF CreateTicket, CreateRefund, Commit
  <1>2. \A n \in DOMAIN tickets : tickets'[n] = tickets[n]
    <2>1. CASE CreateTicket(t)
      BY <2>1, AppendKeeps DEF CreateTicket, Structure, TypeOK
    <2>2. CASE CreateRefund(t)
      BY <2>2 DEF CreateRefund
    <2> QED
      BY <2>1, <2>2
  <1>3. \A i \in DOMAIN ops : ops'[i] = ops[i]
    <2>1. CASE CreateRefund(t)
      BY <2>1, AppendKeeps DEF CreateRefund, Structure, TypeOK
    <2>2. CASE CreateTicket(t)
      BY <2>2 DEF CreateTicket
    <2> QED
      BY <2>1, <2>2
  <1> QED
    BY <1>1, <1>2, <1>3, FinishFacts DEF LeavesOthers, Structure

\* A step that changes no status.
LEMMA ChecksStay ==
  ASSUME Structure, StatusInv, NEW t \in Thread, LeavesOthers(t),
         \A i \in DOMAIN ops : ops'[i].status = ops[i].status,
         stage'[t] # "idle" /\ cmd'[t].kind \in Decision
           => t \in Decider /\ stage'[t] \in {"writing", "booking", "recording"},
         stage'[t] = "writing" /\ cmd'[t].kind \in Decision \cup Payment
           => <<ops'[cmd'[t].op].status, Target(cmd'[t])>> \in OperationTransitions
  PROVE  StatusInv'
  <1>1. ASSUME NEW u \in Thread, stage'[u] # "idle", cmd'[u].kind \in Decision
        PROVE  u \in Decider /\ stage'[u] \in {"writing", "booking", "recording"}
    BY <1>1 DEF StatusInv, LeavesOthers
  <1>2. ASSUME NEW u \in Thread, stage'[u] = "writing", cmd'[u].kind \in Decision \cup Payment
        PROVE  <<ops'[cmd'[u].op].status, Target(cmd'[u])>> \in OperationTransitions
    <2>1. CASE u # t
      <3>1. stage[u] = "writing" /\ cmd'[u] = cmd[u]
        BY <1>2, <2>1 DEF LeavesOthers
      <3>2. cmd[u].op \in DOMAIN ops
        BY <1>2, <3>1 DEF Structure, Referential
      <3> QED
        BY <1>2, <3>1, <3>2 DEF StatusInv
    <2> QED
      BY <1>2, <2>1
  <1> QED
    BY <1>1, <1>2 DEF StatusInv

LEMMA StartChecks ==
  ASSUME Structure, StatusInv, NEW t \in Thread, NEW c \in Command, NEW st, Start(t, c, st),
         Begin(t),
         \/ st \in {"order", "key"} /\ c.kind \notin Decision
         \/ t \in Decider /\ st = "writing" /\ <<ops[c.op].status, Target(c)>> \in OperationTransitions
  PROVE  StatusInv'
  <1>1. ops' = ops /\ stage'[t] = st /\ cmd'[t] = c
    BY DEF Start, Structure, TypeOK, data
  <1> QED
    BY <1>1, StepLeavesOthers, ChecksStay

LEMMA BeginChecks ==
  ASSUME Structure, StatusInv, NEW t \in Thread, Begin(t)
  PROVE  StatusInv'
  <1> USE DEF Decision, Command
  <1>0. DOMAIN ops \subseteq Nat /\ DOMAIN tickets \subseteq Nat
    BY DEF Structure, TypeOK
  <1>1. ASSUME NEW k \in TicketKey, NEW o \in Order, NEW r \in Request,
               BeginCreateTicket(t, k, o, r)
        PROVE  StatusInv'
    BY <1>1, StartChecks DEF BeginCreateTicket
  <1>2. ASSUME NEW k \in RefundKey, NEW n \in DOMAIN tickets, NEW a \in Amount,
               BeginCreateRefund(t, k, n, a)
        PROVE  StatusInv'
    BY <1>0, <1>2, StartChecks DEF BeginCreateRefund
  <1>3. ASSUME t \in Decider, NEW kind \in Decision, NEW i \in DOMAIN ops,
               BeginDecision(t, kind, i)
        PROVE  StatusInv'
    <2> DEFINE c == [kind |-> kind, op |-> i]
    <2>1. c \in Command /\ c.op = i
      BY <1>0
    <2>2. Start(t, c, "writing") /\ <<ops[i].status, Target(c)>> \in OperationTransitions
      BY <1>3 DEF BeginDecision
    <2> HIDE DEF c
    <2> QED
      BY <1>3, <2>1, <2>2, StartChecks
  <1>4. ASSUME NEW i \in DOMAIN ops, NEW result \in {"success", "timeout"},
               BeginExecute(t, i, result)
        PROVE  StatusInv'
    BY <1>0, <1>4, StartChecks DEF BeginExecute
  <1>5. ASSUME NEW i \in DOMAIN ops, NEW result \in {"success", "failed"},
               BeginReconcile(t, i, result)
        PROVE  StatusInv'
    BY <1>0, <1>5, StartChecks DEF BeginReconcile
  <1>6. ASSUME NEW n \in DOMAIN tickets, BeginCloseTicket(t, n) PROVE StatusInv'
    BY <1>0, <1>6, StartChecks DEF BeginCloseTicket
  <1> QED
    BY <1>1, <1>2, <1>3, <1>4, <1>5, <1>6 DEF Begin

LEMMA OtherChecks ==
  ASSUME Structure, StatusInv, NEW t \in Thread,
         \/ LockOrder(t) \/ LockKey(t) \/ Check(t) \/ Replay(t) \/ Refuse(t)
         \/ IterationFails(t) \/ CloseFails(t) \/ RecordStatus(t) \/ CloseTicket(t)
  PROVE  StatusInv'
  <1>1. LeavesOthers(t)
    BY StepLeavesOthers
  <1>2. ops' = ops
    BY DEF LockOrder, LockKey, Check, Replay, Refuse, IterationFails, CloseFails,
           RecordStatus, CloseTicket, data
  <1>3. /\ stage'[t] = "writing" => Check(t)
        /\ stage'[t] # "idle" => stage[t] \in {"order", "key", "locked"} /\ cmd'[t] = cmd[t]
    <2>1. ASSUME Finish(t) PROVE stage'[t] = "idle"
      BY <2>1, FinishFacts DEF Structure
    <2> QED
      BY <2>1 DEF LockOrder, AfterOrderLock, LockKey, AfterKeyLock, Check, Replay, Refuse,
                  IterationFails, CloseFails, RecordStatus, CloseTicket, Commit,
                  Structure, TypeOK
  <1>4. ASSUME Check(t), cmd[t].kind \in Decision \cup Payment
        PROVE  <<ops[cmd[t].op].status, Target(cmd[t])>> \in OperationTransitions
    <2>1. cmd[t] \in Command /\ stage[t] = "locked" /\ Allowed(t)
      BY <1>4 DEF Check, Structure, Referential
    <2>2. CASE cmd[t].kind = "execute"
      BY <2>1, <2>2, CommandFields DEF Allowed, ExecuteAllowed, Target, OperationTransitions
    <2>3. CASE cmd[t].kind = "reconcile"
      BY <2>1, <2>3, CommandFields DEF Allowed, ReconcileAllowed, Target, OperationTransitions
    <2>4. CASE cmd[t].kind \in Decision
      BY <2>1, <2>4 DEF StatusInv
    <2> QED
      BY <1>4, <2>2, <2>3, <2>4 DEF Payment
  <1> QED
    BY <1>1, <1>2, <1>3, <1>4, ChecksStay DEF StatusInv

\* The write itself: another thread about to write the status of the same operation
\* would be a second payment under one lock, a second decider, or one that was checked
\* on a status the operation does not have.
LEMMA WriteStatusChecks ==
  ASSUME OneDecider, Structure, HoldsOrderLock, StatusInv, NEW t \in Thread, WriteStatus(t)
  PROVE  StatusInv'
  <1>0. PICK i : i = cmd[t].op
    OBVIOUS
  <1>1. /\ stage[t] = "writing" /\ cmd[t].kind \in Decision \cup Payment /\ cmd' = cmd
        /\ stage' = [stage EXCEPT ![t] = "booking"] /\ cmd[t] \in Command
        /\ stage \in [Thread -> Stage]
    BY DEF WriteStatus, Structure, TypeOK, Referential
  <1>2. i \in DOMAIN ops /\ \A j \in DOMAIN ops : j # i => ops'[j] = ops[j]
    BY <1>0, WriteStatusFacts DEF KeptRows
  <1>3. <<ops[i].status, Target(cmd[t])>> \in OperationTransitions
    BY <1>0, <1>1 DEF StatusInv
  <1>4. ASSUME NEW u \in Thread, u # t, stage[u] = "writing",
               cmd[u].kind \in Decision \cup Payment
        PROVE  cmd[u].op # i
    <2> SUFFICES ASSUME cmd[u].op = i PROVE FALSE
      OBVIOUS
    <2>1. cmd[u] \in Command /\ <<ops[i].status, Target(cmd[u])>> \in OperationTransitions
      BY <1>4 DEF StatusInv, Structure, Referential
    <2>2. CASE cmd[t].kind \in Payment /\ cmd[u].kind \in Payment
      <3>1. OrderOf(t) = ops[i].order /\ OrderOf(u) = ops[i].order
        BY <1>0, <2>2 DEF OrderOf, Payment
      <3>2. orderLock[OrderOf(t)] = t /\ orderLock[OrderOf(u)] = u
        BY <1>1, <1>4, <2>2 DEF HoldsOrderLock, OrderLocking
      <3> QED
        BY <1>4, <3>1, <3>2
    <2>3. CASE cmd[t].kind \in Decision /\ cmd[u].kind \in Decision
      <3>1. t \in Decider /\ u \in Decider
        BY <1>1, <1>4, <2>3 DEF StatusInv
      <3> QED
        BY <1>4, <3>1 DEF OneDecider
    <2>4. CASE cmd[t].kind \in Decision /\ cmd[u].kind \in Payment
      BY <1>1, <1>3, <2>1, <2>4, SourceOfChange
    <2>5. CASE cmd[t].kind \in Payment /\ cmd[u].kind \in Decision
      BY <1>1, <1>3, <2>1, <2>5, SourceOfChange
    <2> QED
      BY <1>1, <1>4, <2>2, <2>3, <2>4, <2>5
  <1>5. ASSUME NEW u \in Thread, stage'[u] = "writing", cmd'[u].kind \in Decision \cup Payment
        PROVE  <<ops'[cmd'[u].op].status, Target(cmd'[u])>> \in OperationTransitions
    <2>1. u # t /\ stage[u] = "writing" /\ cmd'[u] = cmd[u]
      BY <1>1, <1>5
    <2>2. cmd[u].op \in DOMAIN ops
      BY <1>5, <2>1 DEF Structure, Referential
    <2>3. ops'[cmd[u].op] = ops[cmd[u].op]
      BY <1>2, <1>4, <1>5, <2>1, <2>2
    <2> QED
      BY <1>5, <2>1, <2>3 DEF StatusInv
  <1>6. ASSUME NEW u \in Thread, stage'[u] # "idle", cmd'[u].kind \in Decision
        PROVE  u \in Decider /\ stage'[u] \in {"writing", "booking", "recording"}
    BY <1>1, <1>6 DEF StatusInv
  <1> QED
    BY <1>5, <1>6 DEF StatusInv

LEMMA BookChecks ==
  ASSUME Structure, StatusInv, NEW t \in Thread, Book(t)
  PROVE  StatusInv'
  <1>1. LeavesOthers(t) /\ stage[t] # "idle" /\ stage'[t] = "recording" /\ cmd'[t] = cmd[t]
    BY StepLeavesOthers DEF Book, Structure, TypeOK
  <1> QED
    BY <1>1, BookFacts, ChecksStay DEF StatusInv

LEMMA StatusInvariant == ASSUME OneDecider PROVE Spec => []StatusInv
  <1>1. Init => StatusInv
    BY DEF Init, StatusInv, NoCommand
  <1>2. Structure /\ CapacityInv /\ StatusInv /\ [Next]_vars => StatusInv'
    <2> SUFFICES ASSUME Structure, HoldsOrderLock, StatusInv, [Next]_vars PROVE StatusInv'
      BY DEF CapacityInv
    <2>1. CASE UNCHANGED vars
      BY <2>1 DEF vars, data, StatusInv
    <2>2. ASSUME NEW t \in Thread, Begin(t) PROVE StatusInv'
      BY <2>2, BeginChecks
    <2>3. ASSUME NEW t \in Thread, CreateTicket(t) \/ CreateRefund(t) PROVE StatusInv'
      BY <2>3, CreationLeavesOthers, ChecksStay
    <2>4. ASSUME NEW t \in Thread, WriteStatus(t) PROVE StatusInv'
      BY <2>4, WriteStatusChecks
    <2>6. ASSUME NEW t \in Thread, Book(t) PROVE StatusInv'
      BY <2>6, BookChecks
    <2>5. ASSUME NEW t \in Thread,
                 \/ LockOrder(t) \/ LockKey(t) \/ Check(t) \/ Replay(t) \/ Refuse(t)
                 \/ IterationFails(t) \/ CloseFails(t) \/ RecordStatus(t) \/ CloseTicket(t)
          PROVE  StatusInv'
      BY <2>5, OtherChecks
    <2> QED
      BY <2>1, <2>2, <2>3, <2>4, <2>5, <2>6 DEF Next
  <1> QED
    BY <1>1, <1>2, StructureInvariant, CapacityInvariant, PTL DEF Spec

-----------------------------------------------------------------------------
(* The books: refunded of an order and its executed operations *)

BooksOp(t, i) == stage[t] = "booking" /\ cmd[t].kind \in Payment /\ cmd[t].op = i
SettledOf(o) == Executed(o) \ Unbooked
CentsOf(o) == UNION {{i} \X (1 .. ops[i].amount) : i \in SettledOf(o)}

\* The first half of BooksMatchOperations.
SumsMatch == \A o \in Order : refunded[o] = Cardinality(CentsOf(o))

\* What a payment has given its operation is still there when it books: no other
\* payment has the order's lock, and no decision starts from there.
BookingsInv ==
  \A t \in Thread : \A i \in DOMAIN ops : BooksOp(t, i) => ops[i].status = Target(cmd[t])

LEMMA UnbookedMember ==
  /\ \A i : i \in Unbooked <=> \E t \in Thread : BooksOp(t, i)
  /\ \A i : i \in Unbooked' <=> \E t \in Thread : BooksOp(t, i)'
  BY DEF Unbooked, BooksOp

\* Who books an operation holds the lock of its order.
LEMMA BookerHoldsLock ==
  ASSUME Structure, HoldsOrderLock, NEW t \in Thread, NEW i, BooksOp(t, i)
  PROVE  i \in DOMAIN ops /\ OrderOf(t) = ops[i].order /\ orderLock[ops[i].order] = t
  <1>1. OrderOf(t) = ops[i].order
    BY DEF BooksOp, OrderOf, Payment
  <1> QED
    BY <1>1 DEF BooksOp, HoldsOrderLock, OrderLocking, Structure, Referential

\* An order whose lock is free, or held by a thread that is not booking, has no
\* executed operation that is still to be booked.
LEMMA AllBooked ==
  ASSUME Structure, HoldsOrderLock, NEW o,
         orderLock[o] \in Thread => stage[orderLock[o]] # "booking"
  PROVE  Executed(o) \cap Unbooked = {} /\ SettledOf(o) = Executed(o)
  <1>1. ASSUME NEW i \in Executed(o), i \in Unbooked PROVE FALSE
    <2>1. PICK t \in Thread : BooksOp(t, i)
      BY <1>1, UnbookedMember
    <2> QED
      BY <1>1, <2>1, BookerHoldsLock DEF Executed, BooksOp
  <1> QED
    BY <1>1 DEF SettledOf

LEMMA SumsAreBooks ==
  ASSUME Structure, HoldsOrderLock, SumsMatch
  PROVE  BooksMatchOperations
  <1>1. ASSUME NEW o \in Order, orderLock[o] = Free PROVE Executed(o) \cap Unbooked = {}
    BY <1>1, AllBooked, ThreadAssumption
  <1> QED
    BY <1>1 DEF SumsMatch, CentsOf, SettledOf, BooksMatchOperations

\* The cents of one operation are as many as its amount.
LEMMA CentsOfOperation ==
  ASSUME NEW i, NEW a \in Nat
  PROVE  IsFiniteSet({i} \X (1 .. a)) /\ Cardinality({i} \X (1 .. a)) = a
  <1>1. IsFiniteSet({i}) /\ Cardinality({i}) = 1
    BY FS_Singleton
  <1>2. IsFiniteSet(1 .. a) /\ Cardinality(1 .. a) = a
    BY FS_Interval
  <1>3. /\ IsFiniteSet({i} \X (1 .. a))
        /\ Cardinality({i} \X (1 .. a)) = 1 * Cardinality(1 .. a)
    BY <1>1, <1>2, FS_Product
  <1> QED
    BY <1>2, <1>3

LEMMA OperationFields ==
  ASSUME Structure, NEW i \in DOMAIN ops
  PROVE  /\ ops[i].order \in Order /\ ops[i].amount \in Amount /\ ops[i].amount \in Nat
         /\ ops[i].key \in RefundKey /\ ops[i].status \in OperationStatus
  <1>1. ops[i] \in Operation
    BY DEF Structure, TypeOK
  <1> QED
    BY <1>1, RefundAmountAssumption DEF Operation

\* The settled cents of an order are finitely many.
LEMMA CentsFinite ==
  ASSUME Structure, NEW o
  PROVE  IsFiniteSet(CentsOf(o)) /\ Cardinality(CentsOf(o)) \in Nat
  <1> DEFINE S == SettledOf(o)
             cents == [i \in S |-> {i} \X (1 .. ops[i].amount)]
             T == {{i} \X (1 .. ops[i].amount) : i \in S}
  <1>1. ops \in Seq(Operation)
    BY DEF Structure, TypeOK
  <1>2. IsFiniteSet(DOMAIN ops)
    BY <1>1, FS_Interval
  <1>3. IsFiniteSet(S)
    BY <1>2, FS_Subset DEF SettledOf, Executed
  <1>4. cents \in Surjection(S, T)
    BY DEF Surjection
  <1>5. IsFiniteSet(T)
    BY <1>3, <1>4, FS_Surjection
  <1>6. \A i \in S : ops[i].amount \in Nat
    BY OperationFields DEF SettledOf, Executed
  <1>7. \A C \in T : IsFiniteSet(C)
    <2>1. \A i \in S : IsFiniteSet({i} \X (1 .. ops[i].amount))
      BY <1>6, CentsOfOperation
    <2> HIDE DEF S
    <2> QED
      BY <2>1
  <1>8. IsFiniteSet(CentsOf(o))
    BY <1>5, <1>7, FS_UNION DEF CentsOf
  <1> QED
    BY <1>8, FS_CardinalityType

\* A step that settles no operation and books nothing.
LEMMA SumsStay ==
  ASSUME Structure, SumsMatch, refunded' = refunded,
         \A o \in Order : SettledOf(o)' = SettledOf(o),
         \A i \in DOMAIN ops : ops'[i].amount = ops[i].amount
  PROVE  SumsMatch'
  <1> SUFFICES ASSUME NEW o \in Order PROVE refunded'[o] = Cardinality(CentsOf(o)')
    BY DEF SumsMatch
  <1>1. \A i \in SettledOf(o) : ops'[i].amount = ops[i].amount
    BY DEF SettledOf, Executed
  <1>2. CentsOf(o)' = CentsOf(o)
    BY <1>1 DEF CentsOf
  <1> QED
    BY <1>2 DEF SumsMatch

\* The write of a status: executed is final, and an operation that becomes executed
\* is not booked yet.
LEMMA WriteStatusBooks ==
  ASSUME Structure, StatusInv, SumsMatch, NEW t \in Thread, WriteStatus(t)
  PROVE  SumsMatch'
  <1>0. PICK i, to : i = cmd[t].op /\ to = Target(cmd[t])
    OBVIOUS
  <1>1. /\ i \in DOMAIN ops /\ <<ops[i].status, to>> \in OperationTransitions
        /\ cmd[t] \in Command /\ cmd[t].kind \in Decision \cup Payment /\ cmd' = cmd
        /\ stage[t] = "writing" /\ stage' = [stage EXCEPT ![t] = "booking"]
        /\ stage \in [Thread -> Stage] /\ refunded' = refunded
    BY <1>0, BookedType DEF WriteStatus, StatusInv, Structure, TypeOK
  <1>2. ops[i].status # "executed"
    BY <1>1 DEF OperationTransitions
  <1>3. KeptRows(i) /\ ops'[i].status = to
    BY <1>0, WriteStatusFacts
  <1>4. to = "executed" => BooksOp(t, i)'
    BY <1>0, <1>1, TargetType DEF BooksOp
  <1>5. \A u \in Thread : \A j : j # i => (BooksOp(u, j)' <=> BooksOp(u, j))
    BY <1>0, <1>1 DEF BooksOp
  <1>6. \A j : j # i => (j \in Unbooked' <=> j \in Unbooked)
    BY <1>5, UnbookedMember
  <1>7. to = "executed" => i \in Unbooked'
    BY <1>4, UnbookedMember
  <1>8. ASSUME NEW o \in Order PROVE SettledOf(o)' = SettledOf(o)
    <2>1. i \notin SettledOf(o) /\ i \notin SettledOf(o)'
      BY <1>2, <1>3, <1>7 DEF SettledOf, Executed
    <2>2. \A j : j # i => (j \in Executed(o)' <=> j \in Executed(o))
      BY <1>3 DEF Executed, KeptRows
    <2>3. \A j : j # i => (j \in SettledOf(o)' <=> j \in SettledOf(o))
      BY <1>6, <2>2 DEF SettledOf
    <2> QED
      BY <2>1, <2>3
  <1> QED
    BY <1>1, <1>3, <1>8, SumsStay DEF KeptRows

\* The booking: nobody else books the operation, which becomes settled exactly when
\* its amount is added.
LEMMA BookBooks ==
  ASSUME Structure, HoldsOrderLock, BookingsInv, SumsMatch, NEW t \in Thread, Book(t)
  PROVE  SumsMatch'
  <1>0. PICK i, to, a : i = cmd[t].op /\ to = Target(cmd[t]) /\ a = ops[i].amount
    OBVIOUS
  <1>1. /\ i \in DOMAIN ops /\ cmd[t] \in Command /\ cmd[t].kind \in Decision \cup Payment
        /\ a \in Nat /\ ops[i].order \in Order /\ cmd' = cmd
        /\ stage[t] = "booking" /\ stage' = [stage EXCEPT ![t] = "recording"]
        /\ stage \in [Thread -> Stage]
    BY <1>0, BookedType DEF Book, Structure, TypeOK, Referential
  <1>2. KeptRows(i) /\ \A j \in DOMAIN ops : ops'[j].status = ops[j].status
    BY <1>0, BookFacts
  <1>3. \A o : Executed(o)' = Executed(o)
    BY <1>2 DEF Executed, KeptRows
  <1>4. refunded' = [refunded EXCEPT ![ops[i].order] =
                       refunded[ops[i].order] + (IF to = "executed" THEN a ELSE 0)]
        /\ refunded \in [Order -> Nat]
    BY <1>0, BookFacts DEF Booked, Structure, TypeOK
  <1>5. \A u \in Thread : \A j : BooksOp(u, j)' <=> u # t /\ BooksOp(u, j)
    BY <1>1 DEF BooksOp
  <1>6. cmd[t].kind \in Payment => BooksOp(t, i)
    BY <1>0, <1>1 DEF BooksOp
  <1>7. \A j : j # i => (j \in Unbooked' <=> j \in Unbooked)
    <2>1. \A j : j # i => ~ BooksOp(t, j)
      BY <1>0 DEF BooksOp
    <2> QED
      BY <1>5, <2>1, UnbookedMember
  <1>8. CASE to # "executed"
    <2>1. i \in Executed(ops[i].order) => (i \in Unbooked' <=> i \in Unbooked)
      <3>1. CASE cmd[t].kind \in Payment
        BY <1>0, <1>1, <1>6, <1>8, <3>1 DEF BookingsInv, Executed
      <3>2. CASE cmd[t].kind \notin Payment
        <4>1. \A j : ~ BooksOp(t, j)
          BY <3>2 DEF BooksOp
        <4> QED
          BY <1>5, <4>1, UnbookedMember
      <3> QED
        BY <3>1, <3>2
    <2>2. \A o \in Order : SettledOf(o)' = SettledOf(o)
      <3> SUFFICES ASSUME NEW o \in Order PROVE SettledOf(o)' = SettledOf(o)
        OBVIOUS
      <3>1. \A j : j \in Executed(o) => (j \in Unbooked' <=> j \in Unbooked)
        BY <1>7, <2>1 DEF Executed
      <3> QED
        BY <1>3, <3>1 DEF SettledOf
    <2>3. refunded' = refunded
      BY <1>1, <1>4, <1>8
    <2> QED
      BY <1>2, <2>2, <2>3, SumsStay DEF KeptRows
  <1>9. CASE to = "executed"
    <2>0. BooksOp(t, i) /\ ops[i].status = "executed"
      BY <1>0, <1>1, <1>6, <1>9, TargetType DEF BookingsInv
    <2>1. i \in Unbooked /\ i \notin Unbooked'
      <3>1. ASSUME NEW u \in Thread, u # t PROVE ~ BooksOp(u, i)
        BY <2>0, <3>1, BookerHoldsLock
      <3> QED
        BY <1>5, <2>0, <3>1, UnbookedMember
    <2> SUFFICES ASSUME NEW o \in Order PROVE refunded'[o] = Cardinality(CentsOf(o)')
      BY DEF SumsMatch
    <2>2. CASE o # ops[i].order
      <3>1. SettledOf(o)' = SettledOf(o)
        <4>1. i \notin Executed(o)
          BY <2>2 DEF Executed
        <4> QED
          BY <1>3, <1>7, <4>1 DEF SettledOf
      <3>2. \A j \in SettledOf(o) : ops'[j].amount = ops[j].amount
        BY <1>2 DEF SettledOf, Executed, KeptRows
      <3>3. CentsOf(o)' = CentsOf(o)
        BY <3>1, <3>2 DEF CentsOf
      <3> QED
        BY <1>1, <1>4, <2>2, <3>3 DEF SumsMatch
    <2>3. CASE o = ops[i].order
      <3> DEFINE new == {i} \X (1 .. a)
      <3>1. SettledOf(o)' = SettledOf(o) \cup {i} /\ i \notin SettledOf(o)
        <4>1. i \in Executed(o)
          BY <1>1, <2>0, <2>3 DEF Executed
        <4> QED
          BY <1>3, <1>7, <2>1, <4>1 DEF SettledOf
      <3>2. \A j \in SettledOf(o) \cup {i} : ops'[j].amount = ops[j].amount
        BY <1>1, <1>2 DEF SettledOf, Executed, KeptRows
      <3>3. CentsOf(o)' = CentsOf(o) \cup new
        BY <1>0, <3>1, <3>2 DEF CentsOf
      <3>4. CentsOf(o) \cap new = {}
        BY <3>1 DEF CentsOf
      <3>5. IsFiniteSet(new) /\ Cardinality(new) = a
        BY <1>1, CentsOfOperation
      <3> HIDE DEF new
      <3>6. /\ Cardinality(CentsOf(o) \cup new) =
                 Cardinality(CentsOf(o)) + a - Cardinality(CentsOf(o) \cap new)
        BY <3>5, CentsFinite, FS_Union
      <3>7. Cardinality(CentsOf(o) \cap new) = 0
        BY <3>4, FS_EmptySet
      <3>8. Cardinality(CentsOf(o)') = Cardinality(CentsOf(o)) + a
        BY <1>1, <3>3, <3>6, <3>7, CentsFinite
      <3>9. refunded'[o] = refunded[o] + a
        BY <1>4, <1>9, <2>3
      <3> QED
        BY <3>8, <3>9 DEF SumsMatch
    <2> QED
      BY <2>2, <2>3
  <1> QED
    BY <1>8, <1>9

\* A step that starts or ends no booking.
LEMMA UnbookedStays ==
  ASSUME NEW t \in Thread, LeavesOthers(t), stage[t] # "booking", stage'[t] # "booking"
  PROVE  /\ Unbooked' = Unbooked
         /\ \A u \in Thread : \A i : BooksOp(u, i)' <=> BooksOp(u, i)
         /\ \A u \in Thread : \A i : BooksOp(u, i) => cmd'[u] = cmd[u]
  <1>1. \A u \in Thread : \A i : BooksOp(u, i)' <=> BooksOp(u, i)
    BY DEF BooksOp, LeavesOthers
  <1>2. \A u \in Thread : \A i : BooksOp(u, i) => cmd'[u] = cmd[u]
    BY DEF BooksOp, LeavesOthers
  <1> QED
    BY <1>1, <1>2, UnbookedMember

LEMMA CreateRefundBooks ==
  ASSUME Structure, SumsMatch, NEW t \in Thread, CreateRefund(t), Unbooked' = Unbooked
  PROVE  SumsMatch'
  <1> DEFINE draft == [ticket |-> cmd[t].ticket, order |-> OrderOf(t),
                       amount |-> cmd[t].amount, key |-> cmd[t].key,
                       status |-> "draft", version |-> 1]
  <1>1. ops' = Append(ops, draft) /\ refunded' = refunded /\ ops \in Seq(Operation)
    BY DEF CreateRefund, Structure, TypeOK
  <1>2. draft.status = "draft"
    OBVIOUS
  <1> HIDE DEF draft
  <1>3. /\ DOMAIN ops' = DOMAIN ops \cup {Len(ops) + 1} /\ ops'[Len(ops) + 1] = draft
        /\ \A i \in DOMAIN ops : ops'[i] = ops[i]
    BY <1>1
  <1>4. \A o \in Order : SettledOf(o)' = SettledOf(o)
    BY <1>2, <1>3 DEF SettledOf, Executed
  <1> QED
    BY <1>1, <1>3, <1>4, SumsStay

\* All other steps start and end no booking.
LEMMA QuietBooks ==
  ASSUME Structure, NEW t \in Thread,
         \/ Begin(t) \/ LockOrder(t) \/ LockKey(t) \/ Check(t) \/ Replay(t)
         \/ Refuse(t) \/ IterationFails(t) \/ CloseFails(t) \/ RecordStatus(t)
         \/ CreateTicket(t) \/ CreateRefund(t) \/ CloseTicket(t)
  PROVE  LeavesOthers(t) /\ stage[t] # "booking" /\ stage'[t] # "booking"
  <1>1. LeavesOthers(t)
    BY StepLeavesOthers, CreationLeavesOthers
  <1>2. ASSUME Finish(t) PROVE stage'[t] # "booking"
    BY <1>2, FinishFacts DEF Structure
  <1>3. stage[t] # "booking"
    BY DEF Begin, BeginCreateTicket, BeginCreateRefund, BeginDecision, BeginExecute,
           BeginReconcile, BeginCloseTicket, LockOrder, LockKey, Check, Replay,
           Refuse, IterationFails, CloseFails, RecordStatus, Commit, CreateTicket,
           CreateRefund, CloseTicket
  <1>4. stage'[t] # "booking"
    <2>1. CASE Begin(t)
      BY <2>1 DEF Begin, BeginCreateTicket, BeginCreateRefund, BeginDecision, BeginExecute,
                  BeginReconcile, BeginCloseTicket, Start, Structure, TypeOK
    <2>2. CASE LockOrder(t) \/ LockKey(t) \/ Check(t)
      BY <2>2 DEF LockOrder, AfterOrderLock, LockKey, AfterKeyLock, Check, Structure, TypeOK
    <2>3. CASE ~ (Begin(t) \/ LockOrder(t) \/ LockKey(t) \/ Check(t))
      BY <1>2, <2>3 DEF Replay, Refuse, IterationFails, CloseFails, RecordStatus, Commit,
                        CreateTicket, CreateRefund, CloseTicket
    <2> QED
      BY <2>1, <2>2, <2>3
  <1> QED
    BY <1>1, <1>3, <1>4

LEMMA QuietRows ==
  ASSUME NEW t \in Thread,
         \/ Begin(t) \/ LockOrder(t) \/ LockKey(t) \/ Check(t) \/ Replay(t)
         \/ Refuse(t) \/ IterationFails(t) \/ CloseFails(t) \/ RecordStatus(t)
         \/ CreateTicket(t) \/ CloseTicket(t)
  PROVE  UNCHANGED <<ops, refunded>>
  BY DEF Begin, BeginCreateTicket, BeginCreateRefund, BeginDecision, BeginExecute,
         BeginReconcile, BeginCloseTicket, Start, LockOrder, LockKey, Check, Replay,
         Refuse, IterationFails, CloseFails, RecordStatus, CreateTicket, CloseTicket,
         data

LEMMA BookingsInvariant == ASSUME OneDecider PROVE Spec => []BookingsInv
  <1>1. Init => BookingsInv
    BY DEF Init, BookingsInv
  <1>2. Structure /\ CapacityInv /\ StatusInv /\ BookingsInv /\ [Next]_vars => BookingsInv'
    <2> SUFFICES ASSUME Structure, HoldsOrderLock, StatusInv, BookingsInv, [Next]_vars
                 PROVE  BookingsInv'
      BY DEF CapacityInv
    <2>1. CASE UNCHANGED vars
      BY <2>1 DEF vars, data, BookingsInv, BooksOp
    <2>2. ASSUME NEW t \in Thread, WriteStatus(t) PROVE BookingsInv'
      <3>1. /\ stage[t] = "writing" /\ cmd[t].kind \in Decision \cup Payment /\ cmd' = cmd
            /\ stage' = [stage EXCEPT ![t] = "booking"] /\ cmd[t] \in Command
            /\ stage \in [Thread -> Stage]
        BY <2>2 DEF WriteStatus, Structure, TypeOK, Referential
      <3>2. PICK i : i = cmd[t].op
        OBVIOUS
      <3>3. i \in DOMAIN ops /\ KeptRows(i) /\ ops'[i].status = Target(cmd[t])
        BY <2>2, <3>2, WriteStatusFacts
      <3> SUFFICES ASSUME NEW u \in Thread, NEW j \in DOMAIN ops, BooksOp(u, j)'
                   PROVE  ops'[j].status = Target(cmd[u])
        BY <3>1, <3>3 DEF BookingsInv, KeptRows
      <3>4. CASE u = t
        BY <3>1, <3>2, <3>3, <3>4 DEF BooksOp
      <3>5. CASE u # t
        <4>1. BooksOp(u, j) /\ ops[j].status = Target(cmd[u]) /\ cmd[u] \in Command
          BY <3>1, <3>5 DEF BooksOp, BookingsInv, Structure, Referential
        <4>2. j # i
          <5> SUFFICES ASSUME j = i PROVE FALSE
            OBVIOUS
          <5>1. orderLock[ops[i].order] = u
            BY <4>1, BookerHoldsLock
          <5>2. cmd[t].kind \notin Payment
            BY <3>1, <3>2, <3>5, <5>1 DEF HoldsOrderLock, OrderLocking, OrderOf, Payment
          <5>3. ops[i].status \in {"draft", "pending_approval"}
            BY <3>1, <3>2, <5>2, SourceOfChange DEF StatusInv
          <5>4. Target(cmd[u]) \in {"executed", "unknown", "failed"}
            BY <4>1 DEF BooksOp, Payment, Target
          <5> QED
            BY <4>1, <5>3, <5>4
        <4> QED
          BY <3>3, <4>1, <4>2 DEF KeptRows
      <3> QED
        BY <3>4, <3>5
    <2>3. ASSUME NEW t \in Thread, Book(t) PROVE BookingsInv'
      <3>1. /\ DOMAIN ops' = DOMAIN ops /\ \A j \in DOMAIN ops : ops'[j].status = ops[j].status
            /\ cmd' = cmd
        BY <2>3, BookFacts DEF Book, KeptRows
      <3>2. \A u \in Thread : \A j : BooksOp(u, j)' => BooksOp(u, j)
        BY <2>3 DEF Book, BooksOp, Structure, TypeOK
      <3> QED
        BY <3>1, <3>2 DEF BookingsInv
    <2>4. ASSUME NEW t \in Thread,
                 \/ Begin(t) \/ LockOrder(t) \/ LockKey(t) \/ Check(t) \/ Replay(t)
                 \/ Refuse(t) \/ IterationFails(t) \/ CloseFails(t) \/ RecordStatus(t)
                 \/ CreateTicket(t) \/ CreateRefund(t) \/ CloseTicket(t)
          PROVE  BookingsInv'
      <3>1. /\ \A u \in Thread : \A i : BooksOp(u, i)' => BooksOp(u, i) /\ cmd'[u] = cmd[u]
        BY <2>4, QuietBooks, UnbookedStays
      <3>2. \A u \in Thread : \A i : BooksOp(u, i) => i \in DOMAIN ops
        BY DEF BooksOp, Structure, Referential
      <3>3. \A i \in DOMAIN ops : ops'[i] = ops[i]
        BY <2>4, QuietRows, CreationLeavesOthers
      <3>4. ASSUME NEW u \in Thread, NEW i, BooksOp(u, i)' PROVE ops'[i].status = Target(cmd[u])'
        <4>1. BooksOp(u, i) /\ cmd'[u] = cmd[u] /\ ops'[i] = ops[i] /\ i \in DOMAIN ops
          BY <3>1, <3>2, <3>3, <3>4
        <4> QED
          BY <4>1 DEF BookingsInv
      <3> QED
        BY <3>4 DEF BookingsInv
    <2> QED
      BY <2>1, <2>2, <2>3, <2>4 DEF Next
  <1> QED
    BY <1>1, <1>2, StructureInvariant, CapacityInvariant, StatusInvariant, PTL DEF Spec

LEMMA SumsInvariant == ASSUME OneDecider PROVE Spec => []SumsMatch
  <1>1. Init => SumsMatch
    <2> SUFFICES ASSUME Init, NEW o \in Order PROVE refunded[o] = Cardinality(CentsOf(o))
      BY DEF SumsMatch
    <2>1. CentsOf(o) = {}
      BY DEF Init, CentsOf, SettledOf, Executed
    <2> QED
      BY <2>1, FS_EmptySet DEF Init
  <1>2. Structure /\ CapacityInv /\ StatusInv /\ BookingsInv /\ SumsMatch /\ [Next]_vars
          => SumsMatch'
    <2> SUFFICES ASSUME Structure, HoldsOrderLock, StatusInv, BookingsInv, SumsMatch,
                        [Next]_vars
                 PROVE  SumsMatch'
      BY DEF CapacityInv
    <2>1. CASE UNCHANGED vars
      BY <2>1 DEF vars, data, SumsMatch, CentsOf, SettledOf, Executed, Unbooked
    <2>2. ASSUME NEW t \in Thread, WriteStatus(t) PROVE SumsMatch'
      BY <2>2, WriteStatusBooks
    <2>3. ASSUME NEW t \in Thread, Book(t) PROVE SumsMatch'
      BY <2>3, BookBooks
    <2>4. ASSUME NEW t \in Thread, CreateRefund(t) PROVE SumsMatch'
      BY <2>4, QuietBooks, UnbookedStays, CreateRefundBooks
    <2>5. ASSUME NEW t \in Thread,
                 \/ Begin(t) \/ LockOrder(t) \/ LockKey(t) \/ Check(t) \/ Replay(t)
                 \/ Refuse(t) \/ IterationFails(t) \/ CloseFails(t) \/ RecordStatus(t)
                 \/ CreateTicket(t) \/ CloseTicket(t)
          PROVE  SumsMatch'
      <3>1. UNCHANGED <<ops, refunded>> /\ Unbooked' = Unbooked
        BY <2>5, QuietRows, QuietBooks, UnbookedStays
      <3> QED
        BY <3>1 DEF SumsMatch, CentsOf, SettledOf, Executed
    <2> QED
      BY <2>1, <2>2, <2>3, <2>4, <2>5 DEF Next
  <1> QED
    BY <1>1, <1>2, StructureInvariant, CapacityInvariant, StatusInvariant, BookingsInvariant,
       PTL DEF Spec

\* While one thread decides, refunded of an order is the sum of its executed refunds
\* but the one a payment is about to book, however many threads execute and reconcile;
\* and it is the sum of them all whenever the order's lock is free.
THEOREM BooksMatch == ASSUME OneDecider PROVE Spec => []BooksMatchOperations
  <1>1. Structure /\ CapacityInv /\ SumsMatch => BooksMatchOperations
    BY SumsAreBooks DEF CapacityInv
  <1> QED
    BY <1>1, StructureInvariant, CapacityInvariant, SumsInvariant, PTL

-----------------------------------------------------------------------------
(* Drafts *)

\* A draft that passed the check and is not written yet still fits, and no refund of
\* its order is unknown: the order's lock is held from the check to the write.
DraftsFit ==
  \A t \in Thread :
    stage[t] = "writing" /\ cmd[t].kind = "create_refund"
      => ~ HasUnknown(OrderOf(t)) /\ WithinCapacity(OrderOf(t), cmd[t].amount)

\* A step that touches only the order whose lock its thread holds.
LEMMA DraftsStay ==
  ASSUME Structure, HoldsOrderLock, DraftsFit, NEW t \in Thread, LeavesOthers(t),
         \A o \in Order : orderLock[o] # t
           => (HasUnknown(o)' => HasUnknown(o)) /\ refunded'[o] = refunded[o],
         stage'[t] = "writing" /\ cmd'[t].kind = "create_refund"
           => ~ HasUnknown(OrderOf(t))' /\ WithinCapacity(OrderOf(t), cmd[t].amount)'
  PROVE  DraftsFit'
  <1> SUFFICES ASSUME NEW u \in Thread \ {t}, stage'[u] = "writing",
                      cmd'[u].kind = "create_refund"
               PROVE  ~ HasUnknown(OrderOf(u))' /\ WithinCapacity(OrderOf(u), cmd[u].amount)'
    BY DEF DraftsFit
  <1>1. stage[u] = "writing" /\ cmd'[u] = cmd[u] /\ cmd[u].kind \in OrderLocking
    BY DEF LeavesOthers, OrderLocking
  <1>2. OrderOf(u) \in Order /\ orderLock[OrderOf(u)] = u
    BY <1>1, OrderOfType DEF HoldsOrderLock
  <1>3. OrderOf(u)' = OrderOf(u)
    BY <1>1, OrderOfStable
  <1>4. ~ HasUnknown(OrderOf(u)) /\ WithinCapacity(OrderOf(u), cmd[u].amount)
    BY <1>1 DEF DraftsFit
  <1>5. (HasUnknown(OrderOf(u))' => HasUnknown(OrderOf(u)))
        /\ refunded'[OrderOf(u)] = refunded[OrderOf(u)]
    <2>1. PICK o \in Order : o = OrderOf(u)
      BY <1>2
    <2>2. (HasUnknown(o)' => HasUnknown(o)) /\ refunded'[o] = refunded[o]
      BY <1>2, <2>1
    <2> QED
      BY <1>3, <2>1, <2>2 DEF HasUnknown
  <1> QED
    BY <1>1, <1>3, <1>4, <1>5 DEF WithinCapacity

LEMMA QuietDrafts ==
  ASSUME Structure, HoldsOrderLock, DraftsFit, NEW t \in Thread,
         \/ Begin(t) \/ LockOrder(t) \/ LockKey(t) \/ Replay(t) \/ Refuse(t)
         \/ IterationFails(t) \/ CloseFails(t) \/ RecordStatus(t) \/ CloseTicket(t)
  PROVE  DraftsFit'
  <1>1. LeavesOthers(t)
    BY StepLeavesOthers
  <1>2. ops' = ops /\ refunded' = refunded
    BY DEF Begin, BeginCreateTicket, BeginCreateRefund, BeginDecision, BeginExecute,
           BeginReconcile, BeginCloseTicket, Start, LockOrder, LockKey, Replay, Refuse,
           IterationFails, CloseFails, RecordStatus, CloseTicket, data
  <1>3. stage'[t] = "writing" => cmd'[t].kind # "create_refund"
    <2>1. ASSUME Finish(t) PROVE stage'[t] # "writing"
      BY <2>1, FinishFacts DEF Structure
    <2>2. ASSUME NEW c, NEW st, Start(t, c, st) PROVE stage'[t] = st /\ cmd'[t] = c
      BY <2>2 DEF Start, Structure, TypeOK
    <2>3. CASE Begin(t)
      <3>1. ASSUME NEW kind \in Decision, NEW i \in DOMAIN ops, BeginDecision(t, kind, i)
            PROVE  cmd'[t].kind # "create_refund"
        BY <2>2, <3>1 DEF BeginDecision, Decision
      <3>2. ASSUME NEW k, NEW n, NEW a,
                   \/ BeginCreateTicket(t, k, n, a) \/ BeginCreateRefund(t, k, n, a)
                   \/ BeginExecute(t, n, a) \/ BeginReconcile(t, n, a) \/ BeginCloseTicket(t, n)
            PROVE  stage'[t] # "writing"
        BY <2>2, <3>2 DEF BeginCreateTicket, BeginCreateRefund, BeginExecute, BeginReconcile,
                          BeginCloseTicket
      <3> QED
        BY <2>3, <3>1, <3>2 DEF Begin
    <2>4. CASE ~ Begin(t)
      BY <2>1, <2>4 DEF LockOrder, AfterOrderLock, LockKey, AfterKeyLock, Replay, Refuse,
                        IterationFails, CloseFails, RecordStatus, CloseTicket, Commit,
                        Structure, TypeOK
    <2> QED
      BY <2>3, <2>4
  <1>4. \A o : HasUnknown(o)' = HasUnknown(o)
    BY <1>2 DEF HasUnknown
  <1> QED
    BY <1>1, <1>2, <1>3, <1>4, DraftsStay

LEMMA CheckDrafts ==
  ASSUME Structure, HoldsOrderLock, DraftsFit, NEW t \in Thread, Check(t)
  PROVE  DraftsFit'
  <1>1. LeavesOthers(t)
    BY StepLeavesOthers
  <1>2. UNCHANGED <<ops, refunded, tickets, cmd>> /\ Allowed(t)
    BY DEF Check, data
  <1>3. \A o : HasUnknown(o)' = HasUnknown(o)
    BY <1>2 DEF HasUnknown
  <1>4. ASSUME cmd[t].kind = "create_refund"
        PROVE  ~ HasUnknown(OrderOf(t))' /\ WithinCapacity(OrderOf(t), cmd[t].amount)'
    <2>1. ~ HasUnknown(OrderOf(t)) /\ WithinCapacity(OrderOf(t), cmd[t].amount)
      BY <1>2, <1>4 DEF Allowed, RefundAllowed
    <2> QED
      BY <1>2, <2>1 DEF HasUnknown, WithinCapacity, OrderOf
  <1> QED
    BY <1>1, <1>2, <1>3, <1>4, DraftsStay

LEMMA CreationDrafts ==
  ASSUME Structure, HoldsOrderLock, DraftsFit, NEW t \in Thread,
         CreateTicket(t) \/ CreateRefund(t)
  PROVE  DraftsFit'
  <1>1. LeavesOthers(t) /\ stage'[t] = "idle" /\ refunded' = refunded
    BY CreationLeavesOthers DEF CreateTicket, CreateRefund
  <1>2. ASSUME NEW o, HasUnknown(o)' PROVE HasUnknown(o)
    <2>1. CASE CreateTicket(t)
      BY <1>2, <2>1 DEF CreateTicket, HasUnknown
    <2>2. CASE CreateRefund(t)
      <3> DEFINE draft == [ticket |-> cmd[t].ticket, order |-> OrderOf(t),
                           amount |-> cmd[t].amount, key |-> cmd[t].key,
                           status |-> "draft", version |-> 1]
      <3>1. ops' = Append(ops, draft) /\ ops \in Seq(Operation) /\ draft.status = "draft"
        BY <2>2 DEF CreateRefund, Structure, TypeOK
      <3> HIDE DEF draft
      <3>2. \A i \in DOMAIN ops' : \/ i \in DOMAIN ops /\ ops'[i] = ops[i]
                                   \/ ops'[i] = draft
        BY <3>1
      <3> QED
        BY <1>2, <3>1, <3>2 DEF HasUnknown
    <2> QED
      BY <2>1, <2>2
  <1> QED
    BY <1>1, <1>2, DraftsStay

\* Only a payment makes a status unknown or books, and it holds the order's lock.
LEMMA WriteStatusDrafts ==
  ASSUME Structure, HoldsOrderLock, DraftsFit, NEW t \in Thread, WriteStatus(t)
  PROVE  DraftsFit'
  <1>0. PICK i : i = cmd[t].op
    OBVIOUS
  <1>1. /\ LeavesOthers(t) /\ stage[t] = "writing" /\ stage'[t] = "booking"
        /\ refunded' = refunded /\ cmd[t].kind \in Decision \cup Payment
    BY StepLeavesOthers DEF WriteStatus, Structure, TypeOK
  <1>2. i \in DOMAIN ops /\ KeptRows(i) /\ ops'[i].status = Target(cmd[t])
    BY <1>0, WriteStatusFacts
  <1>3. ASSUME NEW o \in Order, orderLock[o] # t, HasUnknown(o)' PROVE HasUnknown(o)
    <2>1. PICK j \in DOMAIN ops : ops'[j].order = o /\ ops'[j].status = "unknown"
      BY <1>2, <1>3 DEF HasUnknown, KeptRows
    <2>2. CASE j # i
      BY <1>2, <2>1, <2>2 DEF HasUnknown, KeptRows
    <2>3. CASE j = i
      <3>1. ops[i].order = o /\ Target(cmd[t]) = "unknown"
        BY <1>2, <2>1, <2>3 DEF KeptRows
      <3>2. cmd[t].kind \in Payment
        BY <1>1, <3>1 DEF Target, Decision
      <3> QED
        BY <1>0, <1>1, <1>3, <3>1, <3>2 DEF HoldsOrderLock, OrderLocking, OrderOf, Payment
    <2> QED
      BY <2>2, <2>3
  <1> QED
    BY <1>1, <1>3, DraftsStay

LEMMA BookDrafts ==
  ASSUME Structure, HoldsOrderLock, DraftsFit, NEW t \in Thread, Book(t)
  PROVE  DraftsFit'
  <1>0. PICK i, cents : i = cmd[t].op /\ cents = Booked(cmd[t], ops[i])
    OBVIOUS
  <1>1. /\ LeavesOthers(t) /\ stage[t] = "booking" /\ stage'[t] = "recording"
        /\ i \in DOMAIN ops /\ ops[i].order \in Order /\ refunded \in [Order -> Nat]
        /\ cents # 0 => cmd[t].kind \in Payment
    BY <1>0, StepLeavesOthers, BookedType DEF Book, Structure, TypeOK, Referential
  <1>2. /\ KeptRows(i) /\ \A j \in DOMAIN ops : ops'[j].status = ops[j].status
        /\ refunded' = [refunded EXCEPT ![ops[i].order] = refunded[ops[i].order] + cents]
    BY <1>0, BookFacts
  <1>3. \A o \in Order : HasUnknown(o)' => HasUnknown(o)
    BY <1>2 DEF HasUnknown, KeptRows
  <1>4. ASSUME NEW o \in Order, orderLock[o] # t PROVE refunded'[o] = refunded[o]
    <2>1. CASE cents = 0
      BY <1>1, <1>2, <2>1
    <2>2. CASE cents # 0
      <3>1. orderLock[ops[i].order] = t
        BY <1>0, <1>1, <2>2 DEF HoldsOrderLock, OrderLocking, OrderOf, Payment
      <3> QED
        BY <1>1, <1>2, <1>4, <3>1
    <2> QED
      BY <2>1, <2>2
  <1> QED
    BY <1>1, <1>3, <1>4, DraftsStay

LEMMA DraftsInvariant == Spec => []DraftsFit
  <1>1. Init => DraftsFit
    BY DEF Init, DraftsFit
  <1>2. Structure /\ CapacityInv /\ DraftsFit /\ [Next]_vars => DraftsFit'
    <2> SUFFICES ASSUME Structure, HoldsOrderLock, DraftsFit, [Next]_vars PROVE DraftsFit'
      BY DEF CapacityInv
    <2>1. CASE UNCHANGED vars
      BY <2>1 DEF vars, data, DraftsFit, HasUnknown, WithinCapacity, OrderOf
    <2>2. ASSUME NEW t \in Thread, Check(t) PROVE DraftsFit'
      BY <2>2, CheckDrafts
    <2>3. ASSUME NEW t \in Thread, CreateTicket(t) \/ CreateRefund(t) PROVE DraftsFit'
      BY <2>3, CreationDrafts
    <2>4. ASSUME NEW t \in Thread, WriteStatus(t) \/ Book(t) PROVE DraftsFit'
      BY <2>4, WriteStatusDrafts, BookDrafts
    <2>5. ASSUME NEW t \in Thread,
                 \/ Begin(t) \/ LockOrder(t) \/ LockKey(t) \/ Replay(t) \/ Refuse(t)
                 \/ IterationFails(t) \/ CloseFails(t) \/ RecordStatus(t) \/ CloseTicket(t)
          PROVE  DraftsFit'
      BY <2>5, QuietDrafts
    <2> QED
      BY <2>1, <2>2, <2>3, <2>4, <2>5 DEF Next
  <1> QED
    BY <1>1, <1>2, StructureInvariant, CapacityInvariant, PTL DEF Spec

-----------------------------------------------------------------------------
(* The in-memory service implements the ledger of refunds *)

\* The ledger as a function of the operations.
RefundOf(row) ==
  [order |-> row.order, amount |-> row.amount, state |-> ledgerState[row.status]]

ViewOf(q) ==
  [k \in RefundKey |->
     IF {i \in DOMAIN q : q[i].key = k} = {} THEN Unused
     ELSE RefundOf(q[CHOOSE i \in {i \in DOMAIN q : q[i].key = k} : TRUE])]

UniqueKeys(q) == \A i, j \in DOMAIN q : q[i].key = q[j].key => i = j

LEMMA ViewIsLedger == refundOfKey = ViewOf(ops) /\ refundOfKey' = ViewOf(ops')
  BY DEF refundOfKey, ViewOf, OpsOfKey, RefundOf

LEMMA ViewIsFunction ==
  ASSUME NEW q
  PROVE  ViewOf(q) = [k \in RefundKey |-> ViewOf(q)[k]]
  BY DEF ViewOf

LEMMA RefundFields ==
  ASSUME NEW row
  PROVE  /\ RefundOf(row).order = row.order /\ RefundOf(row).amount = row.amount
         /\ RefundOf(row).state = ledgerState[row.status]
  BY DEF RefundOf

LEMMA ViewOfRow ==
  ASSUME NEW q, UniqueKeys(q), NEW i \in DOMAIN q, q[i].key \in RefundKey
  PROVE  ViewOf(q)[q[i].key] = RefundOf(q[i])
  <1> DEFINE S == {j \in DOMAIN q : q[j].key = q[i].key}
  <1>1. S = {i}
    BY DEF UniqueKeys
  <1>2. (CHOOSE j \in S : TRUE) = i
    BY <1>1
  <1> QED
    BY <1>1, <1>2 DEF ViewOf

LEMMA ViewOfNoRow ==
  ASSUME NEW q, NEW k \in RefundKey, \A i \in DOMAIN q : q[i].key # k
  PROVE  ViewOf(q)[k] = Unused
  <1>1. {i \in DOMAIN q : q[i].key = k} = {}
    OBVIOUS
  <1> QED
    BY <1>1 DEF ViewOf

LEMMA OperationKeys ==
  ASSUME KeysInv
  PROVE  UniqueKeys(ops)
  <1> SUFFICES ASSUME NEW i \in DOMAIN ops, NEW j \in DOMAIN ops, ops[i].key = ops[j].key
               PROVE  i = j
    BY DEF UniqueKeys
  <1> DEFINE record(n) == [key |-> ops[n].key, hash |-> <<ops[n].ticket, ops[n].amount>>, id |-> n]
  <1>1. record(i) \in records /\ record(j) \in records
    BY DEF KeysInv, OneObjectPerKey
  <1>2. record(i) = record(j)
    BY <1>1 DEF KeysInv, OneObjectPerKey
  <1> QED
    BY <1>2

\* What the ledger knows of an operation.
LEMMA LedgerRow ==
  ASSUME Structure, KeysInv, NEW i \in DOMAIN ops
  PROVE  /\ ops[i].key \in RefundKey /\ ops[i].order \in Order /\ ops[i].amount \in Amount
         /\ refundOfKey[ops[i].key] = RefundOf(ops[i])
         /\ RefundOf(ops[i]) \in Ledger!Refund
         /\ ops[i].key \in Ledger!Used
  <1>1. /\ ops[i].key \in RefundKey /\ ops[i].order \in Order /\ ops[i].amount \in Amount
        /\ ops[i].status \in OperationStatus
    BY OperationFields
  <1>2. refundOfKey[ops[i].key] = RefundOf(ops[i])
    BY <1>1, OperationKeys, ViewOfRow, ViewIsLedger
  <1>3. RefundOf(ops[i]) \in Ledger!Refund
    BY <1>1 DEF RefundOf, ledgerState, OperationStatus, Ledger!Refund, Ledger!State
  <1> QED
    BY <1>1, <1>2, <1>3, UnusedAssumption DEF Ledger!Used

\* A key that the ledger uses is the key of an operation.
LEMMA UsedKey ==
  ASSUME NEW k \in Ledger!Used
  PROVE  \E i \in DOMAIN ops : ops[i].key = k
  BY ViewOfNoRow, ViewIsLedger DEF Ledger!Used

\* While no booking of an order is under way, the ledger counts no more cents paid for
\* it than the books do.
LEMMA LedgerPays ==
  ASSUME Structure, KeysInv, SumsMatch, NEW o \in Order, NEW a \in Nat,
         WithinCapacity(o, a), SettledOf(o) = Executed(o)
  PROVE  Ledger!Fits(o, a)
  <1> DEFINE S == CentsOf(o)
             T == Ledger!PaidCents(o)
             f == [x \in S |-> <<ops[x[1]].key, x[2]>>]
  <1>1. \A i \in DOMAIN ops : RefundOf(ops[i]).state = "paid" <=> ops[i].status = "executed"
    BY OperationFields DEF RefundOf, ledgerState, OperationStatus
  <1>2. ASSUME NEW x \in S PROVE f[x] \in T
    <2>1. PICK i \in Executed(o) : x \in {i} \X (1 .. ops[i].amount)
      BY DEF CentsOf
    <2>2. /\ refundOfKey[ops[i].key] = RefundOf(ops[i]) /\ ops[i].key \in Ledger!Used
          /\ RefundOf(ops[i]).order = o /\ RefundOf(ops[i]).state = "paid"
          /\ RefundOf(ops[i]).amount = ops[i].amount
      BY <1>1, LedgerRow DEF Executed, RefundOf
    <2>3. f[x] = <<ops[i].key, x[2]>> /\ x[2] \in 1 .. ops[i].amount
      BY <2>1
    <2> QED
      BY <2>2, <2>3 DEF Ledger!PaidCents
  <1>3. ASSUME NEW y \in T PROVE \E x \in S : f[x] = y
    <2>1. PICK k \in Ledger!Used : /\ refundOfKey[k].order = o /\ refundOfKey[k].state = "paid"
                                   /\ y \in {k} \X (1 .. refundOfKey[k].amount)
      BY DEF Ledger!PaidCents
    <2>2. PICK i \in DOMAIN ops : ops[i].key = k
      BY UsedKey
    <2>3. i \in Executed(o) /\ refundOfKey[k].amount = ops[i].amount
      BY <1>1, <2>1, <2>2, LedgerRow, RefundFields DEF Executed
    <2>4. PICK c \in 1 .. ops[i].amount : y = <<k, c>>
      BY <2>1, <2>3
    <2>5. <<i, c>> \in S
      BY <2>3, <2>4 DEF CentsOf
    <2> QED
      BY <2>2, <2>4, <2>5
  <1>4. f \in Surjection(S, T)
    BY <1>2, <1>3 DEF Surjection
  <1>5. IsFiniteSet(S) /\ Cardinality(S) \in Nat /\ refunded[o] = Cardinality(S)
    BY CentsFinite DEF SumsMatch
  <1>6. IsFiniteSet(T) /\ Cardinality(T) <= Cardinality(S)
    BY <1>4, <1>5, FS_Surjection
  <1>7. Cardinality(T) \in Nat
    BY <1>6, FS_CardinalityType
  <1> HIDE DEF S, T, f
  <1>8. Cardinality(S) + a <= Paid[o] /\ Paid[o] \in Nat
    BY <1>5, OrderAssumption DEF WithinCapacity
  <1>9. Cardinality(T) + a <= Paid[o]
    BY <1>5, <1>6, <1>7, <1>8
  <1>10. Ledger!Cardinality(T) = Cardinality(T)
    BY DEF Ledger!Cardinality, Cardinality
  <1> QED
    BY <1>9, <1>10 DEF Ledger!Fits, T

\* The write of a draft proposes the refund of its key.
LEMMA DraftProposes ==
  ASSUME Structure, HoldsOrderLock, SumsMatch, KeysInv, KeysInv', DraftsFit,
         NEW t \in Thread, CreateRefund(t)
  PROVE  Ledger!Next
  <1>0. PICK k, o, a : k = cmd[t].key /\ o = OrderOf(t) /\ a = cmd[t].amount
    OBVIOUS
  <1> DEFINE row == [ticket |-> cmd[t].ticket, order |-> o, amount |-> a, key |-> k,
                     status |-> "draft", version |-> 1]
             id == Len(ops) + 1
  <1>1. /\ ops' = Append(ops, row) /\ stage[t] = "writing" /\ cmd[t].kind = "create_refund"
    BY <1>0 DEF CreateRefund, Commit
  <1>2. cmd[t] \in Command /\ KeyUnused(t)
    BY <1>1 DEF Structure, Referential, KeysInv, Creation
  <1>3. k \in RefundKey /\ o \in Order /\ a \in Amount /\ a \in Nat
    BY <1>0, <1>1, <1>2, CommandFields, OrderOfType, RefundAmountAssumption DEF OrderLocking
  <1>4. RefundOf(row) = [order |-> o, amount |-> a, state |-> "proposed"] /\ row.key = k
    BY DEF RefundOf, ledgerState
  <1>5. \A i \in DOMAIN ops : ops[i].key # k
    <2>1. \A r \in records : r.key # k
      BY <1>0, <1>2 DEF KeyUnused, RecordOf
    <2> QED
      BY <2>1 DEF KeysInv, OneObjectPerKey
  <1>6. refundOfKey[k] = Unused
    BY <1>3, <1>5, ViewOfNoRow, ViewIsLedger
  <1>7. \A j \in Ledger!Used : refundOfKey[j].order = o => refundOfKey[j].state # "uncertain"
    <2> SUFFICES ASSUME NEW j \in Ledger!Used, refundOfKey[j].order = o
                 PROVE  refundOfKey[j].state # "uncertain"
      OBVIOUS
    <2>1. PICK i \in DOMAIN ops : ops[i].key = j
      BY UsedKey
    <2>2. ops[i].order = o /\ refundOfKey[j].state = ledgerState[ops[i].status]
      BY <2>1, LedgerRow, RefundFields
    <2>3. ops[i].status # "unknown"
      BY <1>0, <1>1, <2>2 DEF DraftsFit, HasUnknown
    <2> QED
      BY <2>2, <2>3, OperationFields DEF ledgerState, OperationStatus
  <1>8. Ledger!Fits(o, a)
    <2>1. SettledOf(o) = Executed(o)
      BY <1>0, <1>1, AllBooked DEF HoldsOrderLock, OrderLocking
    <2> QED
      BY <1>0, <1>1, <1>3, <2>1, LedgerPays DEF DraftsFit
  <1>9. refundOfKey' = [refundOfKey EXCEPT ![k] = [order |-> o, amount |-> a, state |-> "proposed"]]
    <2>1. ops \in Seq(Operation)
      BY DEF Structure, TypeOK
    <2> HIDE DEF row
    <2>2. /\ DOMAIN ops' = DOMAIN ops \cup {id} /\ id \notin DOMAIN ops /\ ops'[id] = row
          /\ \A i \in DOMAIN ops : ops'[i] = ops[i]
      BY <1>1, <2>1
    <2>3. UniqueKeys(ops) /\ UniqueKeys(ops')
      BY <1>4, <1>5, <2>2, OperationKeys DEF UniqueKeys
    <2>4. ViewOf(ops')[k] = RefundOf(row)
      BY <1>3, <1>4, <2>2, <2>3, ViewOfRow
    <2>5. ASSUME NEW j \in RefundKey, j # k PROVE ViewOf(ops')[j] = ViewOf(ops)[j]
      <3>1. CASE \E i \in DOMAIN ops : ops[i].key = j
        BY <3>1, <2>2, <2>3, <2>5, ViewOfRow
      <3>2. CASE \A i \in DOMAIN ops : ops[i].key # j
        <4>1. \A i \in DOMAIN ops' : ops'[i].key # j
          BY <3>2, <2>2, <2>5, <1>4
        <4> QED
          BY <3>2, <4>1, ViewOfNoRow
      <3> QED
        BY <3>1, <3>2
    <2> QED
      BY <1>4, <2>4, <2>5, ViewIsLedger, ViewIsFunction
  <1> QED
    BY <1>3, <1>6, <1>7, <1>8, <1>9 DEF Ledger!Next, Ledger!Propose

\* The write of a status moves the refund of the operation's key, or is submit.
LEMMA StatusMoves ==
  ASSUME Structure, CapacityInv, StatusInv, SumsMatch, KeysInv,
         NEW t \in Thread, WriteStatus(t)
  PROVE  Ledger!Next \/ refundOfKey' = refundOfKey
  <1>0. PICK i, k, to : i = cmd[t].op /\ k = ops[i].key /\ to = Target(cmd[t])
    OBVIOUS
  <1> DEFINE from == ops[i].status
             moved == [refundOfKey EXCEPT ![k].state = ledgerState[to]]
  <1>1. /\ i \in DOMAIN ops /\ <<from, to>> \in OperationTransitions
        /\ cmd[t] \in Command /\ cmd[t].kind \in Decision \cup Payment
        /\ ops[i] \in Operation /\ stage[t] = "writing"
    BY <1>0, BookedType DEF WriteStatus, StatusInv
  <1>2. /\ k \in RefundKey /\ ops[i].order \in Order /\ ops[i].amount \in Nat
        /\ refundOfKey[k] = RefundOf(ops[i]) /\ k \in Ledger!Used
    BY <1>0, <1>1, LedgerRow, RefundAmountAssumption
  <1>3. refundOfKey' = moved
    <2>1. /\ DOMAIN ops' = DOMAIN ops
          /\ \A j \in DOMAIN ops : ops'[j].key = ops[j].key /\ (j # i => ops'[j] = ops[j])
          /\ ops'[i].order = ops[i].order /\ ops'[i].amount = ops[i].amount
      BY <1>0, <1>1, WriteStatusFacts DEF KeptRows
    <2>2. ops'[i].status = to
      BY <1>0, WriteStatusFacts
    <2>3. UniqueKeys(ops) /\ UniqueKeys(ops')
      BY <2>1, OperationKeys DEF UniqueKeys
    <2>4. ViewOf(ops')[k] = RefundOf(ops'[i])
      BY <1>0, <1>1, <1>2, <2>1, <2>3, ViewOfRow
    <2>5. RefundOf(ops'[i]) = [RefundOf(ops[i]) EXCEPT !.state = ledgerState[to]]
      BY <2>1, <2>2 DEF RefundOf
    <2>6. ASSUME NEW j \in RefundKey, j # k PROVE ViewOf(ops')[j] = ViewOf(ops)[j]
      <3>1. CASE \E n \in DOMAIN ops : ops[n].key = j
        BY <3>1, <1>0, <2>1, <2>3, <2>6, ViewOfRow
      <3>2. CASE \A n \in DOMAIN ops : ops[n].key # j
        BY <3>2, <2>1, ViewOfNoRow
      <3> QED
        BY <3>1, <3>2
    <2> QED
      BY <1>2, <2>4, <2>5, <2>6, ViewIsLedger, ViewIsFunction
  <1>4. refundOfKey[k].state = ledgerState[from]
    BY <1>2 DEF RefundOf
  <1>5. to = "executed" => Ledger!Fits(refundOfKey[k].order, refundOfKey[k].amount)
    <2>1. to = "executed" => cmd[t].kind \in Payment /\ cmd[t].result = "success"
      BY <1>0, <1>1, TargetType
    <2>2. cmd[t].kind \in Payment => OrderOf(t) = ops[i].order
      BY <1>0 DEF OrderOf, Payment
    <2>3. to = "executed" => WithinCapacity(ops[i].order, ops[i].amount)
      BY <1>0, <1>1, <2>1, <2>2 DEF CapacityInv, PaymentFits, ToBook
    <2>4. to = "executed" => SettledOf(ops[i].order) = Executed(ops[i].order)
      <3>1. to = "executed" => orderLock[ops[i].order] = t
        BY <1>1, <2>1, <2>2 DEF CapacityInv, HoldsOrderLock, OrderLocking
      <3> QED
        BY <1>1, <3>1, AllBooked DEF CapacityInv
    <2> QED
      BY <1>2, <2>3, <2>4, LedgerPays DEF RefundOf
  <1> HIDE DEF from
  <1>6. \/ from = "draft" /\ to = "pending_approval"
        \/ from \in {"draft", "pending_approval"} /\ to = "rejected"
        \/ from = "pending_approval" /\ to = "approved"
        \/ from = "approved" /\ to \in {"executed", "unknown"}
        \/ from = "unknown" /\ to \in {"executed", "failed"}
    BY <1>1 DEF OperationTransitions
  <1>7. CASE from = "draft" /\ to = "pending_approval"
    <2>1. ledgerState[to] = refundOfKey[k].state
      BY <1>4, <1>7 DEF ledgerState
    <2>2. [RefundOf(ops[i]) EXCEPT !.state = RefundOf(ops[i]).state] = RefundOf(ops[i])
      BY DEF RefundOf
    <2> QED
      BY <1>2, <1>3, <2>1, <2>2, ViewIsLedger, ViewIsFunction
  <1>8. CASE ~ (from = "draft" /\ to = "pending_approval")
    <2>1. \/ /\ ledgerState[from] = "proposed"
             /\ ledgerState[to] \in {"authorised", "refused"}
          \/ /\ ledgerState[from] = "authorised"
             /\ ledgerState[to] = "uncertain"
          \/ /\ ledgerState[from] = "uncertain"
             /\ ledgerState[to] = "unpaid"
          \/ /\ ledgerState[from] \in {"authorised", "uncertain"}
             /\ ledgerState[to] = "paid" /\ to = "executed"
      BY <1>6, <1>8 DEF ledgerState
    <2> DEFINE a == ledgerState[from]
               b == ledgerState[to]
    <2>2. Ledger!Move(k, a, b)
      BY <1>2, <1>3, <1>4 DEF Ledger!Move
    <2> HIDE DEF a, b, moved
    <2>3. \/ Ledger!Authorise(k) \/ Ledger!Decline(k) \/ Ledger!PayOut(k)
          \/ Ledger!LoseTrack(k) \/ Ledger!SettlePaid(k) \/ Ledger!SettleUnpaid(k)
      BY <1>5, <2>1, <2>2
      DEF a, b, Ledger!Authorise, Ledger!Decline, Ledger!PayOut,
          Ledger!LoseTrack, Ledger!SettlePaid, Ledger!SettleUnpaid
    <2> QED
      BY <1>2, <2>3 DEF Ledger!Next
  <1> QED
    BY <1>7, <1>8

\* What follows a status does not concern the ledger.
LEMMA BookMovesNothing ==
  ASSUME Structure, NEW t \in Thread, Book(t)
  PROVE  refundOfKey' = refundOfKey
  <1>1. /\ DOMAIN ops' = DOMAIN ops
        /\ \A j \in DOMAIN ops : ops'[j].key = ops[j].key /\ RefundOf(ops'[j]) = RefundOf(ops[j])
    BY BookFacts DEF KeptRows, RefundOf
  <1>2. ASSUME NEW k \in RefundKey PROVE ViewOf(ops')[k] = ViewOf(ops)[k]
    <2> DEFINE S == {i \in DOMAIN ops : ops[i].key = k}
    <2>1. {i \in DOMAIN ops' : ops'[i].key = k} = S
      BY <1>1
    <2>2. CASE S = {}
      BY <2>1, <2>2 DEF ViewOf
    <2>3. CASE S # {}
      <3>1. PICK i : i = CHOOSE j \in S : TRUE
        OBVIOUS
      <3>2. i \in DOMAIN ops
        BY <2>3, <3>1
      <3>3. ViewOf(ops)[k] = RefundOf(ops[i])
        BY <2>3, <3>1 DEF ViewOf
      <3>4. ViewOf(ops')[k] = RefundOf(ops'[i])
        BY <2>1, <2>3, <3>1 DEF ViewOf
      <3> QED
        BY <1>1, <3>2, <3>3, <3>4
    <2> QED
      BY <2>2, <2>3
  <1>3. ViewOf(ops') = ViewOf(ops)
    BY <1>2, ViewIsFunction, Zenon
  <1> QED
    BY <1>3, ViewIsLedger

\* While one thread decides, every command that writes is one step of the ledger or
\* none, whatever other threads do between its check and its write.
THEOREM LedgerImplemented == ASSUME OneDecider PROVE Spec => ImplementsLedger
  <1>1. Init => Ledger!Init
    <2> SUFFICES ASSUME Init PROVE refundOfKey = [k \in RefundKey |-> Unused]
      BY DEF Ledger!Init
    <2>1. \A k : OpsOfKey(k) = {}
      BY DEF Init, OpsOfKey
    <2> QED
      BY <2>1 DEF refundOfKey
  <1>2. Structure /\ CapacityInv /\ StatusInv /\ SumsMatch /\ KeysInv /\ KeysInv'
          /\ DraftsFit /\ [Next]_vars => [Ledger!Next]_refundOfKey
    <2> SUFFICES ASSUME Structure, CapacityInv, StatusInv, SumsMatch, KeysInv,
                        KeysInv', DraftsFit, [Next]_vars
                 PROVE  Ledger!Next \/ refundOfKey' = refundOfKey
      OBVIOUS
    <2>1. CASE ops' = ops
      BY <2>1, ViewIsLedger
    <2>2. ASSUME NEW t \in Thread,
                 \/ Begin(t) \/ LockOrder(t) \/ LockKey(t) \/ Check(t) \/ Replay(t)
                 \/ Refuse(t) \/ IterationFails(t) \/ CloseFails(t) \/ RecordStatus(t)
                 \/ CreateTicket(t) \/ CloseTicket(t)
          PROVE  ops' = ops
      BY <2>2, QuietRows
    <2>3. ASSUME NEW t \in Thread, CreateRefund(t) PROVE Ledger!Next
      BY <2>3, DraftProposes DEF CapacityInv
    <2>4. ASSUME NEW t \in Thread, WriteStatus(t)
          PROVE  Ledger!Next \/ refundOfKey' = refundOfKey
      BY <2>4, StatusMoves
    <2>5. ASSUME NEW t \in Thread, Book(t) PROVE refundOfKey' = refundOfKey
      BY <2>5, BookMovesNothing
    <2> QED
      BY <2>1, <2>2, <2>3, <2>4, <2>5 DEF Next, vars, data
  <1> QED
    BY <1>1, <1>2, StructureInvariant, CapacityInvariant, StatusInvariant, SumsInvariant,
       KeysInvariant, DraftsInvariant, PTL DEF Spec, ImplementsLedger, Ledger!Spec

-----------------------------------------------------------------------------
(* The audit of operations *)

\* The events of an operation, and those of its changes of status that are written
\* and not recorded yet.
Events(i) == {opAudit[i][e] : e \in DOMAIN opAudit[i]}
Recording(t, i) == stage[t] \in {"booking", "recording"} /\ cmd[t].op = i
Pending(t) == [before |-> before[t], after |-> Target(cmd[t])]
AllEvents(i) == Events(i) \cup {Pending(t) : t \in {u \in Thread : Recording(u, i)}}

\* A status is never reached again: every transition goes up in rank.
Rank == [draft |-> 0, pending_approval |-> 1, approved |-> 2, rejected |-> 2,
         unknown |-> 3, executed |-> 4, failed |-> 4]

\* A set of events that leads to a status.
PathTo(E, status) ==
  /\ \A e \in E : \/ e.before = "none"
                  \/ /\ <<e.before, e.after>> \in OperationTransitions
                     /\ Rank[e.before] < Rank[status]
  /\ {e.after : e \in E} \ {e.before : e \in E} = {status}

Distinct(q) == \A a, b \in DOMAIN q : q[a] = q[b] => a = b

\* Recorded and pending events together are one path to the status, and no event is
\* there twice.
AuditOf(i) ==
  /\ PathTo(AllEvents(i), ops[i].status)
  /\ Distinct(opAudit[i])
  /\ \A t \in Thread : Recording(t, i) => Pending(t) \notin Events(i)
  /\ \A t, u \in Thread : Recording(t, i) /\ Recording(u, i) /\ Pending(t) = Pending(u) => t = u

AuditInv == \A i \in DOMAIN ops : AuditOf(i)

LEMMA RankGrows ==
  ASSUME NEW from, NEW to, <<from, to>> \in OperationTransitions
  PROVE  /\ Rank[from] < Rank[to] /\ Rank[from] \in Nat /\ Rank[to] \in Nat
         /\ from # "none" /\ to # "none"
  BY DEF OperationTransitions, Rank

\* A change from the status a path leads to is no event of the path, and lengthens it.
LEMMA PathGrows ==
  ASSUME NEW E, NEW from, NEW to, PathTo(E, from), <<from, to>> \in OperationTransitions
  PROVE  LET p == [before |-> from, after |-> to] IN p \notin E /\ PathTo(E \cup {p}, to)
  <1> DEFINE p == [before |-> from, after |-> to]
  <1>0. p.before = from /\ p.after = to
    OBVIOUS
  <1> HIDE DEF p
  <1>1. \A e \in E : e.before # from
    BY DEF PathTo
  <1>2. p \notin E
    BY <1>0, <1>1
  <1>3. ASSUME NEW e \in E PROVE e.before # to
    <2>1. e.before = "none" \/ Rank[e.before] < Rank[from]
      BY DEF PathTo
    <2> QED
      BY <2>1, RankGrows
  <1>4. ASSUME NEW e \in E \cup {p}
        PROVE  \/ e.before = "none"
               \/ <<e.before, e.after>> \in OperationTransitions /\ Rank[e.before] < Rank[to]
    <2>1. CASE e = p
      BY <1>0, <2>1, RankGrows
    <2>2. CASE e \in E /\ e.before # "none"
      <3>1. <<e.before, e.after>> \in OperationTransitions /\ Rank[e.before] < Rank[from]
        BY <2>2 DEF PathTo
      <3>2. Rank[e.before] \in Nat
        BY <3>1, RankGrows
      <3> QED
        BY <3>1, <3>2, RankGrows
    <2> QED
      BY <2>1, <2>2
  <1>5. from # to
    BY RankGrows
  <1>6. {e.after : e \in E \cup {p}} \ {e.before : e \in E \cup {p}} = {to}
    <2>1. {e.after : e \in E} \ {e.before : e \in E} = {from}
      BY DEF PathTo
    <2>2. {e.after : e \in E \cup {p}} = {e.after : e \in E} \cup {to}
      BY <1>0
    <2>3. {e.before : e \in E \cup {p}} = {e.before : e \in E} \cup {from}
      BY <1>0
    <2>4. to \notin {e.before : e \in E}
      BY <1>3
    <2> QED
      BY <1>5, <2>1, <2>2, <2>3, <2>4
  <1>7. PathTo(E \cup {p}, to)
    BY <1>4, <1>6 DEF PathTo
  <1> QED
    BY <1>2, <1>7 DEF p

\* A step that writes no status and records none.
LEMMA AuditStays ==
  ASSUME AuditInv, DOMAIN ops' = DOMAIN ops, opAudit' = opAudit,
         \A j \in DOMAIN ops : ops'[j].status = ops[j].status,
         \A u \in Thread :
           /\ stage'[u] \in {"booking", "recording"} <=> stage[u] \in {"booking", "recording"}
           /\ stage[u] \in {"booking", "recording"} => cmd'[u] = cmd[u] /\ before'[u] = before[u]
  PROVE  AuditInv'
  <1> SUFFICES ASSUME NEW i \in DOMAIN ops PROVE AuditOf(i)'
    BY DEF AuditInv
  <1>1. /\ \A u \in Thread : Recording(u, i)' <=> Recording(u, i)
        /\ \A u \in Thread : Recording(u, i) => Pending(u)' = Pending(u)
    BY DEF Recording, Pending
  <1>2. Events(i)' = Events(i)
    BY DEF Events
  <1>3. AllEvents(i)' = AllEvents(i)
    BY <1>1, <1>2 DEF AllEvents
  <1>4. PathTo(AllEvents(i), ops[i].status)' /\ Distinct(opAudit[i])'
    <2>1. ops'[i].status = ops[i].status /\ PathTo(AllEvents(i), ops[i].status)
      BY DEF AuditInv, AuditOf
    <2> QED
      BY <1>3, <2>1 DEF AuditInv, AuditOf, PathTo, Distinct
  <1> QED
    BY <1>1, <1>2, <1>4 DEF AuditInv, AuditOf

\* A new draft has one event.
LEMMA CreateRefundAudit ==
  ASSUME Structure, AuditInv, NEW t \in Thread, CreateRefund(t)
  PROVE  AuditInv'
  <1> DEFINE draft == [ticket |-> cmd[t].ticket, order |-> OrderOf(t),
                       amount |-> cmd[t].amount, key |-> cmd[t].key,
                       status |-> "draft", version |-> 1]
             first == [before |-> "none", after |-> "draft"]
  <1>0. PICK id : id = Len(ops) + 1
    OBVIOUS
  <1>1. /\ ops' = Append(ops, draft) /\ opAudit' = Append(opAudit, <<first>>)
        /\ Finish(t) /\ stage[t] = "writing"
        /\ ops \in Seq(Operation) /\ opAudit \in Seq(Seq(AuditEvent)) /\ Len(opAudit) = Len(ops)
    BY DEF CreateRefund, Commit, Structure, TypeOK
  <1>2. draft.status = "draft" /\ first.before = "none" /\ first.after = "draft"
    OBVIOUS
  <1> HIDE DEF draft, first
  <1>3. /\ DOMAIN ops' = DOMAIN ops \cup {id} /\ ops'[id] = draft /\ opAudit'[id] = <<first>>
        /\ id \notin DOMAIN ops
        /\ \A i \in DOMAIN ops : ops'[i] = ops[i] /\ opAudit'[i] = opAudit[i]
    BY <1>0, <1>1
  <1>4. /\ stage'[t] = "idle"
        /\ \A u \in Thread \ {t} : stage'[u] = stage[u] /\ cmd'[u] = cmd[u] /\ before'[u] = before[u]
    BY <1>1, FinishFacts DEF Finish, Structure, TypeOK
  <1>5. ASSUME NEW i \in DOMAIN ops PROVE AuditOf(i)'
    <2>1. /\ \A u \in Thread : Recording(u, i)' <=> Recording(u, i)
          /\ \A u \in Thread : Recording(u, i) => Pending(u)' = Pending(u)
      BY <1>1, <1>4 DEF Recording, Pending
    <2>2. Events(i)' = Events(i)
      BY <1>3 DEF Events
    <2>3. AllEvents(i)' = AllEvents(i)
      BY <2>1, <2>2 DEF AllEvents
    <2>4. PathTo(AllEvents(i), ops[i].status)' /\ Distinct(opAudit[i])'
      BY <1>3, <2>3 DEF AuditInv, AuditOf, PathTo, Distinct
    <2> QED
      BY <2>1, <2>2, <2>4 DEF AuditInv, AuditOf
  <1>6. AuditOf(id)'
    <2>1. \A u \in Thread : ~ Recording(u, id)'
      <3> SUFFICES ASSUME NEW u \in Thread, stage'[u] \in {"booking", "recording"},
                          cmd'[u].op = id
                   PROVE  FALSE
        BY DEF Recording
      <3>1. stage[u] \in {"booking", "recording"} /\ cmd[u].op = id
        BY <1>4
      <3> QED
        BY <1>3, <3>1 DEF Structure, Referential
    <2>2. Events(id)' = {first}
      BY <1>3 DEF Events
    <2>3. AllEvents(id)' = {first}
      BY <2>1, <2>2 DEF AllEvents
    <2>4. PathTo({first}, "draft")
      BY <1>2 DEF PathTo
    <2>5. PathTo(AllEvents(id), ops[id].status)'
      BY <1>2, <1>3, <2>3, <2>4 DEF PathTo
    <2>6. Distinct(opAudit[id])'
      BY <1>3 DEF Distinct
    <2> QED
      BY <2>1, <2>5, <2>6 DEF AuditOf
  <1> QED
    BY <1>3, <1>5, <1>6 DEF AuditInv

\* The write of a status makes its event pending.
LEMMA WriteStatusAudit ==
  ASSUME Structure, StatusInv, AuditInv, NEW t \in Thread, WriteStatus(t)
  PROVE  AuditInv'
  <1>0. PICK i, from, to : i = cmd[t].op /\ from = ops[i].status /\ to = Target(cmd[t])
    OBVIOUS
  <1> DEFINE p == [before |-> from, after |-> to]
  <1>1. /\ i \in DOMAIN ops /\ <<from, to>> \in OperationTransitions
        /\ cmd[t] \in Command /\ cmd[t].kind \in Decision \cup Payment
        /\ ops[i] \in Operation /\ stage[t] = "writing" /\ cmd' = cmd /\ opAudit' = opAudit
        /\ stage' = [stage EXCEPT ![t] = "booking"] /\ stage \in [Thread -> Stage]
        /\ before' = [before EXCEPT ![t] = from]
        /\ before \in [Thread -> OperationStatus \cup {"none"}]
    BY <1>0, BookedType DEF WriteStatus, StatusInv, StatusBefore, Structure, TypeOK
  <1>2. /\ DOMAIN ops' = DOMAIN ops /\ \A j \in DOMAIN ops : j # i => ops'[j] = ops[j]
        /\ ops'[i].status = to
    BY <1>0, WriteStatusFacts DEF KeptRows
  <1>3. /\ ~ Recording(t, i) /\ Recording(t, i)' /\ Pending(t)' = p
        /\ \A j : j # i => ~ Recording(t, j)'
    BY <1>0, <1>1 DEF Recording, Pending
  <1>4. \A u \in Thread \ {t} : /\ \A j : Recording(u, j)' <=> Recording(u, j)
                                /\ Pending(u)' = Pending(u)
    BY <1>1 DEF Recording, Pending
  <1>5. \A j : Events(j)' = Events(j)
    BY <1>1 DEF Events
  <1> HIDE DEF p
  <1>6. ASSUME NEW j \in DOMAIN ops, j # i PROVE AuditOf(j)'
    <2>1. \A u \in Thread : ~ Recording(t, j)
      BY <1>1 DEF Recording
    <2>2. AllEvents(j)' = AllEvents(j)
      BY <1>3, <1>4, <1>5, <1>6, <2>1 DEF AllEvents
    <2>3. PathTo(AllEvents(j), ops[j].status)' /\ Distinct(opAudit[j])'
      BY <1>1, <1>2, <1>6, <2>2 DEF AuditInv, AuditOf, PathTo, Distinct
    <2> QED
      BY <1>3, <1>4, <1>5, <1>6, <2>3 DEF AuditInv, AuditOf
  <1>7. AuditOf(i)'
    <2>1. p \notin AllEvents(i) /\ PathTo(AllEvents(i) \cup {p}, to)
      BY <1>0, <1>1, PathGrows DEF AuditInv, AuditOf, p
    <2>2. AllEvents(i)' = AllEvents(i) \cup {p}
      BY <1>3, <1>4, <1>5 DEF AllEvents
    <2>3. PathTo(AllEvents(i), ops[i].status)' /\ Distinct(opAudit[i])'
      BY <1>1, <1>2, <2>1, <2>2 DEF AuditInv, AuditOf, PathTo, Distinct
    <2>4. \A u \in Thread : Recording(u, i) => Pending(u) \in AllEvents(i)
      BY DEF AllEvents
    <2>5. \A u \in Thread : Recording(u, i)' => Pending(u)' \notin Events(i)'
      <3>1. Events(i)' = Events(i) /\ p \notin Events(i)
        BY <1>5, <2>1 DEF AllEvents
      <3>2. \A u \in Thread : Recording(u, i) => Pending(u) \notin Events(i)
        BY <1>1 DEF AuditInv, AuditOf
      <3> QED
        BY <1>3, <1>4, <3>1, <3>2
    <2>6. \A u, v \in Thread :
            Recording(u, i)' /\ Recording(v, i)' /\ Pending(u)' = Pending(v)' => u = v
      BY <1>1, <1>3, <1>4, <2>1, <2>4 DEF AuditInv, AuditOf
    <2> QED
      BY <2>3, <2>5, <2>6 DEF AuditOf
  <1> QED
    BY <1>2, <1>6, <1>7 DEF AuditInv

LEMMA BookAudit ==
  ASSUME Structure, AuditInv, NEW t \in Thread, Book(t)
  PROVE  AuditInv'
  <1>1. /\ stage[t] = "booking" /\ stage' = [stage EXCEPT ![t] = "recording"]
        /\ stage \in [Thread -> Stage] /\ UNCHANGED <<cmd, before, opAudit>>
    BY DEF Book, Structure, TypeOK
  <1>2. DOMAIN ops' = DOMAIN ops /\ \A j \in DOMAIN ops : ops'[j].status = ops[j].status
    BY BookFacts DEF KeptRows
  <1> QED
    BY <1>1, <1>2, AuditStays

\* Recording a pending event.
LEMMA RecordStatusAudit ==
  ASSUME Structure, AuditInv, NEW t \in Thread, RecordStatus(t)
  PROVE  AuditInv'
  <1>0. PICK i, p : i = cmd[t].op /\ p = Pending(t)
    OBVIOUS
  <1>1. /\ i \in DOMAIN ops /\ i \in DOMAIN opAudit /\ Recording(t, i) /\ Finish(t)
        /\ opAudit \in Seq(Seq(AuditEvent)) /\ opAudit[i] \in Seq(AuditEvent) /\ ops' = ops
        /\ Len(opAudit) = Len(ops) /\ ops \in Seq(Operation)
        /\ opAudit' = [opAudit EXCEPT ![i] = Append(opAudit[i], p)]
    BY <1>0 DEF RecordStatus, Recording, Pending, Structure, TypeOK, Referential
  <1>2. /\ stage'[t] = "idle"
        /\ \A u \in Thread \ {t} : stage'[u] = stage[u] /\ cmd'[u] = cmd[u] /\ before'[u] = before[u]
    BY <1>1, FinishFacts DEF Finish, Structure, TypeOK
  <1>3. /\ \A j : ~ Recording(t, j)'
        /\ \A u \in Thread \ {t} : /\ \A j : Recording(u, j)' <=> Recording(u, j)
                                   /\ Pending(u)' = Pending(u)
    BY <1>2 DEF Recording, Pending
  <1>4. ASSUME NEW j \in DOMAIN ops, j # i PROVE AuditOf(j)'
    <2>1. opAudit'[j] = opAudit[j]
      BY <1>1, <1>4
    <2>2. Events(j)' = Events(j)
      BY <2>1 DEF Events
    <2>3. ~ Recording(t, j)
      BY <1>0, <1>4 DEF Recording
    <2>4. AllEvents(j)' = AllEvents(j)
      BY <1>3, <2>2, <2>3 DEF AllEvents
    <2>5. PathTo(AllEvents(j), ops[j].status)' /\ Distinct(opAudit[j])'
      <3>1. PathTo(AllEvents(j), ops[j].status) /\ Distinct(opAudit[j])
        BY DEF AuditInv, AuditOf
      <3>2. PathTo(AllEvents(j), ops[j].status)'
        BY <1>1, <2>4, <3>1 DEF PathTo
      <3> QED
        BY <2>1, <3>1, <3>2 DEF Distinct
    <2> QED
      BY <1>3, <1>4, <2>2, <2>5 DEF AuditInv, AuditOf
  <1>5. AuditOf(i)'
    <2>1. /\ opAudit'[i] = Append(opAudit[i], p)
          /\ p \notin Events(i) /\ Distinct(opAudit[i])
      BY <1>0, <1>1 DEF AuditInv, AuditOf
    <2>2. /\ DOMAIN opAudit'[i] = DOMAIN opAudit[i] \cup {Len(opAudit[i]) + 1}
          /\ opAudit'[i][Len(opAudit[i]) + 1] = p
          /\ \A e \in DOMAIN opAudit[i] : opAudit'[i][e] = opAudit[i][e]
      BY <1>1, <2>1
    <2>3. Events(i)' = Events(i) \cup {p}
      BY <2>2 DEF Events
    <2>4. Distinct(opAudit[i])'
      BY <2>1, <2>2 DEF Distinct, Events
    <2>5. AllEvents(i)' = AllEvents(i)
      <3>1. \A e : e \in AllEvents(i)' => e \in AllEvents(i)
        BY <1>0, <1>1, <1>3, <2>3 DEF AllEvents
      <3>2. \A e : e \in AllEvents(i) => e \in AllEvents(i)'
        BY <1>0, <1>1, <1>3, <2>3 DEF AllEvents
      <3> QED
        BY <3>1, <3>2
    <2>6. PathTo(AllEvents(i), ops[i].status)'
      BY <1>1, <2>5 DEF AuditInv, AuditOf, PathTo
    <2>7. \A u \in Thread : Recording(u, i)' => Pending(u)' \notin Events(i)'
      <3>1. /\ \A u \in Thread : Recording(u, i) => Pending(u) \notin Events(i)
            /\ \A u \in Thread : Recording(u, i) /\ Pending(u) = Pending(t) => u = t
        BY <1>1 DEF AuditInv, AuditOf
      <3> QED
        BY <1>0, <1>3, <2>3, <3>1
    <2>8. \A u, v \in Thread :
            Recording(u, i)' /\ Recording(v, i)' /\ Pending(u)' = Pending(v)' => u = v
      BY <1>1, <1>3 DEF AuditInv, AuditOf
    <2> QED
      BY <2>4, <2>6, <2>7, <2>8 DEF AuditOf
  <1> QED
    BY <1>1, <1>4, <1>5 DEF AuditInv

LEMMA QuietAudit ==
  ASSUME Structure, AuditInv, NEW t \in Thread,
         \/ Begin(t) \/ LockOrder(t) \/ LockKey(t) \/ Check(t) \/ Replay(t)
         \/ Refuse(t) \/ IterationFails(t) \/ CloseFails(t)
         \/ CreateTicket(t) \/ CloseTicket(t)
  PROVE  AuditInv'
  <1>1. ops' = ops /\ opAudit' = opAudit
    BY DEF Begin, BeginCreateTicket, BeginCreateRefund, BeginDecision, BeginExecute,
           BeginReconcile, BeginCloseTicket, Start, LockOrder, LockKey, Check, Replay,
           Refuse, IterationFails, CloseFails, Commit, CreateTicket, CloseTicket, data
  <1>2. \A u \in Thread \ {t} :
          stage'[u] = stage[u] /\ cmd'[u] = cmd[u] /\ before'[u] = before[u]
    BY DEF Begin, BeginCreateTicket, BeginCreateRefund, BeginDecision, BeginExecute,
           BeginReconcile, BeginCloseTicket, Start, LockOrder, LockKey, Check, Replay,
           Refuse, IterationFails, CloseFails, Commit, CreateTicket, CloseTicket, Finish,
           Structure, TypeOK
  <1>3. stage[t] \notin {"booking", "recording"} /\ stage'[t] \notin {"booking", "recording"}
    BY DEF Begin, BeginCreateTicket, BeginCreateRefund, BeginDecision, BeginExecute,
           BeginReconcile, BeginCloseTicket, Start, LockOrder, AfterOrderLock, LockKey,
           AfterKeyLock, Check, Replay, Refuse, IterationFails, CloseFails, Commit,
           CreateTicket, CloseTicket, Finish, Structure, TypeOK
  <1> QED
    BY <1>1, <1>2, <1>3, AuditStays

LEMMA AuditInvariant == ASSUME OneDecider PROVE Spec => []AuditInv
  <1>1. Init => AuditInv
    BY DEF Init, AuditInv
  <1>2. Structure /\ StatusInv /\ AuditInv /\ [Next]_vars => AuditInv'
    <2> SUFFICES ASSUME Structure, StatusInv, AuditInv, [Next]_vars PROVE AuditInv'
      OBVIOUS
    <2>1. CASE UNCHANGED vars
      BY <2>1, AuditStays DEF vars, data
    <2>2. ASSUME NEW t \in Thread, WriteStatus(t) PROVE AuditInv'
      BY <2>2, WriteStatusAudit
    <2>3. ASSUME NEW t \in Thread, RecordStatus(t) PROVE AuditInv'
      BY <2>3, RecordStatusAudit
    <2>4. ASSUME NEW t \in Thread, CreateRefund(t) PROVE AuditInv'
      BY <2>4, CreateRefundAudit
    <2>5. ASSUME NEW t \in Thread,
                 \/ Begin(t) \/ LockOrder(t) \/ LockKey(t) \/ Check(t) \/ Replay(t)
                 \/ Refuse(t) \/ IterationFails(t) \/ CloseFails(t)
                 \/ CreateTicket(t) \/ CloseTicket(t)
          PROVE  AuditInv'
      BY <2>5, QuietAudit
    <2>6. ASSUME NEW t \in Thread, Book(t) PROVE AuditInv'
      BY <2>6, BookAudit
    <2> QED
      BY <2>1, <2>2, <2>3, <2>4, <2>5, <2>6 DEF Next
  <1> QED
    BY <1>1, <1>2, StructureInvariant, StatusInvariant, PTL DEF Spec

\* A list without repetition has as many members as its length.
LEMMA MembersOfDistinct ==
  ASSUME NEW S, NEW q \in Seq(S), Distinct(q)
  PROVE  Cardinality({q[e] : e \in DOMAIN q}) = Len(q)
  <1> DEFINE T == {q[e] : e \in DOMAIN q}
             n == Len(q)
  <1>0. n \in Nat
    OBVIOUS
  <1>1. DOMAIN q = 1 .. n /\ q = [e \in 1 .. n |-> q[e]]
    OBVIOUS
  <1>2. \A e \in 1 .. n : q[e] \in T
    BY <1>1
  <1>3. \A x \in T : \E e \in 1 .. n : q[e] = x
    BY <1>1
  <1>4. \A a, b \in 1 .. n : q[a] = q[b] => a = b
    BY <1>1 DEF Distinct
  <1> HIDE DEF T, n
  <1>5. q \in [1 .. n -> T]
    BY <1>1, <1>2
  <1>6. q \in Bijection(1 .. n, T)
    BY <1>3, <1>4, <1>5 DEF Bijection, Injection, Surjection, IsInjective
  <1>7. IsFiniteSet(1 .. n) /\ Cardinality(1 .. n) = n
    BY <1>0, FS_Interval
  <1>8. ExistsBijection(1 .. n, T)
    BY <1>6 DEF ExistsBijection
  <1>9. Cardinality(T) = Cardinality(1 .. n)
    BY <1>7, <1>8, FS_Bijection
  <1> QED
    BY <1>7, <1>9 DEF T, n

\* While one thread decides, the events of an operation nobody is recording make up
\* one path of OPERATION_TRANSITIONS from its draft to its status, in whatever order
\* they were appended.
THEOREM AuditIsOnePath == ASSUME OneDecider PROVE Spec => []AuditIsPath
  <1>1. Structure /\ AuditInv => AuditIsPath
    <2> SUFFICES ASSUME Structure, AuditInv, NEW i \in DOMAIN ops
                 PROVE  /\ Cardinality(Events(i)) = Len(opAudit[i])
                        /\ \A e \in Events(i) :
                             e.before = "none" \/ <<e.before, e.after>> \in OperationTransitions
                        /\ (\A t \in Thread : ~ Recording(t, i)) =>
                             {e.after : e \in Events(i)} \ {e.before : e \in Events(i)}
                               = {ops[i].status}
      BY DEF AuditIsPath, Events, Recording
    <2>1. AuditOf(i) /\ Events(i) \subseteq AllEvents(i)
      BY DEF AuditInv, AllEvents
    <2>2. Cardinality(Events(i)) = Len(opAudit[i])
      <3>1. opAudit[i] \in Seq(AuditEvent)
        BY DEF Structure, TypeOK
      <3> QED
        BY <2>1, <3>1, MembersOfDistinct DEF AuditOf, Events
    <2>3. \A e \in Events(i) :
            e.before = "none" \/ <<e.before, e.after>> \in OperationTransitions
      BY <2>1 DEF AuditOf, PathTo
    <2>4. ASSUME \A t \in Thread : ~ Recording(t, i)
          PROVE  {e.after : e \in Events(i)} \ {e.before : e \in Events(i)} = {ops[i].status}
      <3>1. AllEvents(i) = Events(i)
        BY <2>4 DEF AllEvents
      <3> QED
        BY <2>1, <3>1 DEF AuditOf, PathTo
    <2> QED
      BY <2>2, <2>3, <2>4
  <1> QED
    BY <1>1, StructureInvariant, AuditInvariant, PTL
=============================================================================
