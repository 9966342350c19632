--------------------------- MODULE PgCommandsProof ---------------------------
(***************************************************************************)
(* Theorems about PgCommands for any sessions, orders, amounts and keys.   *)
(***************************************************************************)
EXTENDS PgLedger, SequenceTheorems, FiniteSetTheorems, TLAPS

-----------------------------------------------------------------------------
(* Lemmas about the operators of the model *)

\* A table whose row i is overwritten (an UPDATE by primary key) is a table of
\* the same rows with the same length.
LEMMA UpdateRow ==
  ASSUME NEW S, NEW q \in Seq(S), NEW i \in DOMAIN q, NEW e \in S
  PROVE  /\ [q EXCEPT ![i] = e] \in Seq(S)
         /\ DOMAIN [q EXCEPT ![i] = e] = DOMAIN q
  BY ExceptSeq, LenProperties

\* A table with a row appended (an INSERT with the next id) keeps its rows.
LEMMA InsertRow ==
  ASSUME NEW S, NEW q \in Seq(S), NEW e \in S
  PROVE  /\ Append(q, e) \in Seq(S)
         /\ Len(q) \in Nat
         /\ DOMAIN q = 1 .. Len(q)
         /\ DOMAIN Append(q, e) = 1 .. Len(q) + 1
         /\ \A i \in 1 .. Len(q) : Append(q, e)[i] = q[i]
         /\ Append(q, e)[Len(q) + 1] = e
  OBVIOUS

\* The fields of a command are determined by its kind.
LEMMA CommandFields ==
  ASSUME NEW c \in Command
  PROVE  /\ c.kind = "create_ticket" =>
              c.key \in TicketKey /\ c.order \in Order /\ c.request \in Request
         /\ c.kind = "create_refund" =>
              c.key \in RefundKey /\ c.ticket \in Nat /\ c.amount \in Amount
         /\ c.kind \in {"submit", "approve", "reject", "execute", "reconcile"} =>
              c.op \in Nat
         /\ c.kind = "execute" => c.result \in {"success", "timeout"}
         /\ c.kind = "reconcile" => c.result \in {"success", "failed"}
         /\ c.kind = "close_ticket" => c.ticket \in Nat
         /\ c.kind \in {"create_ticket", "create_refund", "submit", "approve",
                        "reject", "execute", "reconcile", "close_ticket"}
  BY DEF Command

-----------------------------------------------------------------------------
(* Lemmas about the rows that commands write *)

\* The UPDATE of an operation row sets its status and counts its version up; what
\* it is about (ticket, order, amount, key) stays.
LEMMA WithStatusRow ==
  ASSUME NEW row \in OperationRow, NEW to \in OperationStatus, NEW read \in Nat
  PROVE  LET new == WithStatus(row, to, read) IN
         /\ new \in OperationRow
         /\ new.order = row.order /\ new.amount = row.amount
         /\ new.ticket = row.ticket /\ new.key = row.key
         /\ new.status = to /\ new.version = row.version + 1
  <1> DEFINE decided == IF to = "approved" THEN read ELSE row.decision_version
  <1>1. decided \in Nat
    BY DEF OperationRow
  <1>2. WithStatus(row, to, read) =
          [row EXCEPT !.status = to, !.version = row.version + 1, !.decision_version = decided]
    BY DEF WithStatus
  <1> HIDE DEF decided
  <1> DEFINE new == [row EXCEPT !.status = to, !.version = row.version + 1,
                                !.decision_version = decided]
  <1>3. row.version + 1 \in Nat
    BY DEF OperationRow
  <1>4. new \in OperationRow
    BY <1>1, <1>3 DEF OperationRow
  <1>5. /\ new.order = row.order /\ new.amount = row.amount
        /\ new.ticket = row.ticket /\ new.key = row.key
        /\ new.status = to /\ new.version = row.version + 1
    BY DEF OperationRow
  <1> QED
    BY <1>2, <1>4, <1>5

\* Closing a ticket row gives it a resolution, if any, and keeps its order.
LEMMA ClosedRow ==
  ASSUME NEW row \in TicketRow, NEW resolution \in Resolution
  PROVE  LET new == Closed(row, resolution) IN
         new \in TicketRow /\ new.order = row.order
  <1> DEFINE kept == IF resolution = "none" THEN row.resolution ELSE resolution
             version == row.version + (IF resolution = "none" THEN 1 ELSE 2)
  <1>1. kept \in Resolution /\ version \in Nat
    BY DEF TicketRow
  <1>2. Closed(row, resolution) =
          [row EXCEPT !.status = "closed", !.resolution = kept, !.version = version]
    BY DEF Closed
  <1> HIDE DEF kept, version
  <1> QED
    BY <1>1, <1>2 DEF TicketRow, TicketStatus

LEMMA ClosingEventsType ==
  ASSUME NEW before \in OperationStatus \cup TicketStatus, NEW resolution \in Resolution
  PROVE  ClosingEvents(before, resolution) \in Seq(AuditRow)
  <1> DEFINE event(after) == [before |-> before, after |-> after]
  <1>1. \A after \in TicketStatus : event(after) \in AuditRow
    BY DEF AuditRow
  <1>2. event("resolved") \in AuditRow /\ event("rejected") \in AuditRow /\ event("closed") \in AuditRow
    BY <1>1 DEF TicketStatus
  <1> HIDE DEF event
  <1>3. ClosingEvents(before, resolution) =
          CASE resolution = "refunded" -> <<event("resolved"), event("closed")>>
            [] resolution = "rejected" -> <<event("rejected"), event("closed")>>
            [] resolution = "none" -> <<event("closed")>>
    BY DEF ClosingEvents, event
  <1> QED
    BY <1>2, <1>3 DEF Resolution

-----------------------------------------------------------------------------
(* Types and references *)

Structure == TypeOK /\ Referential

\* The order a locking command locks is an order row.
LEMMA OrderOfType ==
  ASSUME Structure, NEW s \in Session, stage[s] # "idle", cmd[s].kind \in LockingKind
  PROVE  OrderOf(s) \in Order
  <1> USE DEF Structure, TypeOK, Referential, OrderOf, LockingKind, TicketKind, OperationKind
  <1>0. cmd[s] \in Command
    OBVIOUS
  <1>1. CASE cmd[s].kind = "create_ticket"
    BY <1>0, <1>1, CommandFields
  <1>2. CASE cmd[s].kind \in {"create_refund", "close_ticket"}
    <2>1. tickets[cmd[s].ticket] \in TicketRow
      BY <1>2
    <2> QED
      BY <1>2, <2>1 DEF TicketRow
  <1>3. CASE cmd[s].kind \in {"execute", "reconcile"}
    <2>1. ops[cmd[s].op] \in OperationRow
      BY <1>3
    <2> QED
      BY <1>3, <2>1 DEF OperationRow
  <1> QED
    BY <1>1, <1>2, <1>3

\* The end of a transaction frees its session and its locks and touches no other.
LEMMA FinishFacts ==
  ASSUME TypeOK, NEW s \in Session, Finish(s)
  PROVE  /\ lock' \in [Order -> Session \cup {Free}]
         /\ stage' \in [Session -> {"idle", "blocked", "locked", "writing"}]
         /\ cmd' \in [Session -> Command \cup {NoCommand}]
         /\ seen' \in [Session -> Snapshot]
         /\ stage'[s] = "idle" /\ cmd'[s] = NoCommand
         /\ \A t \in Session \ {s} : stage'[t] = stage[t] /\ cmd'[t] = cmd[t] /\ seen'[t] = seen[t]
         /\ \A o \in Order : lock[o] # s => lock'[o] = lock[o]
  <1>1. Nothing \in Snapshot
    BY DEF Nothing, Snapshot, OperationStatus, TicketStatus, Resolution
  <1> QED
    BY <1>1 DEF TypeOK, Finish

\* Beginning a command keeps the structure when the command and the row it read
\* are well formed and the rows it names exist.
LEMMA StartStructure ==
  ASSUME Structure, NEW s \in Session, NEW c \in Command, NEW row \in Snapshot,
         NEW st \in {"blocked", "writing"}, Start(s, c, row, st),
         st = "blocked" => c.kind \in LockingKind,
         c.kind \in OperationKind => c.op \in DOMAIN ops,
         c.kind \in TicketKind => c.ticket \in DOMAIN tickets
  PROVE  Structure'
  <1>1. TypeOK'
    BY DEF Structure, TypeOK, Start, tables
  <1>2. Referential'
    BY DEF Structure, TypeOK, Referential, Start, tables
  <1> QED
    BY <1>1, <1>2 DEF Structure

LEMMA SnapshotType ==
  /\ Nothing \in Snapshot
  /\ \A row \in OperationRow : SnapshotOf(row) \in Snapshot
  /\ \A row \in TicketRow : SnapshotOf(row) \in Snapshot
  BY DEF Nothing, Snapshot, SnapshotOf, OperationRow, TicketRow,
         OperationStatus, TicketStatus, Resolution

LEMMA BeginStructure ==
  ASSUME Structure, NEW s \in Session, Begin(s)
  PROVE  Structure'
  <1> USE DEF LockingKind, OperationKind, TicketKind, Command
  <1>0. /\ \A i \in DOMAIN ops : i \in Nat /\ ops[i] \in OperationRow
        /\ \A t \in DOMAIN tickets : t \in Nat /\ tickets[t] \in TicketRow
    BY DEF Structure, TypeOK
  <1>1. ASSUME NEW k \in TicketKey, NEW o \in Order, NEW r \in Request,
               BeginCreateTicket(s, k, o, r)
        PROVE  Structure'
    BY <1>1, StartStructure, SnapshotType DEF BeginCreateTicket
  <1>2. ASSUME NEW k \in RefundKey, NEW t \in DOMAIN tickets, NEW a \in Amount,
               BeginCreateRefund(s, k, t, a)
        PROVE  Structure'
    BY <1>0, <1>2, StartStructure, SnapshotType DEF BeginCreateRefund
  <1>3. ASSUME NEW i \in DOMAIN ops,
               BeginSubmit(s, i) \/ BeginApprove(s, i) \/ BeginReject(s, i)
        PROVE  Structure'
    BY <1>0, <1>3, StartStructure, SnapshotType DEF BeginSubmit, BeginApprove, BeginReject
  <1>4. ASSUME NEW i \in DOMAIN ops, NEW result \in {"success", "timeout"},
               BeginExecute(s, i, result)
        PROVE  Structure'
    BY <1>0, <1>4, StartStructure, SnapshotType DEF BeginExecute
  <1>5. ASSUME NEW i \in DOMAIN ops, NEW result \in {"success", "failed"},
               BeginReconcile(s, i, result)
        PROVE  Structure'
    BY <1>0, <1>5, StartStructure, SnapshotType DEF BeginReconcile
  <1>6. ASSUME NEW t \in DOMAIN tickets, BeginCloseTicket(s, t)
        PROVE  Structure'
    BY <1>0, <1>6, StartStructure, SnapshotType DEF BeginCloseTicket
  <1> QED
    BY <1>1, <1>2, <1>3, <1>4, <1>5, <1>6 DEF Begin

LEMMA LockStructure ==
  ASSUME Structure, NEW s \in Session, LockOrderForUpdate(s)
  PROVE  Structure'
  <1>1. OrderOf(s) \in Order
    BY OrderOfType DEF LockOrderForUpdate, Structure, TypeOK, Referential
  <1>2. TypeOK'
    BY <1>1 DEF LockOrderForUpdate, Structure, TypeOK, tables
  <1>3. Referential'
    BY DEF LockOrderForUpdate, Structure, TypeOK, Referential, tables
  <1> QED
    BY <1>2, <1>3 DEF Structure

LEMMA CheckStructure ==
  ASSUME Structure, NEW s \in Session, Check(s)
  PROVE  Structure'
  <1>1. RowUnderLock(s) \in Snapshot
    <2>1. CASE cmd[s].kind \in {"execute", "reconcile"}
      <3>1. ops[cmd[s].op] \in OperationRow
        BY <2>1 DEF Structure, TypeOK, Referential, OperationKind
      <3> QED
        BY <2>1, <3>1, SnapshotType DEF RowUnderLock
    <2>2. CASE cmd[s].kind = "close_ticket"
      <3>1. ResolutionOf(cmd[s].ticket) \in Resolution
        BY DEF ResolutionOf, Resolution
      <3> QED
        BY <2>2, <3>1 DEF RowUnderLock, Structure, TypeOK, Snapshot
    <2>3. CASE cmd[s].kind \notin {"execute", "reconcile", "close_ticket"}
      BY <2>3 DEF RowUnderLock, Structure, TypeOK
    <2> QED
      BY <2>1, <2>2, <2>3
  <1>2. TypeOK'
    BY <1>1 DEF Check, Structure, TypeOK, tables
  <1>3. Referential'
    BY DEF Check, Structure, TypeOK, Referential, tables
  <1> QED
    BY <1>2, <1>3 DEF Structure

\* What a create command answers, and records, is an idempotency row.
LEMMA AnswerType ==
  ASSUME NEW s \in Session, cmd[s] \in Command,
         cmd[s].kind \in {"create_ticket", "create_refund"}, NEW id \in Nat
  PROVE  AnswerTo(s, id) \in IdemRow
  <1>1. CASE cmd[s].kind = "create_ticket"
    BY <1>1, CommandFields DEF AnswerTo, HashOf, IdemRow
  <1>2. CASE cmd[s].kind = "create_refund"
    BY <1>2, CommandFields DEF AnswerTo, HashOf, IdemRow
  <1> QED
    BY <1>1, <1>2

\* A transaction that ends without writing.
LEMMA NoWriteStructure ==
  ASSUME Structure, NEW s \in Session,
         Replay(s) \/ RefuseCheck(s) \/ RefuseWrite(s) \/ Disconnect(s)
  PROVE  Structure'
  <1>1. Finish(s) /\ UNCHANGED tables
    BY DEF Replay, RefuseCheck, RefuseWrite, Disconnect
  <1>2. answers' \subseteq IdemRow
    <2>1. CASE Replay(s)
      <3>1. PICK r \in Replayed(s) : answers' = answers \cup {AnswerTo(s, r.id)}
        BY <2>1 DEF Replay
      <3>2. r \in IdemRow /\ cmd[s].kind \in {"create_ticket", "create_refund"}
        BY DEF Replayed, IdemOf, Structure, TypeOK
      <3>3. r.id \in Nat
        BY <3>2 DEF IdemRow
      <3>4. cmd[s] \in Command
        BY <2>1 DEF Replay, Structure, Referential
      <3> QED
        BY <3>1, <3>2, <3>3, <3>4, AnswerType DEF Structure, TypeOK
    <2>2. CASE ~ Replay(s)
      BY <2>2 DEF RefuseCheck, RefuseWrite, Disconnect, Structure, TypeOK
    <2> QED
      BY <2>1, <2>2
  <1>3. TypeOK'
    BY <1>1, <1>2, FinishFacts DEF Structure, TypeOK, tables
  <1>4. Referential'
    BY <1>1, FinishFacts DEF Structure, Referential, tables, NoCommand, LockingKind,
                             OperationKind, TicketKind
  <1> QED
    BY <1>3, <1>4 DEF Structure

\* The sessions and locks after a commit.
LEMMA CommitFacts ==
  ASSUME Structure, NEW s \in Session, NEW kind, Commit(s, kind)
  PROVE  /\ stage[s] = "writing" /\ cmd[s] \in Command /\ cmd[s].kind = kind
         /\ seen[s] \in Snapshot
         /\ Finish(s)
  BY DEF Commit, Structure, TypeOK, Referential

\* Rows are never deleted, so the references of the other sessions survive.
LEMMA ReferentialAfterFinish ==
  ASSUME Structure, NEW s \in Session, Finish(s),
         DOMAIN ops \subseteq DOMAIN ops', DOMAIN tickets \subseteq DOMAIN tickets',
         Len(ticketAudit') = Len(tickets'), Len(opAudit') = Len(ops')
  PROVE  Referential'
  BY FinishFacts DEF Structure, Referential, NoCommand, LockingKind, OperationKind, TicketKind

LEMMA CommitCreateTicketStructure ==
  ASSUME Structure, NEW s \in Session, CommitCreateTicket(s)
  PROVE  Structure'
  <1> DEFINE row == [order |-> cmd[s].order, request |-> cmd[s].request,
                     status |-> "open", resolution |-> "none", version |-> 1]
             event == <<[before |-> "none", after |-> "open"]>>
             record == AnswerTo(s, Len(tickets) + 1)
  <1>0. /\ cmd[s] \in Command /\ cmd[s].kind = "create_ticket" /\ Finish(s)
        /\ tickets' = Append(tickets, row)
        /\ ticketAudit' = Append(ticketAudit, event)
        /\ idem' = idem \cup {record} /\ answers' = answers \cup {record}
        /\ UNCHANGED <<ops, decisions, opAudit>>
    BY CommitFacts DEF CommitCreateTicket, RecordKey
  <1>1. cmd[s].key \in TicketKey /\ cmd[s].order \in Order /\ cmd[s].request \in Request
    BY <1>0, CommandFields
  <1>2. row \in TicketRow
    BY <1>1 DEF TicketRow, TicketStatus, Resolution
  <1>3. event \in Seq(AuditRow)
    BY DEF AuditRow, OperationStatus, TicketStatus
  <1>4. Len(tickets) + 1 \in Nat
    BY DEF Structure, TypeOK
  <1>5. record \in IdemRow
    BY <1>0, <1>4, AnswerType
  <1> HIDE DEF row, event, record
  <1>6. TypeOK'
    BY <1>0, <1>2, <1>3, <1>5, FinishFacts, InsertRow DEF Structure, TypeOK
  <1>7. /\ DOMAIN tickets \subseteq DOMAIN tickets'
        /\ Len(tickets') = Len(tickets) + 1
        /\ Len(ticketAudit') = Len(ticketAudit) + 1
    BY <1>0, <1>2, <1>3, InsertRow DEF Structure, TypeOK
  <1>8. Referential'
    BY <1>0, <1>7, ReferentialAfterFinish DEF Structure, Referential
  <1> QED
    BY <1>6, <1>8 DEF Structure

LEMMA CommitCreateRefundStructure ==
  ASSUME Structure, NEW s \in Session, CommitCreateRefund(s)
  PROVE  Structure'
  <1> DEFINE row == [ticket |-> cmd[s].ticket, order |-> OrderOf(s),
                     amount |-> cmd[s].amount, key |-> cmd[s].key,
                     status |-> "draft", version |-> 1, decision_version |-> 0]
             event == <<[before |-> "none", after |-> "draft"]>>
             record == AnswerTo(s, Len(ops) + 1)
  <1>0. /\ cmd[s] \in Command /\ cmd[s].kind = "create_refund" /\ Finish(s)
        /\ stage[s] = "writing"
        /\ ops' = Append(ops, row)
        /\ opAudit' = Append(opAudit, event)
        /\ idem' = idem \cup {record} /\ answers' = answers \cup {record}
        /\ UNCHANGED <<tickets, decisions, ticketAudit>>
    BY CommitFacts DEF CommitCreateRefund, RecordKey
  <1>1. /\ cmd[s].key \in RefundKey /\ cmd[s].ticket \in Nat /\ cmd[s].amount \in Amount
        /\ OrderOf(s) \in Order
    BY <1>0, CommandFields, OrderOfType DEF LockingKind
  <1>2. row \in OperationRow
    BY <1>1 DEF OperationRow, OperationStatus
  <1>3. event \in Seq(AuditRow)
    BY DEF AuditRow, OperationStatus, TicketStatus
  <1>4. Len(ops) + 1 \in Nat
    BY DEF Structure, TypeOK
  <1>5. record \in IdemRow
    BY <1>0, <1>4, AnswerType
  <1> HIDE DEF row, event, record
  <1>6. TypeOK'
    BY <1>0, <1>2, <1>3, <1>5, FinishFacts, InsertRow DEF Structure, TypeOK
  <1>7. /\ DOMAIN ops \subseteq DOMAIN ops'
        /\ Len(ops') = Len(ops) + 1
        /\ Len(opAudit') = Len(opAudit) + 1
    BY <1>0, <1>2, <1>3, InsertRow DEF Structure, TypeOK
  <1>8. Referential'
    BY <1>0, <1>7, ReferentialAfterFinish DEF Structure, Referential
  <1> QED
    BY <1>6, <1>8 DEF Structure

\* An UPDATE of an operation changes one row, and of that row only the status,
\* the version, the decision version and the executed flag.
LEMMA WriteStatusFacts ==
  ASSUME Structure, NEW s \in Session, seen[s] \in Snapshot, cmd[s].op \in DOMAIN ops,
         NEW to \in OperationStatus, WriteStatus(s, to)
  PROVE  /\ ops' \in Seq(OperationRow)
         /\ DOMAIN ops' = DOMAIN ops /\ Len(ops') = Len(ops)
         /\ \A j \in DOMAIN ops : /\ ops'[j].order = ops[j].order
                                  /\ ops'[j].amount = ops[j].amount
                                  /\ ops'[j].ticket = ops[j].ticket
                                  /\ ops'[j].key = ops[j].key
                                  /\ j # cmd[s].op => ops'[j] = ops[j]
         /\ ops'[cmd[s].op].status = to
         /\ ops'[cmd[s].op].version = ops[cmd[s].op].version + 1
         /\ opAudit' \in Seq(Seq(AuditRow)) /\ Len(opAudit') = Len(opAudit)
         /\ UNCHANGED <<tickets, idem, ticketAudit, answers>>
  <1> DEFINE i == cmd[s].op
             row == WithStatus(ops[i], to, seen[s].version)
             event == [before |-> seen[s].status, after |-> to]
  <1>0. /\ ops \in Seq(OperationRow) /\ i \in 1 .. Len(ops) /\ ops[i] \in OperationRow
        /\ opAudit \in Seq(Seq(AuditRow)) /\ i \in DOMAIN opAudit
        /\ opAudit[i] \in Seq(AuditRow)
    BY DEF Structure, TypeOK, Referential
  <1>1. /\ row \in OperationRow
        /\ row.order = ops[i].order /\ row.amount = ops[i].amount
        /\ row.ticket = ops[i].ticket /\ row.key = ops[i].key
        /\ row.status = to /\ row.version = ops[i].version + 1
    BY <1>0, WithStatusRow DEF Snapshot
  <1>2. event \in AuditRow
    BY DEF Snapshot, AuditRow, OperationStatus, TicketStatus
  <1>3. /\ ops' = [ops EXCEPT ![i] = row]
        /\ opAudit' = [opAudit EXCEPT ![i] = Append(opAudit[i], event)]
        /\ UNCHANGED <<tickets, idem, ticketAudit, answers>>
    BY DEF WriteStatus
  <1> HIDE DEF row, event
  <1>4. Append(opAudit[i], event) \in Seq(AuditRow)
    BY <1>0, <1>2
  <1>5. opAudit' \in Seq(Seq(AuditRow)) /\ Len(opAudit') = Len(opAudit)
    BY <1>0, <1>3, <1>4, ExceptSeq, LenProperties
  <1>6. ops' \in Seq(OperationRow) /\ DOMAIN ops' = DOMAIN ops /\ Len(ops') = Len(ops)
    BY <1>0, <1>1, <1>3, ExceptSeq, LenProperties
  <1> QED
    BY <1>0, <1>1, <1>3, <1>5, <1>6 DEF i

\* The commits that write one operation.
CommitStatus(s) ==
  CommitSubmit(s) \/ CommitApprove(s) \/ CommitReject(s) \/ CommitExecute(s) \/ CommitReconcile(s)

LEMMA CommitStatusFacts ==
  ASSUME Structure, NEW s \in Session, CommitStatus(s)
  PROVE  /\ stage[s] = "writing" /\ cmd[s] \in Command
         /\ cmd[s].kind \in OperationKind /\ cmd[s].op \in DOMAIN ops
         /\ seen[s] \in Snapshot /\ Finish(s)
         /\ \E to \in OperationStatus :
              WriteStatus(s, to) /\ (to = "executed" => Paying(s))
         /\ decisions' \subseteq DecisionRow
  <1> USE DEF OperationKind, OperationStatus
  <1>1. CASE CommitSubmit(s)
    BY <1>1, CommitFacts DEF CommitSubmit, Structure, TypeOK, Referential
  <1>2. CASE CommitApprove(s)
    <2>1. cmd[s].kind = "approve" /\ cmd[s] \in Command /\ seen[s] \in Snapshot
      BY <1>2, CommitFacts DEF CommitApprove
    <2>2. [op |-> cmd[s].op, decision |-> "approved", version |-> seen[s].version] \in DecisionRow
      BY <2>1, CommandFields DEF DecisionRow, Snapshot
    <2> QED
      BY <1>2, <2>1, <2>2, CommitFacts DEF CommitApprove, RecordDecision, Structure, TypeOK, Referential
  <1>3. CASE CommitReject(s)
    <2>1. cmd[s].kind = "reject" /\ cmd[s] \in Command /\ seen[s] \in Snapshot
      BY <1>3, CommitFacts DEF CommitReject
    <2>2. [op |-> cmd[s].op, decision |-> "rejected", version |-> seen[s].version] \in DecisionRow
      BY <2>1, CommandFields DEF DecisionRow, Snapshot
    <2> QED
      BY <1>3, <2>1, <2>2, CommitFacts DEF CommitReject, RecordDecision, Structure, TypeOK, Referential
  <1>4. CASE CommitExecute(s)
    BY <1>4, CommitFacts DEF CommitExecute, Paying, Structure, TypeOK, Referential
  <1>5. CASE CommitReconcile(s)
    BY <1>5, CommitFacts DEF CommitReconcile, Paying, Structure, TypeOK, Referential
  <1> QED
    BY <1>1, <1>2, <1>3, <1>4, <1>5 DEF CommitStatus

LEMMA CommitStatusStructure ==
  ASSUME Structure, NEW s \in Session, CommitStatus(s)
  PROVE  Structure'
  <1>1. PICK to \in OperationStatus : WriteStatus(s, to)
    BY CommitStatusFacts
  <1>2. Finish(s) /\ decisions' \subseteq DecisionRow
    BY CommitStatusFacts
  <1>3. TypeOK'
    BY <1>1, <1>2, CommitStatusFacts, WriteStatusFacts, FinishFacts DEF Structure, TypeOK
  <1>4. Referential'
    BY <1>1, <1>2, CommitStatusFacts, WriteStatusFacts, ReferentialAfterFinish
    DEF Structure, Referential
  <1> QED
    BY <1>3, <1>4 DEF Structure

\* Closing a ticket changes that ticket only, and not its order.
LEMMA CommitCloseFacts ==
  ASSUME Structure, NEW s \in Session, CommitCloseTicket(s)
  PROVE  /\ Finish(s)
         /\ tickets' \in Seq(TicketRow)
         /\ DOMAIN tickets' = DOMAIN tickets /\ Len(tickets') = Len(tickets)
         /\ \A t \in DOMAIN tickets : tickets'[t].order = tickets[t].order
         /\ ticketAudit' \in Seq(Seq(AuditRow)) /\ Len(ticketAudit') = Len(ticketAudit)
         /\ UNCHANGED <<ops, idem, decisions, opAudit, answers>>
  <1> DEFINE t == cmd[s].ticket
             row == Closed(tickets[t], seen[s].resolution)
             events == ClosingEvents(seen[s].status, seen[s].resolution)
  <1>0. /\ cmd[s].kind = "close_ticket" /\ cmd[s] \in Command
        /\ seen[s] \in Snapshot /\ Finish(s)
    BY CommitFacts DEF CommitCloseTicket
  <1>1. /\ tickets' = [tickets EXCEPT ![t] = row]
        /\ ticketAudit' = [ticketAudit EXCEPT ![t] = ticketAudit[t] \o events]
        /\ UNCHANGED <<ops, idem, decisions, opAudit, answers>>
    BY DEF CommitCloseTicket
  <1>2. /\ tickets \in Seq(TicketRow) /\ t \in 1 .. Len(tickets) /\ tickets[t] \in TicketRow
        /\ ticketAudit \in Seq(Seq(AuditRow)) /\ t \in 1 .. Len(ticketAudit)
        /\ ticketAudit[t] \in Seq(AuditRow)
    BY <1>0 DEF Structure, TypeOK, Referential, TicketKind
  <1>3. row \in TicketRow /\ row.order = tickets[t].order
    BY <1>0, <1>2, ClosedRow DEF Snapshot
  <1>4. events \in Seq(AuditRow)
    BY <1>0, ClosingEventsType DEF Snapshot
  <1> HIDE DEF row, events
  <1>5. ticketAudit[t] \o events \in Seq(AuditRow)
    BY <1>2, <1>4, ConcatProperties
  <1>6. tickets' \in Seq(TicketRow) /\ DOMAIN tickets' = DOMAIN tickets /\ Len(tickets') = Len(tickets)
    BY <1>1, <1>2, <1>3, ExceptSeq, LenProperties
  <1>7. ticketAudit' \in Seq(Seq(AuditRow)) /\ Len(ticketAudit') = Len(ticketAudit)
    BY <1>1, <1>2, <1>5, ExceptSeq, LenProperties
  <1>8. \A u \in DOMAIN tickets : tickets'[u].order = tickets[u].order
    BY <1>1, <1>2, <1>3
  <1> QED
    BY <1>0, <1>1, <1>6, <1>7, <1>8

LEMMA CommitCloseStructure ==
  ASSUME Structure, NEW s \in Session, CommitCloseTicket(s)
  PROVE  Structure'
  <1>1. TypeOK'
    BY CommitCloseFacts, FinishFacts DEF Structure, TypeOK
  <1>2. Referential'
    BY CommitCloseFacts, ReferentialAfterFinish DEF Structure, Referential
  <1> QED
    BY <1>1, <1>2 DEF Structure

LEMMA InitStructure == Init => Structure
  <1>1. Nothing \in Snapshot
    BY SnapshotType
  <1> QED
    BY <1>1 DEF Init, Structure, TypeOK, Referential, NoCommand,
               LockingKind, OperationKind, TicketKind

LEMMA StructureInvariant == Spec => []Structure
  <1>1. Init => Structure
    BY InitStructure
  <1>2. Structure /\ [Next]_vars => Structure'
    <2> SUFFICES ASSUME Structure, [Next]_vars PROVE Structure'
      OBVIOUS
    <2>1. CASE UNCHANGED vars
      BY <2>1 DEF vars, tables, session, Structure, TypeOK, Referential
    <2>2. ASSUME NEW s \in Session, Begin(s) PROVE Structure'
      BY <2>2, BeginStructure
    <2>3. ASSUME NEW s \in Session, LockOrderForUpdate(s) PROVE Structure'
      BY <2>3, LockStructure
    <2>4. ASSUME NEW s \in Session, Check(s) PROVE Structure'
      BY <2>4, CheckStructure
    <2>5. ASSUME NEW s \in Session, CommitCreateTicket(s) PROVE Structure'
      BY <2>5, CommitCreateTicketStructure
    <2>6. ASSUME NEW s \in Session, CommitCreateRefund(s) PROVE Structure'
      BY <2>6, CommitCreateRefundStructure
    <2>7. ASSUME NEW s \in Session, CommitStatus(s) PROVE Structure'
      BY <2>7, CommitStatusStructure
    <2>8. ASSUME NEW s \in Session, CommitCloseTicket(s) PROVE Structure'
      BY <2>8, CommitCloseStructure
    <2>9. ASSUME NEW s \in Session,
                 Replay(s) \/ RefuseCheck(s) \/ RefuseWrite(s) \/ Disconnect(s)
          PROVE  Structure'
      BY <2>9, NoWriteStructure
    <2> QED
      BY <2>1, <2>2, <2>3, <2>4, <2>5, <2>6, <2>7, <2>8, <2>9
      DEF Next, Server, CommitAny, CommitStatus
  <1> QED
    BY <1>1, <1>2, PTL DEF Spec

\* Every variable keeps its type: the tables hold well-formed rows, and every
\* session a well-formed command about rows that exist.
THEOREM TypeCorrect == Spec => []TypeOK
  <1>1. Structure => TypeOK
    BY DEF Structure
  <1> QED
    BY <1>1, StructureInvariant, PTL

-----------------------------------------------------------------------------
(* What is paid out for an order *)

\* The rows of a table that a step keeps, with what they are about.
RowsKept ==
  /\ \A i \in DOMAIN tickets : i \in DOMAIN tickets' /\ tickets'[i].order = tickets[i].order
  /\ \A i \in DOMAIN ops : /\ i \in DOMAIN ops'
                           /\ ops'[i].order = ops[i].order
                           /\ ops'[i].amount = ops[i].amount

\* Amounts are numbers of cents.
LEMMA AmountType ==
  ASSUME Structure, NEW i \in DOMAIN ops
  PROVE  ops[i] \in OperationRow /\ ops[i].order \in Order /\ ops[i].amount \in Nat
  <1>1. ops[i] \in OperationRow
    BY DEF Structure, TypeOK
  <1>2. ops[i].order \in Order /\ ops[i].amount \in Amount
    BY <1>1 DEF OperationRow
  <1>3. Amount \subseteq Nat
    BY AmountAssumption
  <1> QED
    BY <1>1, <1>2, <1>3

\* The cents of one operation are as many as its amount.
LEMMA CentsOfOperation ==
  ASSUME NEW i, NEW a \in Nat
  PROVE  IsFiniteSet({i} \X (1 .. a)) /\ Cardinality({i} \X (1 .. a)) = a
  <1>1. IsFiniteSet({i}) /\ Cardinality({i}) = 1
    BY FS_Singleton
  <1>2. IsFiniteSet(1 .. a) /\ Cardinality(1 .. a) = a
    BY FS_Interval
  <1>3. /\ IsFiniteSet({i} \X (1 .. a))
        /\ Cardinality({i} \X (1 .. a)) = 1 * Cardinality(1 .. a)
    BY <1>1, <1>2, FS_Product
  <1> QED
    BY <1>2, <1>3

\* The executed cents of an order are finitely many, so that ExecutedSum is a number.
LEMMA ExecutedSumType ==
  ASSUME Structure, NEW o
  PROVE  IsFiniteSet(ExecutedCents(o)) /\ ExecutedSum(o) \in Nat
  <1> DEFINE S == ExecutedOps(o)
             cents == [i \in S |-> {i} \X (1 .. ops[i].amount)]
             T == {{i} \X (1 .. ops[i].amount) : i \in S}
  <1>1. ops \in Seq(OperationRow)
    BY DEF Structure, TypeOK
  <1>2. IsFiniteSet(DOMAIN ops)
    BY <1>1, FS_Interval
  <1>3. IsFiniteSet(S)
    BY <1>2, FS_Subset DEF ExecutedOps
  <1>4. cents \in Surjection(S, T)
    BY DEF Surjection
  <1>5. IsFiniteSet(T)
    BY <1>3, <1>4, FS_Surjection
  <1>6. \A i \in S : ops[i].amount \in Nat
    BY AmountType DEF ExecutedOps
  <1>7. \A C \in T : IsFiniteSet(C)
    <2>1. \A i \in S : IsFiniteSet({i} \X (1 .. ops[i].amount))
      BY <1>6, CentsOfOperation
    <2> HIDE DEF S
    <2> QED
      BY <2>1
  <1>8. IsFiniteSet(ExecutedCents(o))
    BY <1>5, <1>7, FS_UNION DEF ExecutedCents
  <1> QED
    BY <1>8, FS_CardinalityType DEF ExecutedSum

\* A step that executes no operation pays nothing out.
LEMMA SumKept ==
  ASSUME Structure, RowsKept, NEW o, ExecutedOps(o)' \subseteq ExecutedOps(o)
  PROVE  ExecutedSum(o)' \in Nat /\ ExecutedSum(o)' <= ExecutedSum(o)
  <1>1. \A i \in ExecutedOps(o) : ops'[i].amount = ops[i].amount
    BY DEF RowsKept, ExecutedOps
  <1>2. ExecutedCents(o)' \subseteq ExecutedCents(o)
    BY <1>1 DEF ExecutedCents
  <1> QED
    BY <1>2, ExecutedSumType, FS_Subset, FS_CardinalityType DEF ExecutedSum

\* A step that executes operation i pays out at most the amount of i.
LEMMA SumGrows ==
  ASSUME Structure, RowsKept, NEW o, NEW i \in DOMAIN ops,
         ExecutedOps(o)' \subseteq ExecutedOps(o) \cup {i}
  PROVE  ExecutedSum(o)' \in Nat /\ ExecutedSum(o)' <= ExecutedSum(o) + ops[i].amount
  <1> DEFINE new == {i} \X (1 .. ops[i].amount)
  <1>1. ops[i].amount \in Nat
    BY AmountType
  <1>2. IsFiniteSet(new) /\ Cardinality(new) = ops[i].amount
    BY <1>1, CentsOfOperation
  <1>3. IsFiniteSet(ExecutedCents(o)) /\ Cardinality(ExecutedCents(o)) \in Nat
    BY ExecutedSumType DEF ExecutedSum
  <1>4. \A j \in ExecutedOps(o) \cup {i} : ops'[j].amount = ops[j].amount
    BY DEF RowsKept, ExecutedOps
  <1>5. ExecutedCents(o)' \subseteq ExecutedCents(o) \cup new
    BY <1>4 DEF ExecutedCents
  <1> HIDE DEF new
  <1>6. /\ IsFiniteSet(ExecutedCents(o) \cup new)
        /\ Cardinality(ExecutedCents(o) \cup new) =
             Cardinality(ExecutedCents(o)) + ops[i].amount
               - Cardinality(ExecutedCents(o) \cap new)
    BY <1>2, <1>3, FS_Union
  <1>7. Cardinality(ExecutedCents(o) \cap new) \in Nat
    BY <1>3, FS_Intersection, FS_CardinalityType
  <1>8. /\ IsFiniteSet(ExecutedCents(o)')
        /\ Cardinality(ExecutedCents(o)') <= Cardinality(ExecutedCents(o) \cup new)
    BY <1>5, <1>6, FS_Subset
  <1>9. Cardinality(ExecutedCents(o)') \in Nat
    BY <1>8, FS_CardinalityType
  <1> QED
    BY <1>1, <1>3, <1>6, <1>7, <1>8, <1>9 DEF ExecutedSum

-----------------------------------------------------------------------------
(* The order lock *)

\* A step of session s leaves the command and the locks of the others alone.
OthersKept(s) ==
  /\ \A t \in Session \ {s} : stage'[t] = stage[t] /\ cmd'[t] = cmd[t]
  /\ \A o \in Order : lock[o] \notin {s, Free} => lock'[o] = lock[o]

\* A command keeps the order it locks while the rows it names are kept.
LEMMA OrderOfStable ==
  ASSUME Structure, RowsKept, NEW t \in Session, stage[t] # "idle",
         cmd[t].kind \in LockingKind, cmd'[t] = cmd[t]
  PROVE  OrderOf(t)' = OrderOf(t)
  <1>1. CASE cmd[t].kind = "create_ticket"
    BY <1>1 DEF OrderOf
  <1>2. CASE cmd[t].kind \in {"create_refund", "close_ticket"}
    <2>1. tickets'[cmd[t].ticket].order = tickets[cmd[t].ticket].order
      BY <1>2 DEF Structure, Referential, TicketKind, RowsKept
    <2> QED
      BY <1>2, <2>1 DEF OrderOf
  <1>3. CASE cmd[t].kind \in {"execute", "reconcile"}
    <2>1. ops'[cmd[t].op].order = ops[cmd[t].op].order
      BY <1>3 DEF Structure, Referential, OperationKind, RowsKept
    <2> QED
      BY <1>3, <2>1 DEF OrderOf
  <1> QED
    BY <1>1, <1>2, <1>3 DEF LockingKind

\* A session past the order lock runs a locking command.
LEMMA PastOrderLockKind ==
  ASSUME Structure, NEW t \in Session, PastOrderLock(t)
  PROVE  stage[t] # "idle" /\ cmd[t].kind \in LockingKind
  BY DEF Structure, Referential, PastOrderLock

\* No step of another session takes the order lock away.
LEMMA OthersHoldLock ==
  ASSUME Structure, HoldsOrderLock, RowsKept, NEW s \in Session, OthersKept(s),
         NEW t \in Session \ {s}, PastOrderLock(t)'
  PROVE  lock'[OrderOf(t)'] = t
  <1>1. PastOrderLock(t) /\ cmd'[t] = cmd[t]
    BY DEF OthersKept, PastOrderLock
  <1>2. OrderOf(t)' = OrderOf(t) /\ OrderOf(t) \in Order
    BY <1>1, PastOrderLockKind, OrderOfStable, OrderOfType
  <1>3. lock[OrderOf(t)] = t
    BY <1>1 DEF HoldsOrderLock
  <1> QED
    BY <1>2, <1>3, SessionAssumption DEF OthersKept

-----------------------------------------------------------------------------
(* The capacity of an order *)

\* What a step of session s does to the orders, as far as capacity can tell.
Pays(s) ==
  /\ Paying(s) /\ cmd[s].op \in DOMAIN ops
  /\ \A o : ExecutedOps(o)' \subseteq
       ExecutedOps(o) \cup (IF o = ops[cmd[s].op].order THEN {cmd[s].op} ELSE {})

PaysNothing == \A o : ExecutedOps(o)' \subseteq ExecutedOps(o)

\* A session that pays holds the lock of the order it pays for.
LEMMA PayerHoldsLock ==
  ASSUME Structure, HoldsOrderLock, NEW t \in Session, Paying(t)
  PROVE  /\ cmd[t].op \in DOMAIN ops
         /\ lock[ops[cmd[t].op].order] = t
  BY DEF HoldsOrderLock, Paying, PastOrderLock, LockingKind, OrderOf,
         Structure, Referential, OperationKind

\* The capacity invariant survives every step with these effects: other sessions'
\* commands and locks are left alone, the rows are kept, and either nothing is paid
\* or the session that was checked and holds the order lock pays.
LEMMA CapacityStep ==
  ASSUME CapacityInv, Structure', RowsKept, NEW s \in Session, OthersKept(s),
         PaysNothing \/ Pays(s),
         PastOrderLock(s)' => lock'[OrderOf(s)'] = s,
         Paying(s)' =>
           WithinCapacity(ops[cmd[s].op].order, ops[cmd[s].op].amount)'
  PROVE  CapacityInv'
  <1>0. Structure /\ HoldsOrderLock /\ PaymentFits /\ RefundCapacity
    BY DEF CapacityInv, Structure
  <1>1. HoldsOrderLock'
    <2> SUFFICES ASSUME NEW t \in Session, PastOrderLock(t)'
                 PROVE  lock'[OrderOf(t)'] = t
      BY DEF HoldsOrderLock
    <2> QED
      BY <1>0, OthersHoldLock
  <1>2. \A o \in Order : ExecutedSum(o) \in Nat /\ Paid[o] \in Nat
    BY <1>0, ExecutedSumType, PaidAssumption
  <1>3. PaymentFits'
    <2> SUFFICES ASSUME NEW t \in Session, Paying(t)'
                 PROVE  WithinCapacity(ops[cmd[t].op].order, ops[cmd[t].op].amount)'
      BY DEF PaymentFits
    <2>1. CASE t = s
      BY <2>1
    <2>2. CASE t # s
      <3>1. Paying(t) /\ cmd'[t] = cmd[t]
        BY <2>2 DEF OthersKept, Paying
      <3> PICK o, a : o = ops[cmd[t].op].order /\ a = ops[cmd[t].op].amount
        OBVIOUS
      <3>2. cmd[t].op \in DOMAIN ops /\ lock[o] = t
        BY <1>0, <3>1, PayerHoldsLock
      <3>3. ops'[cmd'[t].op].order = o /\ ops'[cmd'[t].op].amount = a
        BY <3>1, <3>2 DEF RowsKept
      <3>4. o \in Order /\ a \in Nat
        BY <1>0, <3>2, AmountType
      <3>5. ExecutedOps(o)' \subseteq ExecutedOps(o)
        <4>1. CASE PaysNothing
          BY <4>1 DEF PaysNothing
        <4>2. CASE Pays(s)
          <5>1. lock[ops[cmd[s].op].order] = s
            BY <1>0, <4>2, PayerHoldsLock DEF Pays
          <5> QED
            BY <2>2, <3>2, <4>2, <5>1 DEF Pays
        <4> QED
          BY <4>1, <4>2
      <3>6. ExecutedSum(o)' \in Nat /\ ExecutedSum(o)' <= ExecutedSum(o)
        BY <1>0, <3>5, SumKept
      <3>7. ExecutedSum(o) + a <= Paid[o]
        BY <1>0, <3>1 DEF PaymentFits, WithinCapacity
      <3> QED
        BY <1>2, <3>3, <3>4, <3>6, <3>7 DEF WithinCapacity
    <2> QED
      BY <2>1, <2>2
  <1>4. RefundCapacity'
    <2> SUFFICES ASSUME NEW o \in Order PROVE ExecutedSum(o)' <= Paid[o]
      BY DEF RefundCapacity
    <2>1. CASE ExecutedOps(o)' \subseteq ExecutedOps(o)
      <3>1. ExecutedSum(o)' \in Nat /\ ExecutedSum(o)' <= ExecutedSum(o)
        BY <1>0, <2>1, SumKept
      <3> QED
        BY <1>0, <1>2, <3>1 DEF RefundCapacity
    <2>2. CASE Pays(s) /\ o = ops[cmd[s].op].order
      <3>1. /\ ExecutedSum(o)' \in Nat
            /\ ExecutedSum(o)' <= ExecutedSum(o) + ops[cmd[s].op].amount
        BY <1>0, <2>2, SumGrows DEF Pays
      <3>2. ExecutedSum(o) + ops[cmd[s].op].amount <= Paid[o]
        BY <1>0, <2>2 DEF Pays, PaymentFits, WithinCapacity
      <3>3. ops[cmd[s].op].amount \in Nat
        BY <1>0, <2>2, AmountType DEF Pays
      <3> QED
        BY <1>2, <3>1, <3>2, <3>3
    <2> QED
      BY <2>1, <2>2 DEF Pays, PaysNothing
  <1> QED
    BY <1>1, <1>3, <1>4 DEF CapacityInv, Structure

-----------------------------------------------------------------------------
(* The effects of each action *)

\* A step that keeps the operations pays nothing; one that keeps the tickets too
\* keeps all rows.
LEMMA UnchangedRows ==
  /\ ops' = ops => PaysNothing
  /\ ops' = ops /\ tickets' = tickets => RowsKept
  BY DEF PaysNothing, ExecutedOps, RowsKept

\* After the end of its transaction a session neither needs a lock nor pays.
LEMMA FinishEffects ==
  ASSUME Structure, NEW s \in Session, Finish(s)
  PROVE  OthersKept(s) /\ ~ PastOrderLock(s)' /\ ~ Paying(s)'
  <1>1. stage'[s] = "idle" /\ OthersKept(s)
    BY FinishFacts DEF Structure, OthersKept
  <1> QED
    BY <1>1 DEF PastOrderLock, Paying

LEMMA StartEffects ==
  ASSUME Structure, NEW s \in Session, NEW c, NEW row, NEW st, Start(s, c, row, st),
         st = "blocked" \/ (st = "writing" /\ c.kind \in {"submit", "approve", "reject"})
  PROVE  /\ OthersKept(s) /\ ops' = ops /\ tickets' = tickets
         /\ ~ PastOrderLock(s)' /\ ~ Paying(s)'
  <1>1. ops' = ops /\ tickets' = tickets /\ OthersKept(s)
    BY DEF Start, tables, OthersKept, Structure, TypeOK
  <1>2. stage'[s] = st /\ cmd'[s] = c
    BY DEF Start, Structure, TypeOK
  <1> QED
    BY <1>1, <1>2 DEF PastOrderLock, Paying, LockingKind

LEMMA BeginEffects ==
  ASSUME Structure, NEW s \in Session, Begin(s)
  PROVE  /\ OthersKept(s) /\ ops' = ops /\ tickets' = tickets
         /\ ~ PastOrderLock(s)' /\ ~ Paying(s)'
  <1>1. CASE \E c, row : Start(s, c, row, "blocked")
    BY <1>1, StartEffects
  <1>2. CASE \E c, row : Start(s, c, row, "writing") /\ c.kind \in {"submit", "approve", "reject"}
    BY <1>2, StartEffects
  <1>3. ASSUME NEW i \in DOMAIN ops,
               BeginSubmit(s, i) \/ BeginApprove(s, i) \/ BeginReject(s, i)
        PROVE  \E c, row : Start(s, c, row, "writing") /\ c.kind \in {"submit", "approve", "reject"}
    <2> DEFINE command(kind) == [kind |-> kind, op |-> i]
    <2>1. \E kind \in {"submit", "approve", "reject"} :
            Start(s, command(kind), SnapshotOf(ops[i]), "writing")
      BY <1>3 DEF BeginSubmit, BeginApprove, BeginReject
    <2>2. \A kind : command(kind).kind = kind
      OBVIOUS
    <2> HIDE DEF command
    <2> QED
      BY <2>1, <2>2
  <1> QED
    BY <1>1, <1>2, <1>3
    DEF Begin, BeginCreateTicket, BeginCreateRefund, BeginExecute, BeginReconcile, BeginCloseTicket

LEMMA BeginCapacity ==
  ASSUME CapacityInv, Structure', NEW s \in Session, Begin(s)
  PROVE  CapacityInv'
  <1>1. Structure
    BY DEF CapacityInv, Structure
  <1> QED
    BY <1>1, BeginEffects, UnchangedRows, CapacityStep

LEMMA LockCapacity ==
  ASSUME CapacityInv, Structure', NEW s \in Session, LockOrderForUpdate(s)
  PROVE  CapacityInv'
  <1>1. Structure
    BY DEF CapacityInv, Structure
  <1>2. stage[s] # "idle" /\ cmd[s].kind \in LockingKind
    BY <1>1 DEF LockOrderForUpdate, Structure, Referential
  <1>3. ops' = ops /\ tickets' = tickets /\ cmd' = cmd
    BY DEF LockOrderForUpdate, tables
  <1>4. RowsKept /\ PaysNothing
    BY <1>3, UnchangedRows
  <1>5. OrderOf(s) \in Order /\ OrderOf(s)' = OrderOf(s)
    BY <1>1, <1>2, <1>3, <1>4, OrderOfType, OrderOfStable
  <1>6. lock'[OrderOf(s)'] = s /\ OthersKept(s) /\ stage'[s] = "locked"
    BY <1>1, <1>5 DEF LockOrderForUpdate, OthersKept, Structure, TypeOK
  <1>7. ~ Paying(s)'
    BY <1>6 DEF Paying
  <1> QED
    BY <1>4, <1>6, <1>7, CapacityStep

LEMMA CheckCapacity ==
  ASSUME CapacityInv, Structure', NEW s \in Session, Check(s)
  PROVE  CapacityInv'
  <1>1. Structure /\ HoldsOrderLock
    BY DEF CapacityInv, Structure
  <1>2. /\ ops' = ops /\ tickets' = tickets /\ cmd' = cmd /\ lock' = lock
        /\ OthersKept(s) /\ PastOrderLock(s) /\ Allowed(s)
    BY DEF Check, tables, OthersKept, PastOrderLock, CapacityInv, TypeOK
  <1>3. RowsKept /\ PaysNothing
    BY <1>2, UnchangedRows
  <1>4. OrderOf(s)' = OrderOf(s)
    BY <1>1, <1>2, <1>3, PastOrderLockKind, OrderOfStable
  <1>5. lock'[OrderOf(s)'] = s
    BY <1>1, <1>2, <1>4 DEF HoldsOrderLock
  <1>6. ASSUME Paying(s)'
        PROVE  WithinCapacity(ops[cmd[s].op].order, ops[cmd[s].op].amount)'
    <2>1. cmd[s].kind \in {"execute", "reconcile"} /\ cmd[s].result = "success"
      BY <1>2, <1>6 DEF Paying
    <2>2. WithinCapacity(ops[cmd[s].op].order, ops[cmd[s].op].amount)
      BY <1>2, <2>1 DEF Allowed, ExecuteAllowed, ReconcileAllowed
    <2> QED
      BY <1>2, <2>2 DEF WithinCapacity, ExecutedSum, ExecutedCents, ExecutedOps
  <1> QED
    BY <1>2, <1>3, <1>5, <1>6, CapacityStep

\* Transactions that end, and of the operations change none.
LEMMA EndCapacity ==
  ASSUME CapacityInv, Structure', NEW s \in Session, Finish(s), RowsKept,
         PaysNothing \/ Pays(s)
  PROVE  CapacityInv'
  <1>1. Structure
    BY DEF CapacityInv, Structure
  <1> QED
    BY <1>1, FinishEffects, CapacityStep

LEMMA NoWriteCapacity ==
  ASSUME CapacityInv, Structure', NEW s \in Session,
         Replay(s) \/ RefuseCheck(s) \/ RefuseWrite(s) \/ Disconnect(s)
  PROVE  CapacityInv'
  <1>1. Finish(s) /\ ops' = ops /\ tickets' = tickets
    BY DEF Replay, RefuseCheck, RefuseWrite, Disconnect, tables
  <1> QED
    BY <1>1, UnchangedRows, EndCapacity

LEMMA CreateTicketCapacity ==
  ASSUME CapacityInv, Structure', NEW s \in Session, CommitCreateTicket(s)
  PROVE  CapacityInv'
  <1>1. /\ Finish(s) /\ ops' = ops
        /\ \E row : tickets' = Append(tickets, row)
    BY DEF CommitCreateTicket, Commit
  <1>2. tickets \in Seq(TicketRow)
    BY DEF CapacityInv, TypeOK
  <1>3. RowsKept
    BY <1>1, <1>2 DEF RowsKept
  <1> QED
    BY <1>1, <1>3, UnchangedRows, EndCapacity

LEMMA CreateRefundCapacity ==
  ASSUME CapacityInv, Structure', NEW s \in Session, CommitCreateRefund(s)
  PROVE  CapacityInv'
  <1>1. /\ Finish(s) /\ tickets' = tickets
        /\ \E row : ops' = Append(ops, row) /\ row.status = "draft"
    BY DEF CommitCreateRefund, Commit
  <1>2. ops \in Seq(OperationRow)
    BY DEF CapacityInv, TypeOK
  <1>3. RowsKept /\ PaysNothing
    BY <1>1, <1>2 DEF RowsKept, PaysNothing, ExecutedOps
  <1> QED
    BY <1>1, <1>3, EndCapacity

LEMMA StatusCapacity ==
  ASSUME CapacityInv, Structure', NEW s \in Session, CommitStatus(s)
  PROVE  CapacityInv'
  <1>1. Structure
    BY DEF CapacityInv, Structure
  <1>2. PICK to \in OperationStatus : WriteStatus(s, to) /\ (to = "executed" => Paying(s))
    BY <1>1, CommitStatusFacts
  <1>3. Finish(s) /\ seen[s] \in Snapshot /\ cmd[s].op \in DOMAIN ops
    BY <1>1, CommitStatusFacts
  <1>4. /\ tickets' = tickets /\ DOMAIN ops' = DOMAIN ops
        /\ ops'[cmd[s].op].status = to
        /\ \A j \in DOMAIN ops : /\ ops'[j].order = ops[j].order
                                 /\ ops'[j].amount = ops[j].amount
                                 /\ j # cmd[s].op => ops'[j] = ops[j]
    BY <1>1, <1>2, <1>3, WriteStatusFacts
  <1>5. RowsKept
    BY <1>4 DEF RowsKept
  <1>6. CASE to = "executed"
    <2>1. Pays(s)
      BY <1>2, <1>3, <1>4, <1>6 DEF Pays, ExecutedOps
    <2> QED
      BY <1>3, <1>5, <2>1, EndCapacity
  <1>7. CASE to # "executed"
    <2>1. PaysNothing
      BY <1>4, <1>7 DEF PaysNothing, ExecutedOps
    <2> QED
      BY <1>3, <1>5, <2>1, EndCapacity
  <1> QED
    BY <1>6, <1>7

LEMMA CloseCapacity ==
  ASSUME CapacityInv, Structure', NEW s \in Session, CommitCloseTicket(s)
  PROVE  CapacityInv'
  <1>1. Structure
    BY DEF CapacityInv, Structure
  <1>2. Finish(s) /\ ops' = ops /\ RowsKept
    BY <1>1, CommitCloseFacts DEF RowsKept
  <1> QED
    BY <1>2, UnchangedRows, EndCapacity

-----------------------------------------------------------------------------
\* CapacityInv is an invariant: for any sessions, orders and amounts, a payment that
\* was checked under the order lock still fits when it is written.
THEOREM CapacityInvariant == Spec => []CapacityInv
  <1>1. Init => CapacityInv
    <2> SUFFICES ASSUME Init PROVE CapacityInv
      OBVIOUS
    <2>1. Structure
      BY InitStructure
    <2>2. HoldsOrderLock /\ PaymentFits
      BY DEF Init, HoldsOrderLock, PastOrderLock, PaymentFits, Paying
    <2>3. RefundCapacity
      <3>1. \A o \in Order : ExecutedCents(o) = {}
        BY DEF Init, ExecutedCents, ExecutedOps
      <3>2. \A o \in Order : ExecutedSum(o) = 0
        BY <3>1, FS_EmptySet DEF ExecutedSum
      <3> QED
        BY <3>2, PaidAssumption DEF RefundCapacity
    <2> QED
      BY <2>1, <2>2, <2>3 DEF CapacityInv, Structure
  <1>2. CapacityInv /\ Structure' /\ [Next]_vars => CapacityInv'
    <2> SUFFICES ASSUME CapacityInv, Structure', [Next]_vars PROVE CapacityInv'
      OBVIOUS
    <2>1. CASE UNCHANGED vars
      <3>1. HoldsOrderLock'
        BY <2>1 DEF vars, tables, session, CapacityInv, HoldsOrderLock, PastOrderLock, OrderOf
      <3>2. \A o : ExecutedSum(o)' = ExecutedSum(o)
        BY <2>1 DEF vars, tables, ExecutedSum, ExecutedCents, ExecutedOps
      <3>3. PaymentFits' /\ RefundCapacity'
        BY <2>1, <3>2 DEF vars, tables, session, CapacityInv, PaymentFits, Paying,
                          WithinCapacity, RefundCapacity
      <3> QED
        BY <3>1, <3>3 DEF CapacityInv, Structure
    <2>2. ASSUME NEW s \in Session, Begin(s) PROVE CapacityInv'
      BY <2>2, BeginCapacity
    <2>3. ASSUME NEW s \in Session, LockOrderForUpdate(s) PROVE CapacityInv'
      BY <2>3, LockCapacity
    <2>4. ASSUME NEW s \in Session, Check(s) PROVE CapacityInv'
      BY <2>4, CheckCapacity
    <2>5. ASSUME NEW s \in Session, CommitCreateTicket(s) PROVE CapacityInv'
      BY <2>5, CreateTicketCapacity
    <2>6. ASSUME NEW s \in Session, CommitCreateRefund(s) PROVE CapacityInv'
      BY <2>6, CreateRefundCapacity
    <2>7. ASSUME NEW s \in Session, CommitStatus(s) PROVE CapacityInv'
      BY <2>7, StatusCapacity
    <2>8. ASSUME NEW s \in Session, CommitCloseTicket(s) PROVE CapacityInv'
      BY <2>8, CloseCapacity
    <2>9. ASSUME NEW s \in Session,
                 Replay(s) \/ RefuseCheck(s) \/ RefuseWrite(s) \/ Disconnect(s)
          PROVE  CapacityInv'
      BY <2>9, NoWriteCapacity
    <2> QED
      BY <2>1, <2>2, <2>3, <2>4, <2>5, <2>6, <2>7, <2>8, <2>9
      DEF Next, Server, CommitAny, CommitStatus
  <1> QED
    BY <1>1, <1>2, StructureInvariant, PTL DEF Spec

\* However the sessions interleave, crash and retry, the executed refunds of an order
\* never add up to more than was paid for it.
THEOREM CapacityHolds == Spec => []RefundCapacity
  <1>1. CapacityInv => RefundCapacity
    BY DEF CapacityInv
  <1> QED
    BY <1>1, CapacityInvariant, PTL

-----------------------------------------------------------------------------
(* Idempotent creation *)

\* Nobody was told of a row that is not recorded.
KeysInv == OneRowPerKey /\ answers \subseteq idem

\* A replay repeats a record and tells nothing new.
LEMMA ReplayedAnswer ==
  ASSUME Structure, NEW s \in Session, NEW r \in Replayed(s)
  PROVE  r \in idem /\ AnswerTo(s, r.id) = r
  <1>1. /\ r \in idem /\ r \in IdemRow
        /\ r.type = cmd[s].kind /\ r.key = cmd[s].key /\ r.hash = HashOf(cmd[s])
    BY DEF Replayed, IdemOf, Structure, TypeOK
  <1>2. r = [type |-> r.type, key |-> r.key, hash |-> r.hash, id |-> r.id]
    BY <1>1 DEF IdemRow
  <1> QED
    BY <1>1, <1>2 DEF AnswerTo

\* What idempotent creation needs of a step that creates nothing.
KeysKept ==
  /\ DOMAIN ops' = DOMAIN ops
  /\ \A i \in DOMAIN ops : /\ ops'[i].key = ops[i].key
                           /\ ops'[i].ticket = ops[i].ticket
                           /\ ops'[i].amount = ops[i].amount
  /\ DOMAIN tickets' = DOMAIN tickets
  /\ \A t \in DOMAIN tickets : /\ tickets'[t].order = tickets[t].order
                               /\ tickets'[t].request = tickets[t].request
  /\ idem' = idem

LEMMA KeysStep ==
  ASSUME KeysInv, KeysKept, answers' \subseteq idem
  PROVE  KeysInv'
  <1>1. answers' \subseteq idem' /\ \A r1, r2 \in idem' : r1.type = r2.type /\ r1.key = r2.key => r1 = r2
    BY DEF KeysInv, KeysKept, OneRowPerKey
  <1>2. \A i \in DOMAIN ops' :
          [type |-> "create_refund", key |-> ops'[i].key,
           hash |-> <<ops'[i].ticket, ops'[i].amount>>, id |-> i] \in idem'
    BY DEF KeysInv, KeysKept, OneRowPerKey
  <1>3. \A t \in DOMAIN tickets' : \E r \in idem' :
          r.type = "create_ticket" /\ r.id = t /\ r.hash = <<tickets'[t].order, tickets'[t].request>>
    <2> SUFFICES ASSUME NEW t \in DOMAIN tickets
                 PROVE  \E r \in idem : /\ r.type = "create_ticket" /\ r.id = t
                                        /\ r.hash = <<tickets'[t].order, tickets'[t].request>>
      BY DEF KeysKept
    <2>1. PICK r \in idem : /\ r.type = "create_ticket" /\ r.id = t
                            /\ r.hash = <<tickets[t].order, tickets[t].request>>
      BY DEF KeysInv, OneRowPerKey
    <2>2. tickets'[t].order = tickets[t].order /\ tickets'[t].request = tickets[t].request
      BY DEF KeysKept
    <2> QED
      BY <2>1, <2>2
  <1> QED
    BY <1>1, <1>2, <1>3 DEF KeysInv, OneRowPerKey

\* A new record of an unused key is the only one of its key.
LEMMA NewRecord ==
  ASSUME Structure, KeysInv, NEW s \in Session, NEW id \in Nat, KeyUnused(s), RecordKey(s, id)
  PROVE  /\ AnswerTo(s, id) \in idem' /\ idem \subseteq idem' /\ answers' \subseteq idem'
         /\ \A r1, r2 \in idem' : r1.type = r2.type /\ r1.key = r2.key => r1 = r2
  <1>1. \A r \in idem : ~ (r.type = cmd[s].kind /\ r.key = cmd[s].key)
    BY DEF KeyUnused, IdemOf
  <1>2. AnswerTo(s, id).type = cmd[s].kind /\ AnswerTo(s, id).key = cmd[s].key
    BY DEF AnswerTo
  <1> QED
    BY <1>1, <1>2 DEF RecordKey, KeysInv, OneRowPerKey

LEMMA CreateTicketKeys ==
  ASSUME Structure, KeysInv, NEW s \in Session, CommitCreateTicket(s)
  PROVE  KeysInv'
  <1> DEFINE row == [order |-> cmd[s].order, request |-> cmd[s].request,
                     status |-> "open", resolution |-> "none", version |-> 1]
             id == Len(tickets) + 1
  <1>1. /\ cmd[s].kind = "create_ticket" /\ KeyUnused(s) /\ RecordKey(s, id)
        /\ tickets' = Append(tickets, row) /\ ops' = ops
    BY DEF CommitCreateTicket, Commit, Writable
  <1>2. /\ tickets \in Seq(TicketRow) /\ id \in Nat
    BY DEF Structure, TypeOK
  <1>3. /\ AnswerTo(s, id).type = "create_ticket" /\ AnswerTo(s, id).id = id
        /\ AnswerTo(s, id).hash = <<row.order, row.request>>
    BY <1>1 DEF AnswerTo, HashOf
  <1>4. /\ AnswerTo(s, id) \in idem' /\ idem \subseteq idem' /\ answers' \subseteq idem'
        /\ \A r1, r2 \in idem' : r1.type = r2.type /\ r1.key = r2.key => r1 = r2
    BY <1>1, <1>2, NewRecord
  <1> HIDE DEF row
  <1>5. /\ DOMAIN tickets' = 1 .. Len(tickets) + 1
        /\ \A t \in 1 .. Len(tickets) : t \in DOMAIN tickets /\ tickets'[t] = tickets[t]
        /\ tickets'[id] = row
    BY <1>1, <1>2
  <1>6. ASSUME NEW t \in DOMAIN tickets'
        PROVE  \E r \in idem' : /\ r.type = "create_ticket" /\ r.id = t
                                /\ r.hash = <<tickets'[t].order, tickets'[t].request>>
    <2>1. CASE t = id
      BY <2>1, <1>3, <1>4, <1>5
    <2>2. CASE t \in 1 .. Len(tickets)
      BY <2>2, <1>4, <1>5 DEF KeysInv, OneRowPerKey
    <2> QED
      BY <2>1, <2>2, <1>2, <1>5
  <1>7. \A i \in DOMAIN ops' :
          [type |-> "create_refund", key |-> ops'[i].key,
           hash |-> <<ops'[i].ticket, ops'[i].amount>>, id |-> i] \in idem'
    BY <1>1, <1>4 DEF KeysInv, OneRowPerKey
  <1> QED
    BY <1>4, <1>6, <1>7 DEF KeysInv, OneRowPerKey

LEMMA CreateRefundKeys ==
  ASSUME Structure, KeysInv, NEW s \in Session, CommitCreateRefund(s)
  PROVE  KeysInv'
  <1> DEFINE row == [ticket |-> cmd[s].ticket, order |-> OrderOf(s),
                     amount |-> cmd[s].amount, key |-> cmd[s].key,
                     status |-> "draft", version |-> 1, decision_version |-> 0]
             id == Len(ops) + 1
             record(i, op) == [type |-> "create_refund", key |-> op.key,
                               hash |-> <<op.ticket, op.amount>>, id |-> i]
  <1>1. /\ cmd[s].kind = "create_refund" /\ KeyUnused(s) /\ RecordKey(s, id)
        /\ ops' = Append(ops, row) /\ tickets' = tickets
    BY DEF CommitCreateRefund, Commit, Writable
  <1>2. /\ ops \in Seq(OperationRow) /\ id \in Nat
    BY DEF Structure, TypeOK
  <1>3. AnswerTo(s, id) = record(id, row)
    BY <1>1 DEF AnswerTo, HashOf
  <1>4. /\ AnswerTo(s, id) \in idem' /\ idem \subseteq idem' /\ answers' \subseteq idem'
        /\ \A r1, r2 \in idem' : r1.type = r2.type /\ r1.key = r2.key => r1 = r2
    BY <1>1, <1>2, NewRecord
  <1>5. \A i \in DOMAIN ops : record(i, ops[i]) \in idem
    BY DEF KeysInv, OneRowPerKey
  <1> HIDE DEF row
  <1>6. /\ DOMAIN ops' = 1 .. Len(ops) + 1
        /\ \A i \in 1 .. Len(ops) : i \in DOMAIN ops /\ ops'[i] = ops[i]
        /\ ops'[id] = row
    BY <1>1, <1>2
  <1>7. ASSUME NEW i \in DOMAIN ops' PROVE record(i, ops'[i]) \in idem'
    <2> HIDE DEF record
    <2>1. CASE i = id
      BY <2>1, <1>3, <1>4, <1>6
    <2>2. CASE i \in 1 .. Len(ops)
      BY <2>2, <1>4, <1>5, <1>6
    <2> QED
      BY <2>1, <2>2, <1>2, <1>6
  <1>8. \A t \in DOMAIN tickets' : \E r \in idem' :
          r.type = "create_ticket" /\ r.id = t /\ r.hash = <<tickets'[t].order, tickets'[t].request>>
    BY <1>1, <1>4 DEF KeysInv, OneRowPerKey
  <1> QED
    BY <1>4, <1>7, <1>8 DEF KeysInv, OneRowPerKey

\* A closed ticket is about the same request.
LEMMA CloseKeepsRequest ==
  ASSUME Structure, NEW s \in Session, CommitCloseTicket(s)
  PROVE  \A t \in DOMAIN tickets : tickets'[t].request = tickets[t].request
  <1> DEFINE t == cmd[s].ticket
  <1>1. tickets' = [tickets EXCEPT ![t] = Closed(tickets[t], seen[s].resolution)]
    BY DEF CommitCloseTicket
  <1>2. t \in DOMAIN tickets => tickets[t] \in TicketRow
    BY DEF Structure, TypeOK
  <1>3. t \in DOMAIN tickets =>
          Closed(tickets[t], seen[s].resolution).request = tickets[t].request
    BY <1>2 DEF Closed, TicketRow
  <1> QED
    BY <1>1, <1>3

LEMMA KeysNext ==
  ASSUME Structure, KeysInv, [Next]_vars
  PROVE  KeysInv'
  <1>1. CASE UNCHANGED vars
    BY <1>1, KeysStep DEF vars, tables, KeysKept, KeysInv
  <1>2. ASSUME NEW s \in Session,
               Begin(s) \/ LockOrderForUpdate(s) \/ Check(s) \/ RefuseCheck(s)
                 \/ RefuseWrite(s) \/ Disconnect(s)
        PROVE  KeysInv'
    <2>1. UNCHANGED <<tables, answers>>
      BY <1>2 DEF Begin, BeginCreateTicket, BeginCreateRefund, BeginSubmit, BeginApprove,
                  BeginReject, BeginExecute, BeginReconcile, BeginCloseTicket, Start,
                  LockOrderForUpdate, Check, RefuseCheck, RefuseWrite, Disconnect
    <2> QED
      BY <2>1, KeysStep DEF tables, KeysKept, KeysInv
  <1>3. ASSUME NEW s \in Session, Replay(s) PROVE KeysInv'
    <2>1. UNCHANGED tables /\ answers' \subseteq idem
      BY <1>3, ReplayedAnswer DEF Replay, KeysInv
    <2> QED
      BY <2>1, KeysStep DEF tables, KeysKept
  <1>4. ASSUME NEW s \in Session, CommitStatus(s) PROVE KeysInv'
    <2>1. PICK to \in OperationStatus : WriteStatus(s, to)
      BY <1>4, CommitStatusFacts
    <2>2. KeysKept /\ answers' = answers
      BY <1>4, <2>1, CommitStatusFacts, WriteStatusFacts DEF KeysKept
    <2> QED
      BY <2>2, KeysStep DEF KeysInv
  <1>5. ASSUME NEW s \in Session, CommitCloseTicket(s) PROVE KeysInv'
    <2>1. KeysKept /\ answers' = answers
      BY <1>5, CommitCloseFacts, CloseKeepsRequest DEF KeysKept
    <2> QED
      BY <2>1, KeysStep DEF KeysInv
  <1> QED
    BY <1>1, <1>2, <1>3, <1>4, <1>5, CreateTicketKeys, CreateRefundKeys
    DEF Next, Server, CommitAny, CommitStatus

LEMMA KeysInvariant == Spec => []KeysInv
  <1>1. Init => KeysInv
    BY DEF Init, KeysInv, OneRowPerKey
  <1> QED
    BY <1>1, KeysNext, StructureInvariant, PTL DEF Spec

\* Whatever keys the clients use and repeat, from whatever sessions, a key creates at
\* most one row and every row has the record of its key.
THEOREM KeysCreateOnce == Spec => []OneRowPerKey
  <1>1. KeysInv => OneRowPerKey
    BY DEF KeysInv
  <1> QED
    BY <1>1, KeysInvariant, PTL

\* A client that repeats a create command gets the row that it got before.
THEOREM RetriesGetTheSameRow == Spec => []RetriesAgree
  <1>1. KeysInv => RetriesAgree
    BY DEF KeysInv, OneRowPerKey, RetriesAgree
  <1> QED
    BY <1>1, KeysInvariant, PTL

-----------------------------------------------------------------------------
(* Versions, decisions and the audit of operations *)

\* The status a command gives its operation.
OutcomeOf(c) ==
  CASE c.kind = "submit" -> "pending_approval"
    [] c.kind = "approve" -> "approved"
    [] c.kind = "reject" -> "rejected"
    [] c.kind = "execute" -> IF c.result = "success" THEN "executed" ELSE "unknown"
    [] c.kind = "reconcile" -> IF c.result = "success" THEN "executed" ELSE "failed"

\* What session s read of the operation it is about to write allows its command,
\* and is what the operation is now, unless the version has moved on.
WritesOperation(s) == stage[s] = "writing" /\ cmd[s].kind \in OperationKind

ReadHolds(s) ==
  LET row == ops[cmd[s].op] IN
  /\ <<seen[s].status, OutcomeOf(cmd[s])>> \in OperationTransitions
  /\ seen[s].version <= row.version
  /\ seen[s].version = row.version => seen[s].status = row.status

ReadsHold == \A s \in Session : WritesOperation(s) => ReadHolds(s)

\* The decisions on an operation are what its status says they are.
DecisionsOf(i) == {d \in decisions : d.op = i}

DecisionsMatch ==
  /\ \A d \in decisions : d.op \in DOMAIN ops
  /\ \A i \in DOMAIN ops :
       /\ ops[i].status \in {"draft", "pending_approval"} => DecisionsOf(i) = {}
       /\ ops[i].status = "rejected" =>
            \E v \in Nat : DecisionsOf(i) = {[op |-> i, decision |-> "rejected", version |-> v]}
       /\ ops[i].status \in {"approved", "executed", "unknown", "failed"} =>
            DecisionsOf(i) = {[op |-> i, decision |-> "approved",
                               version |-> ops[i].decision_version]}

VersionsPositive == \A i \in DOMAIN ops : ops[i].version >= 1

OperationsInv ==
  ReadsHold /\ DecisionsMatch /\ VersionsPositive /\ OperationAuditComplete

LEMMA OperationFields ==
  ASSUME Structure, NEW i \in DOMAIN ops
  PROVE  /\ ops[i] \in OperationRow
         /\ ops[i].status \in OperationStatus
         /\ ops[i].version \in Nat /\ ops[i].decision_version \in Nat
  <1>1. ops[i] \in OperationRow
    BY DEF Structure, TypeOK
  <1> QED
    BY <1>1 DEF OperationRow

\* Rows of operations stay, and every write of one advances its version.
VersionsAdvance ==
  \A i \in DOMAIN ops : /\ i \in DOMAIN ops'
                        /\ ops'[i] = ops[i] \/ ops'[i].version = ops[i].version + 1

\* The commands of the other sessions are left alone, with what they have read.
ReadsKept(s) ==
  \A t \in Session \ {s} : stage'[t] = stage[t] /\ cmd'[t] = cmd[t] /\ seen'[t] = seen[t]

\* A write makes what the other sessions have read of the operation stale: their
\* version is behind from then on.
LEMMA ReadsStep ==
  ASSUME Structure, ReadsHold, NEW s \in Session, ReadsKept(s), VersionsAdvance,
         WritesOperation(s)' => ReadHolds(s)'
  PROVE  ReadsHold'
  <1> SUFFICES ASSUME NEW t \in Session, t # s, WritesOperation(t)'
               PROVE  ReadHolds(t)'
    BY DEF ReadsHold
  <1> DEFINE i == cmd[t].op
  <1>1. stage'[t] = stage[t] /\ cmd'[t] = cmd[t] /\ seen'[t] = seen[t]
    BY DEF ReadsKept
  <1>2. WritesOperation(t) /\ ReadHolds(t)
    BY <1>1 DEF WritesOperation, ReadsHold
  <1>3. i \in DOMAIN ops /\ ops[i].version \in Nat /\ seen[t].version \in Nat
    <2>1. i \in DOMAIN ops /\ seen[t] \in Snapshot
      BY <1>2 DEF WritesOperation, Structure, TypeOK, Referential
    <2> QED
      BY <2>1, OperationFields DEF Snapshot
  <1>4. CASE ops'[i] = ops[i]
    BY <1>1, <1>2, <1>4 DEF ReadHolds
  <1>5. CASE ops'[i].version = ops[i].version + 1
    <2>1. /\ <<seen[t].status, OutcomeOf(cmd[t])>> \in OperationTransitions
          /\ seen[t].version <= ops[i].version
      BY <1>2 DEF ReadHolds
    <2>2. seen[t].version <= ops'[i].version /\ seen[t].version # ops'[i].version
      BY <1>3, <1>5, <2>1
    <2>3. OutcomeOf(cmd[t])' = OutcomeOf(cmd[t])
      BY <1>1 DEF OutcomeOf
    <2> QED
      BY <1>1, <2>1, <2>2, <2>3 DEF ReadHolds
  <1> QED
    BY <1>3, <1>4, <1>5 DEF VersionsAdvance

\* A step that writes no operation keeps what is said of the written ones.
LEMMA QuietStep ==
  ASSUME Structure, OperationsInv, NEW s \in Session, ReadsKept(s),
         ops' = ops, decisions' = decisions, opAudit' = opAudit,
         WritesOperation(s)' => ReadHolds(s)'
  PROVE  OperationsInv'
  <1>1. ReadsHold'
    BY ReadsStep DEF VersionsAdvance, OperationsInv
  <1>2. DecisionsMatch'
    BY DEF OperationsInv, DecisionsMatch, DecisionsOf
  <1>3. VersionsPositive' /\ OperationAuditComplete'
    BY DEF OperationsInv, VersionsPositive, OperationAuditComplete
  <1> QED
    BY <1>1, <1>2, <1>3 DEF OperationsInv

\* A session that has ended its transaction is about to write nothing.
LEMMA FinishedReads ==
  ASSUME Structure, NEW s \in Session, Finish(s)
  PROVE  ReadsKept(s) /\ ~ WritesOperation(s)'
  BY FinishFacts DEF Structure, ReadsKept, WritesOperation

\* Submitting, approving and rejecting read what they will write when they begin.
LEMMA BeginReads ==
  ASSUME Structure, NEW s \in Session, Begin(s), WritesOperation(s)'
  PROVE  ReadHolds(s)'
  <1>1. \A c, row, st : Start(s, c, row, st) =>
          stage'[s] = st /\ cmd'[s] = c /\ seen'[s] = row /\ ops' = ops
    BY DEF Start, tables, Structure, TypeOK
  <1>2. ASSUME NEW c, NEW row, Start(s, c, row, "blocked") PROVE FALSE
    BY <1>1, <1>2 DEF WritesOperation
  <1>3. ASSUME NEW i \in DOMAIN ops,
               NEW kind \in {"submit", "approve", "reject"},
               <<ops[i].status, OutcomeOf([kind |-> kind, op |-> i])>> \in OperationTransitions,
               Start(s, [kind |-> kind, op |-> i], SnapshotOf(ops[i]), "writing")
        PROVE  ReadHolds(s)'
    <2> DEFINE c == [kind |-> kind, op |-> i]
    <2>1. cmd'[s] = c /\ seen'[s] = SnapshotOf(ops[i]) /\ ops' = ops
      BY <1>1, <1>3
    <2>2. OutcomeOf(cmd[s])' = OutcomeOf(c) /\ c.op = i
      BY <2>1 DEF OutcomeOf
    <2>3. ops[i].version \in Nat
      BY <1>3, OperationFields
    <2> HIDE DEF c
    <2> QED
      BY <1>3, <2>1, <2>2, <2>3 DEF ReadHolds, SnapshotOf, c
  <1>4. ASSUME NEW i \in DOMAIN ops,
               BeginSubmit(s, i) \/ BeginApprove(s, i) \/ BeginReject(s, i)
        PROVE  ReadHolds(s)'
    BY <1>3, <1>4 DEF BeginSubmit, BeginApprove, BeginReject, OutcomeOf
  <1> QED
    BY <1>2, <1>4 DEF Begin, BeginCreateTicket, BeginCreateRefund, BeginExecute,
                      BeginReconcile, BeginCloseTicket

\* Executing and reconciling read it again under the order lock.
LEMMA CheckReads ==
  ASSUME Structure, NEW s \in Session, Check(s), WritesOperation(s)'
  PROVE  ReadHolds(s)'
  <1> DEFINE i == cmd[s].op
  <1>1. /\ cmd' = cmd /\ ops' = ops /\ seen'[s] = RowUnderLock(s) /\ Allowed(s)
        /\ stage[s] = "locked"
    BY DEF Check, tables, Structure, TypeOK
  <1>2. cmd[s].kind \in {"execute", "reconcile"}
    BY <1>1 DEF WritesOperation, Structure, Referential, OperationKind, LockingKind
  <1>3. /\ i \in DOMAIN ops /\ ops[i].version \in Nat
        /\ cmd[s] \in Command
    BY <1>1, <1>2, OperationFields DEF Structure, Referential, OperationKind
  <1>4. seen'[s] = SnapshotOf(ops[i])
    BY <1>1, <1>2 DEF RowUnderLock
  <1>5. <<ops[i].status, OutcomeOf(cmd[s])>> \in OperationTransitions
    <2>1. CASE cmd[s].kind = "execute"
      BY <1>1, <2>1 DEF Allowed, ExecuteAllowed, OutcomeOf, OperationTransitions
    <2>2. CASE cmd[s].kind = "reconcile"
      BY <1>1, <2>2 DEF Allowed, ReconcileAllowed, OutcomeOf, OperationTransitions
    <2> QED
      BY <1>2, <2>1, <2>2
  <1>6. OutcomeOf(cmd[s])' = OutcomeOf(cmd[s])
    BY <1>1 DEF OutcomeOf
  <1> QED
    BY <1>1, <1>3, <1>4, <1>5, <1>6 DEF ReadHolds, SnapshotOf
-----------------------------------------------------------------------------
(* The writes of operations *)

\* A commit writes an operation that is as the session read it, and moves it along
\* OPERATION_TRANSITIONS.
LEMMA StatusEffects ==
  ASSUME Structure, ReadsHold, NEW s \in Session, CommitStatus(s)
  PROVE  LET i == cmd[s].op
             to == OutcomeOf(cmd[s])
         IN /\ i \in DOMAIN ops /\ seen[s] \in Snapshot /\ Finish(s)
            /\ <<ops[i].status, to>> \in OperationTransitions /\ to \in OperationStatus
            /\ seen[s].status = ops[i].status
            /\ WriteStatus(s, to)
            /\ decisions' = decisions \cup
                 (IF to \in {"approved", "rejected"}
                  THEN {[op |-> i, decision |-> to, version |-> seen[s].version]}
                  ELSE {})
  <1> DEFINE i == cmd[s].op
             to == OutcomeOf(cmd[s])
  <1>1. /\ i \in DOMAIN ops /\ seen[s] \in Snapshot /\ Finish(s)
        /\ stage[s] = "writing" /\ cmd[s].kind \in OperationKind
    BY CommitStatusFacts
  <1>2. ReadHolds(s)
    BY <1>1 DEF ReadsHold, WritesOperation
  <1>3. OpUnchanged(s)
    BY DEF CommitStatus, CommitSubmit, CommitApprove, CommitReject, CommitExecute,
           CommitReconcile, Commit, Writable
  <1>4. seen[s].status = ops[i].status /\ <<ops[i].status, to>> \in OperationTransitions
    BY <1>2, <1>3 DEF ReadHolds, OpUnchanged
  <1>5. to \in OperationStatus
    BY <1>1 DEF OutcomeOf, OperationKind, OperationStatus
  <1>6. /\ WriteStatus(s, to)
        /\ decisions' = decisions \cup
             (IF to \in {"approved", "rejected"}
              THEN {[op |-> i, decision |-> to, version |-> seen[s].version]}
              ELSE {})
    BY DEF CommitStatus, CommitSubmit, CommitApprove, CommitReject, CommitExecute,
           CommitReconcile, Commit, RecordDecision, OutcomeOf
  <1> QED
    BY <1>1, <1>4, <1>5, <1>6

\* Only an approval sets the decision version.
LEMMA DecisionVersionWritten ==
  ASSUME Structure, NEW s \in Session, seen[s] \in Snapshot, cmd[s].op \in DOMAIN ops,
         NEW to \in OperationStatus, WriteStatus(s, to)
  PROVE  ops'[cmd[s].op].decision_version =
           IF to = "approved" THEN seen[s].version ELSE ops[cmd[s].op].decision_version
  <1> DEFINE row == ops[cmd[s].op]
  <1>1. row \in OperationRow
    BY OperationFields
  <1>2. WithStatus(row, to, seen[s].version).decision_version =
          IF to = "approved" THEN seen[s].version ELSE row.decision_version
    BY <1>1 DEF WithStatus, OperationRow
  <1>3. ops'[cmd[s].op] = WithStatus(row, to, seen[s].version)
    BY DEF WriteStatus
  <1> QED
    BY <1>2, <1>3

LEMMA StatusDecisions ==
  ASSUME Structure, OperationsInv, NEW s \in Session, CommitStatus(s)
  PROVE  DecisionsMatch'
  <1>0. PICK i : i = cmd[s].op
    OBVIOUS
  <1> DEFINE from == ops[i].status
             to == OutcomeOf(cmd[s])
             v == seen[s].version
             decided(d, n) == [op |-> i, decision |-> d, version |-> n]
  <1>1. /\ i \in DOMAIN ops /\ seen[s] \in Snapshot
        /\ <<from, to>> \in OperationTransitions /\ to \in OperationStatus
        /\ WriteStatus(s, to)
        /\ decisions' = decisions \cup
             (IF to \in {"approved", "rejected"} THEN {decided(to, v)} ELSE {})
    BY <1>0, StatusEffects DEF OperationsInv
  <1>2. /\ DOMAIN ops' = DOMAIN ops /\ ops'[i].status = to
        /\ \A j \in DOMAIN ops : j # i => ops'[j] = ops[j]
        /\ ops'[i].decision_version = IF to = "approved" THEN v ELSE ops[i].decision_version
    BY <1>0, <1>1, WriteStatusFacts, DecisionVersionWritten
  <1>3. v \in Nat
    BY <1>1 DEF Snapshot
  <1>4. \A d \in decisions' : d.op \in DOMAIN ops'
    BY <1>1, <1>2 DEF OperationsInv, DecisionsMatch
  <1>5. \A j : j # i => DecisionsOf(j)' = DecisionsOf(j)
    BY <1>1 DEF DecisionsOf
  <1>6. DecisionsOf(i)' = DecisionsOf(i) \cup
          (IF to \in {"approved", "rejected"} THEN {decided(to, v)} ELSE {})
    BY <1>1 DEF DecisionsOf
  <1>7. /\ from \in {"draft", "pending_approval"} => DecisionsOf(i) = {}
        /\ from \in {"approved", "unknown"} =>
             DecisionsOf(i) = {decided("approved", ops[i].decision_version)}
    BY <1>1 DEF OperationsInv, DecisionsMatch
  <1> HIDE DEF from, to, v, decided
  <1>8. \/ from = "draft" /\ to \in {"pending_approval", "rejected"}
        \/ from = "pending_approval" /\ to \in {"approved", "rejected"}
        \/ from \in {"approved", "unknown"} /\ to \in {"executed", "unknown", "failed"}
    BY <1>1 DEF OperationTransitions
  <1>9. /\ to \in {"draft", "pending_approval"} => DecisionsOf(i)' = {}
        /\ to = "rejected" => DecisionsOf(i)' = {decided("rejected", v)}
        /\ to \in {"approved", "executed", "unknown", "failed"} =>
             DecisionsOf(i)' = {decided("approved", ops'[i].decision_version)}
    BY <1>2, <1>6, <1>7, <1>8
  <1>10. ASSUME NEW j \in DOMAIN ops'
         PROVE  /\ ops'[j].status \in {"draft", "pending_approval"} => DecisionsOf(j)' = {}
                /\ ops'[j].status = "rejected" =>
                     \E n \in Nat : DecisionsOf(j)' = {[op |-> j, decision |-> "rejected", version |-> n]}
                /\ ops'[j].status \in {"approved", "executed", "unknown", "failed"} =>
                     DecisionsOf(j)' = {[op |-> j, decision |-> "approved",
                                         version |-> ops'[j].decision_version]}
    <2>1. CASE j = i
      BY <2>1, <1>2, <1>3, <1>9 DEF decided
    <2>2. CASE j # i
      BY <2>2, <1>2, <1>5 DEF OperationsInv, DecisionsMatch
    <2> QED
      BY <2>1, <2>2
  <1> QED
    BY <1>4, <1>10 DEF DecisionsMatch

\* An unbroken path of events, and one more event from where it ends.
Path(events) ==
  \A n \in 2 .. Len(events) :
    /\ events[n].before = events[n - 1].after
    /\ <<events[n].before, events[n].after>> \in OperationTransitions

LEMMA PathExtends ==
  ASSUME NEW S, NEW old \in Seq(S), NEW event \in S, Path(old), Len(old) >= 1,
         old[Len(old)].after = event.before,
         <<event.before, event.after>> \in OperationTransitions
  PROVE  LET new == Append(old, event) IN
         /\ Path(new) /\ Len(new) = Len(old) + 1
         /\ new[1] = old[1] /\ new[Len(new)] = event
  <1> DEFINE new == Append(old, event)
  <1>1. /\ Len(old) \in Nat /\ Len(new) = Len(old) + 1
        /\ \A n \in 1 .. Len(old) : new[n] = old[n]
        /\ new[Len(old) + 1] = event
    OBVIOUS
  <1> HIDE DEF new
  <1>2. ASSUME NEW n \in 2 .. Len(new)
        PROVE  /\ new[n].before = new[n - 1].after
               /\ <<new[n].before, new[n].after>> \in OperationTransitions
    <2>1. n \in Int /\ n - 1 \in 1 .. Len(old) /\ new[n - 1] = old[n - 1]
      BY <1>1
    <2>2. CASE n = Len(old) + 1
      <3>1. n - 1 = Len(old) /\ new[n] = event
        BY <1>1, <2>2
      <3> QED
        BY <2>1, <3>1
    <2>3. CASE n \in 2 .. Len(old)
      <3>1. new[n] = old[n]
        BY <1>1, <2>3
      <3> QED
        BY <2>1, <2>3, <3>1 DEF Path
    <2> QED
      BY <1>1, <2>1, <2>2, <2>3
  <1>3. Path(new)
    BY <1>2 DEF Path
  <1> QED
    BY <1>1, <1>3 DEF new

LEMMA StatusAudit ==
  ASSUME Structure, OperationsInv, NEW s \in Session, CommitStatus(s)
  PROVE  VersionsPositive' /\ OperationAuditComplete'
  <1> DEFINE i == cmd[s].op
             from == ops[i].status
             to == OutcomeOf(cmd[s])
             event == [before |-> from, after |-> to]
  <1>1. /\ i \in DOMAIN ops /\ seen[s] \in Snapshot
        /\ <<from, to>> \in OperationTransitions /\ to \in OperationStatus
        /\ seen[s].status = from
        /\ WriteStatus(s, to)
    BY StatusEffects DEF OperationsInv
  <1>2. /\ DOMAIN ops' = DOMAIN ops /\ ops'[i].status = to
        /\ ops'[i].version = ops[i].version + 1
        /\ \A j \in DOMAIN ops : j # i => ops'[j] = ops[j]
    BY <1>1, WriteStatusFacts
  <1>3. /\ ops[i].version \in Nat /\ ops[i].version >= 1
        /\ i \in DOMAIN opAudit /\ opAudit[i] \in Seq(AuditRow)
    BY <1>1, OperationFields DEF Structure, TypeOK, Referential, OperationsInv, VersionsPositive
  <1>4. /\ opAudit'[i] = Append(opAudit[i], event)
        /\ \A j \in DOMAIN ops : j # i => opAudit'[j] = opAudit[j]
    BY <1>1, <1>3 DEF WriteStatus, Structure, TypeOK, Referential
  <1>5. VersionsPositive'
    BY <1>2, <1>3 DEF OperationsInv, VersionsPositive
  <1>6. /\ Path(opAudit'[i]) /\ Len(opAudit'[i]) = ops'[i].version
        /\ opAudit'[i][1] = [before |-> "none", after |-> "draft"]
        /\ opAudit'[i][Len(opAudit'[i])].after = ops'[i].status
    <2> DEFINE old == opAudit[i]
    <2>1. /\ Len(old) = ops[i].version /\ Path(old)
          /\ old[1] = [before |-> "none", after |-> "draft"]
          /\ old[Len(old)].after = from
      BY <1>1 DEF OperationsInv, OperationAuditComplete, Path
    <2>2. event.before = from /\ event.after = to
      OBVIOUS
    <2>3. event \in AuditRow
      BY <1>1, OperationFields DEF AuditRow
    <2>4. opAudit'[i] = Append(old, event) /\ old \in Seq(AuditRow)
      BY <1>3, <1>4
    <2> HIDE DEF event, from, to, old
    <2> QED
      BY <1>1, <1>2, <1>3, <2>1, <2>2, <2>3, <2>4, PathExtends
  <1>7. \A j \in DOMAIN ops : j # i =>
          /\ Path(opAudit'[j]) /\ Len(opAudit'[j]) = ops'[j].version
          /\ opAudit'[j][1] = [before |-> "none", after |-> "draft"]
          /\ opAudit'[j][Len(opAudit'[j])].after = ops'[j].status
    BY <1>2, <1>4 DEF OperationsInv, OperationAuditComplete, Path
  <1> QED
    BY <1>2, <1>5, <1>6, <1>7 DEF OperationAuditComplete, Path

\* A new draft has its first event and no decision.
LEMMA DraftOperations ==
  ASSUME Structure, OperationsInv, NEW s \in Session, CommitCreateRefund(s)
  PROVE  OperationsInv'
  <1> DEFINE row == [ticket |-> cmd[s].ticket, order |-> OrderOf(s),
                     amount |-> cmd[s].amount, key |-> cmd[s].key,
                     status |-> "draft", version |-> 1, decision_version |-> 0]
             event == [before |-> "none", after |-> "draft"]
  <1>0. PICK id : id = Len(ops) + 1
    OBVIOUS
  <1>1. /\ ops' = Append(ops, row) /\ opAudit' = Append(opAudit, <<event>>)
        /\ decisions' = decisions /\ Finish(s)
    BY DEF CommitCreateRefund, Commit
  <1>2. row.status = "draft" /\ row.version = 1
    OBVIOUS
  <1>3. /\ ops \in Seq(OperationRow) /\ opAudit \in Seq(Seq(AuditRow))
        /\ Len(opAudit) = Len(ops) /\ Len(ops) \in Nat
    BY DEF Structure, TypeOK, Referential
  <1> HIDE DEF row
  <1>4. /\ DOMAIN ops' = DOMAIN ops \cup {id} /\ id \notin DOMAIN ops
        /\ \A i \in DOMAIN ops : ops'[i] = ops[i] /\ opAudit'[i] = opAudit[i]
        /\ ops'[id] = row /\ opAudit'[id] = <<event>>
    BY <1>0, <1>1, <1>3
  <1>5. ReadsHold'
    BY <1>1, <1>4, FinishedReads, ReadsStep DEF VersionsAdvance, OperationsInv
  <1>6. DecisionsMatch'
    <2>1. \A d \in decisions' : d.op \in DOMAIN ops
      BY <1>1 DEF OperationsInv, DecisionsMatch
    <2>2. DecisionsOf(id)' = {} /\ \A i : DecisionsOf(i)' = DecisionsOf(i)
      BY <1>1, <1>4, <2>1 DEF DecisionsOf
    <2> QED
      BY <1>2, <1>4, <2>1, <2>2 DEF OperationsInv, DecisionsMatch
  <1>7. VersionsPositive'
    BY <1>2, <1>4 DEF OperationsInv, VersionsPositive
  <1>8. OperationAuditComplete'
    <2>1. /\ Len(opAudit'[id]) = 1 /\ opAudit'[id][1] = event
          /\ event.after = "draft" /\ Path(opAudit'[id])
      BY <1>4 DEF Path
    <2>2. \A i \in DOMAIN ops :
            /\ Path(opAudit'[i]) /\ Len(opAudit'[i]) = ops'[i].version
            /\ opAudit'[i][1] = event
            /\ opAudit'[i][Len(opAudit'[i])].after = ops'[i].status
      BY <1>4 DEF OperationsInv, OperationAuditComplete, Path
    <2> QED
      BY <1>2, <1>4, <2>1, <2>2 DEF OperationAuditComplete, Path
  <1> QED
    BY <1>5, <1>6, <1>7, <1>8 DEF OperationsInv

LEMMA StatusOperations ==
  ASSUME Structure, OperationsInv, NEW s \in Session, CommitStatus(s)
  PROVE  OperationsInv'
  <1>1. PICK to \in OperationStatus : WriteStatus(s, to)
    BY CommitStatusFacts
  <1>2. VersionsAdvance
    BY <1>1, CommitStatusFacts, WriteStatusFacts DEF VersionsAdvance
  <1>3. ReadsHold'
    BY <1>2, CommitStatusFacts, FinishedReads, ReadsStep DEF OperationsInv
  <1> QED
    BY <1>3, StatusDecisions, StatusAudit DEF OperationsInv

\* Steps that write no operation.
Quiet(s) ==
  \/ Begin(s) \/ LockOrderForUpdate(s) \/ Check(s) \/ Replay(s) \/ RefuseCheck(s)
  \/ RefuseWrite(s) \/ Disconnect(s) \/ CommitCreateTicket(s) \/ CommitCloseTicket(s)

LEMMA QuietOperations ==
  ASSUME Structure, OperationsInv, NEW s \in Session, Quiet(s)
  PROVE  OperationsInv'
  <1>1. ops' = ops /\ decisions' = decisions /\ opAudit' = opAudit
    BY DEF Quiet, Begin, BeginCreateTicket, BeginCreateRefund, BeginSubmit, BeginApprove,
           BeginReject, BeginExecute, BeginReconcile, BeginCloseTicket, Start,
           LockOrderForUpdate, Check, Replay, RefuseCheck, RefuseWrite, Disconnect,
           CommitCreateTicket, CommitCloseTicket, tables
  <1>2. CASE Begin(s)
    <2>1. ReadsKept(s)
      BY <1>2 DEF Begin, BeginCreateTicket, BeginCreateRefund, BeginSubmit, BeginApprove,
                  BeginReject, BeginExecute, BeginReconcile, BeginCloseTicket, Start,
                  ReadsKept, Structure, TypeOK
    <2> QED
      BY <1>1, <1>2, <2>1, BeginReads, QuietStep
  <1>3. CASE LockOrderForUpdate(s)
    <2>1. ReadsKept(s) /\ ~ WritesOperation(s)'
      BY <1>3 DEF LockOrderForUpdate, ReadsKept, WritesOperation, Structure, TypeOK
    <2> QED
      BY <1>1, <2>1, QuietStep
  <1>4. CASE Check(s)
    <2>1. ReadsKept(s)
      BY <1>4 DEF Check, ReadsKept, Structure, TypeOK
    <2> QED
      BY <1>1, <1>4, <2>1, CheckReads, QuietStep
  <1>5. CASE Finish(s)
    BY <1>1, <1>5, FinishedReads, QuietStep
  <1> QED
    BY <1>2, <1>3, <1>4, <1>5
    DEF Quiet, Replay, RefuseCheck, RefuseWrite, Disconnect, CommitCreateTicket,
        CommitCloseTicket, Commit

\* What was read, decided and audited of the operations agrees with them: an invariant
\* because each write checks the version it read.
LEMMA OperationsInvariant == Spec => []OperationsInv
  <1>1. Init => OperationsInv
    BY DEF Init, OperationsInv, ReadsHold, WritesOperation, DecisionsMatch,
           VersionsPositive, OperationAuditComplete
  <1>2. Structure /\ OperationsInv /\ [Next]_vars => OperationsInv'
    <2> SUFFICES ASSUME Structure, OperationsInv, [Next]_vars PROVE OperationsInv'
      OBVIOUS
    <2>1. CASE UNCHANGED vars
      <3>1. ReadsHold'
        BY <2>1 DEF vars, tables, session, OperationsInv, ReadsHold, WritesOperation,
                    ReadHolds, OutcomeOf
      <3>2. DecisionsMatch' /\ VersionsPositive' /\ OperationAuditComplete'
        BY <2>1 DEF vars, tables, OperationsInv, DecisionsMatch, DecisionsOf,
                    VersionsPositive, OperationAuditComplete
      <3> QED
        BY <3>1, <3>2 DEF OperationsInv
    <2>2. ASSUME NEW s \in Session, Quiet(s) PROVE OperationsInv'
      BY <2>2, QuietOperations
    <2>3. ASSUME NEW s \in Session, CommitCreateRefund(s) PROVE OperationsInv'
      BY <2>3, DraftOperations
    <2>4. ASSUME NEW s \in Session, CommitStatus(s) PROVE OperationsInv'
      BY <2>4, StatusOperations
    <2> QED
      BY <2>1, <2>2, <2>3, <2>4 DEF Next, Server, CommitAny, CommitStatus, Quiet
  <1> QED
    BY <1>1, <1>2, StructureInvariant, PTL DEF Spec

\* However many approvers decide at once, an operation gets one decision, at the
\* version it was made on, and its status follows it.
THEOREM OneDecision == Spec => []DecidedOnce
  <1>1. Structure /\ OperationsInv => DecidedOnce
    <2> SUFFICES ASSUME Structure, OperationsInv, NEW i \in DOMAIN ops
                 PROVE  LET made == DecisionsOf(i) IN
                        /\ Cardinality(made) <= 1
                        /\ ops[i].status = "rejected" <=> \E d \in made : d.decision = "rejected"
                        /\ ops[i].status \in {"approved", "executed", "unknown", "failed"} <=>
                             \E d \in made : d.decision = "approved"
                                          /\ d.version = ops[i].decision_version
      BY DEF DecidedOnce, DecisionsOf
    <2> DEFINE made == DecisionsOf(i)
               decided(d, v) == [op |-> i, decision |-> d, version |-> v]
    <2>1. /\ ops[i].status \in OperationStatus
          /\ ops[i].status \in {"draft", "pending_approval"} => made = {}
          /\ ops[i].status = "rejected" => \E v : made = {decided("rejected", v)}
          /\ ops[i].status \in {"approved", "executed", "unknown", "failed"} =>
               made = {decided("approved", ops[i].decision_version)}
      BY OperationFields DEF OperationsInv, DecisionsMatch
    <2>2. \A d, v : decided(d, v).decision = d /\ decided(d, v).version = v
      OBVIOUS
    <2> HIDE DEF made, decided
    <2>3. CASE made = {}
      BY <2>1, <2>3, FS_EmptySet DEF made, OperationStatus
    <2>4. CASE \E d, v : made = {decided(d, v)}
      <3>1. Cardinality(made) = 1
        BY <2>4, FS_Singleton
      <3>2. /\ ops[i].status = "rejected" <=> \E d \in made : d.decision = "rejected"
            /\ ops[i].status \in {"approved", "executed", "unknown", "failed"} <=>
                 \E d \in made : d.decision = "approved" /\ d.version = ops[i].decision_version
        BY <2>1, <2>2, <2>4 DEF OperationStatus
      <3> QED
        BY <3>1, <3>2 DEF made
    <2> QED
      BY <2>1, <2>3, <2>4 DEF OperationStatus
  <1> QED
    BY <1>1, StructureInvariant, OperationsInvariant, PTL

\* The audit of an operation is the path of its statuses, one event per version,
\* although no lock protects the status that the events are written from.
THEOREM AuditIsPath == Spec => []OperationAuditComplete
  <1>1. OperationsInv => OperationAuditComplete
    BY DEF OperationsInv
  <1> QED
    BY <1>1, OperationsInvariant, PTL

\* An operation that a step changes moves along OPERATION_TRANSITIONS.
LEMMA OperationMoves ==
  ASSUME Structure, OperationsInv, [Next]_vars, NEW i \in DOMAIN ops
  PROVE  /\ i \in DOMAIN ops' /\ ops'[i].ticket = ops[i].ticket
         /\ ops'[i] = ops[i] \/ <<ops[i].status, ops'[i].status>> \in OperationTransitions
  <1>1. CASE ops' = ops
    BY <1>1
  <1>2. ASSUME NEW s \in Session, CommitCreateRefund(s)
        PROVE  i \in DOMAIN ops' /\ ops'[i] = ops[i]
    <2>1. PICK row : ops' = Append(ops, row)
      BY <1>2 DEF CommitCreateRefund
    <2>2. ops \in Seq(OperationRow)
      BY DEF Structure, TypeOK
    <2> QED
      BY <2>1, <2>2
  <1>3. ASSUME NEW s \in Session, CommitStatus(s)
        PROVE  /\ i \in DOMAIN ops' /\ ops'[i].ticket = ops[i].ticket
               /\ ops'[i] = ops[i] \/ <<ops[i].status, ops'[i].status>> \in OperationTransitions
    <2> DEFINE j == cmd[s].op
               to == OutcomeOf(cmd[s])
    <2>1. /\ j \in DOMAIN ops /\ seen[s] \in Snapshot /\ to \in OperationStatus
          /\ <<ops[j].status, to>> \in OperationTransitions /\ WriteStatus(s, to)
      BY <1>3, StatusEffects DEF OperationsInv
    <2> HIDE DEF to
    <2>2. /\ DOMAIN ops' = DOMAIN ops /\ ops'[j].status = to
          /\ ops'[i].ticket = ops[i].ticket
          /\ i # j => ops'[i] = ops[i]
      BY <2>1, WriteStatusFacts
    <2> QED
      BY <2>1, <2>2
  <1>4. ASSUME NEW s \in Session, Quiet(s) PROVE ops' = ops
    BY <1>4 DEF Quiet, Begin, BeginCreateTicket, BeginCreateRefund, BeginSubmit, BeginApprove,
                BeginReject, BeginExecute, BeginReconcile, BeginCloseTicket, Start,
                LockOrderForUpdate, Check, Replay, RefuseCheck, RefuseWrite, Disconnect,
                CommitCreateTicket, CommitCloseTicket, tables
  <1> QED
    BY <1>1, <1>2, <1>3, <1>4 DEF Next, Server, CommitAny, CommitStatus, Quiet, vars, tables

\* A rejected, executed or failed operation is never changed again.
THEOREM TerminalStays == Spec => TerminalIsFinal
  <1>1. Structure /\ OperationsInv /\ [Next]_vars =>
          [\A i \in DOMAIN ops : ops[i].status \in TerminalStatus => ops'[i] = ops[i]]_vars
    <2>1. \A st, to : st \in TerminalStatus => <<st, to>> \notin OperationTransitions
      BY DEF TerminalStatus, OperationTransitions
    <2> QED
      BY <2>1, OperationMoves
  <1> QED
    BY <1>1, StructureInvariant, OperationsInvariant, PTL DEF Spec, TerminalIsFinal

-----------------------------------------------------------------------------
(* New drafts respect the order *)

\* What session s checked for its draft still holds while it holds the order lock.
Drafting(s) == stage[s] = "writing" /\ cmd[s].kind = "create_refund"

DraftsFit ==
  \A s \in Session : Drafting(s) =>
    ~ HasUnknown(OrderOf(s)) /\ WithinCapacity(OrderOf(s), cmd[s].amount)

\* Commands never take the rows that others name away.
LEMMA NextKeepsRows ==
  ASSUME Structure, OperationsInv, [Next]_vars
  PROVE  RowsKept
  <1>1. CASE ops' = ops /\ tickets' = tickets
    BY <1>1, UnchangedRows
  <1>2. ASSUME NEW s \in Session, CommitCreateTicket(s) PROVE RowsKept
    <2>1. ops' = ops /\ \E row : tickets' = Append(tickets, row)
      BY <1>2 DEF CommitCreateTicket
    <2> QED
      BY <2>1 DEF RowsKept, Structure, TypeOK
  <1>3. ASSUME NEW s \in Session, CommitCreateRefund(s) PROVE RowsKept
    <2>1. tickets' = tickets /\ \E row : ops' = Append(ops, row)
      BY <1>3 DEF CommitCreateRefund
    <2> QED
      BY <2>1 DEF RowsKept, Structure, TypeOK
  <1>4. ASSUME NEW s \in Session, CommitStatus(s) PROVE RowsKept
    BY <1>4, StatusEffects, WriteStatusFacts DEF RowsKept, OperationsInv
  <1>5. ASSUME NEW s \in Session, CommitCloseTicket(s) PROVE RowsKept
    BY <1>5, CommitCloseFacts DEF RowsKept
  <1>6. ASSUME NEW s \in Session, Quiet(s), ~ CommitCreateTicket(s), ~ CommitCloseTicket(s)
        PROVE  ops' = ops /\ tickets' = tickets
    BY <1>6 DEF Quiet, Begin, BeginCreateTicket, BeginCreateRefund, BeginSubmit, BeginApprove,
                BeginReject, BeginExecute, BeginReconcile, BeginCloseTicket, Start,
                LockOrderForUpdate, Check, Replay, RefuseCheck, RefuseWrite, Disconnect, tables
  <1> QED
    BY <1>1, <1>2, <1>3, <1>4, <1>5, <1>6
    DEF Next, Server, CommitAny, CommitStatus, Quiet, vars, tables

\* A step of session s makes no operation of order o executed or unknown, unless s
\* holds the lock of o.
LEMMA OrderStandsStill ==
  ASSUME Structure, HoldsOrderLock, OperationsInv, NEW s \in Session,
         Quiet(s) \/ CommitCreateRefund(s) \/ CommitStatus(s),
         NEW o, lock[o] # s
  PROVE  /\ HasUnknown(o)' => HasUnknown(o)
         /\ ExecutedOps(o)' \subseteq ExecutedOps(o)
  <1>1. CASE ops' = ops
    BY <1>1 DEF HasUnknown, ExecutedOps
  <1>2. CASE CommitCreateRefund(s)
    <2>1. PICK row : ops' = Append(ops, row) /\ row.status = "draft"
      BY <1>2 DEF CommitCreateRefund
    <2>2. ops \in Seq(OperationRow)
      BY DEF Structure, TypeOK
    <2> QED
      BY <2>1, <2>2 DEF HasUnknown, ExecutedOps
  <1>3. CASE CommitStatus(s)
    <2> DEFINE i == cmd[s].op
               to == OutcomeOf(cmd[s])
    <2>1. /\ i \in DOMAIN ops /\ seen[s] \in Snapshot /\ to \in OperationStatus
          /\ WriteStatus(s, to)
          /\ stage[s] = "writing" /\ cmd[s].kind \in OperationKind
      BY <1>3, StatusEffects, CommitStatusFacts DEF OperationsInv
    <2>2. to \in {"executed", "unknown"} => ops[i].order # o
      <3>1. to \in {"executed", "unknown"} => cmd[s].kind \in {"execute", "reconcile"}
        BY <2>1 DEF OutcomeOf, OperationKind
      <3> QED
        BY <2>1, <3>1 DEF HoldsOrderLock, PastOrderLock, LockingKind, OrderOf
    <2> HIDE DEF to
    <2>3. /\ DOMAIN ops' = DOMAIN ops /\ ops'[i].status = to
          /\ ops'[i].order = ops[i].order
          /\ \A j \in DOMAIN ops : j # i => ops'[j] = ops[j]
      BY <2>1, WriteStatusFacts
    <2> HIDE DEF i
    <2> QED
      BY <2>1, <2>2, <2>3 DEF HasUnknown, ExecutedOps
  <1>4. CASE Quiet(s)
    BY <1>1, <1>4 DEF Quiet, Begin, BeginCreateTicket, BeginCreateRefund, BeginSubmit,
                BeginApprove, BeginReject, BeginExecute, BeginReconcile, BeginCloseTicket, Start,
                LockOrderForUpdate, Check, Replay, RefuseCheck, RefuseWrite, Disconnect,
                CommitCreateTicket, CommitCloseTicket, tables
  <1> QED
    BY <1>2, <1>3, <1>4

\* A session gets to the write of a draft by the check.
LEMMA DraftingBegins ==
  ASSUME Structure, NEW s \in Session,
         Quiet(s) \/ CommitCreateRefund(s) \/ CommitStatus(s), Drafting(s)'
  PROVE  Check(s)
  <1>1. CASE Finish(s)
    BY <1>1, FinishFacts DEF Structure, Drafting
  <1>2. CASE LockOrderForUpdate(s)
    BY <1>2 DEF LockOrderForUpdate, Drafting, Structure, TypeOK
  <1>3. CASE Begin(s)
    <2>1. \A c, row, st : Start(s, c, row, st) => stage'[s] = st /\ cmd'[s] = c
      BY DEF Start, Structure, TypeOK
    <2>2. ASSUME NEW c, NEW row, Start(s, c, row, "blocked") PROVE FALSE
      BY <2>1, <2>2 DEF Drafting
    <2>3. ASSUME NEW i, NEW kind \in {"submit", "approve", "reject"}, NEW row,
                 Start(s, [kind |-> kind, op |-> i], row, "writing")
          PROVE  FALSE
      BY <2>1, <2>3 DEF Drafting
    <2> QED
      BY <1>3, <2>2, <2>3
      DEF Begin, BeginCreateTicket, BeginCreateRefund, BeginSubmit, BeginApprove,
          BeginReject, BeginExecute, BeginReconcile, BeginCloseTicket
  <1> QED
    BY <1>1, <1>2, <1>3, CommitStatusFacts
    DEF Quiet, Replay, RefuseCheck, RefuseWrite, Disconnect, CommitCreateTicket,
        CommitCloseTicket, CommitCreateRefund, Commit

\* A step of one session leaves the commands of the others alone.
LEMMA OthersLeftAlone ==
  ASSUME Structure, NEW s \in Session,
         Quiet(s) \/ CommitCreateRefund(s) \/ CommitStatus(s)
  PROVE  ReadsKept(s)
  <1>1. CASE Finish(s)
    BY <1>1, FinishedReads
  <1>2. CASE \E c, row, st : Start(s, c, row, st)
    BY <1>2 DEF Start, ReadsKept, Structure, TypeOK
  <1>3. CASE LockOrderForUpdate(s) \/ Check(s)
    BY <1>3 DEF LockOrderForUpdate, Check, ReadsKept, Structure, TypeOK
  <1> QED
    BY <1>1, <1>2, <1>3, CommitStatusFacts
    DEF Quiet, Begin, BeginCreateTicket, BeginCreateRefund, BeginSubmit, BeginApprove,
        BeginReject, BeginExecute, BeginReconcile, BeginCloseTicket, Replay, RefuseCheck,
        RefuseWrite, Disconnect, CommitCreateTicket, CommitCloseTicket,
        CommitCreateRefund, Commit

LEMMA DraftsStep ==
  ASSUME CapacityInv, OperationsInv, DraftsFit, [Next]_vars, NEW s \in Session,
         Quiet(s) \/ CommitCreateRefund(s) \/ CommitStatus(s)
  PROVE  DraftsFit'
  <1> SUFFICES ASSUME NEW t \in Session, Drafting(t)'
               PROVE  (~ HasUnknown(OrderOf(t)) /\ WithinCapacity(OrderOf(t), cmd[t].amount))'
    BY DEF DraftsFit
  <1>0. Structure /\ HoldsOrderLock /\ RowsKept
    BY NextKeepsRows DEF CapacityInv, Structure
  <1>1. CASE t = s
    <2>1. Check(s)
      BY <1>0, <1>1, DraftingBegins
    <2>2. ops' = ops /\ tickets' = tickets /\ cmd' = cmd /\ Allowed(s)
      BY <2>1 DEF Check, tables
    <2>3. cmd[s].kind = "create_refund" /\ RefundAllowed(s)
      BY <1>1, <2>2 DEF Drafting, Allowed
    <2> QED
      BY <1>1, <2>2, <2>3 DEF RefundAllowed, HasUnknown, WithinCapacity, ExecutedSum,
                              ExecutedCents, ExecutedOps, OrderOf
  <1>2. CASE t # s
    <2>0. PICK o : o = tickets[cmd[t].ticket].order
      OBVIOUS
    <2>1. cmd'[t] = cmd[t] /\ Drafting(t)
      BY <1>0, <1>2, OthersLeftAlone DEF ReadsKept, Drafting
    <2>2. /\ stage[t] # "idle" /\ cmd[t].kind \in LockingKind /\ cmd[t] \in Command
          /\ OrderOf(t) = o /\ PastOrderLock(t)
      BY <1>0, <2>0, <2>1 DEF Drafting, LockingKind, OrderOf, PastOrderLock, Structure, Referential
    <2>3. OrderOf(t)' = o /\ o \in Order
      BY <1>0, <2>1, <2>2, OrderOfStable, OrderOfType
    <2>4. lock[o] = t
      BY <1>0, <2>2 DEF HoldsOrderLock
    <2>5. ~ HasUnknown(o) /\ WithinCapacity(o, cmd[t].amount)
      BY <2>1, <2>2 DEF DraftsFit
    <2>6. (HasUnknown(o)' => HasUnknown(o)) /\ ExecutedOps(o)' \subseteq ExecutedOps(o)
      BY <1>0, <1>2, <2>4, OrderStandsStill
    <2>7. ~ HasUnknown(o)' /\ ExecutedSum(o)' \in Nat /\ ExecutedSum(o)' <= ExecutedSum(o)
          /\ ExecutedSum(o) \in Nat
      BY <1>0, <2>5, <2>6, SumKept, ExecutedSumType
    <2>8. cmd[t].amount \in Nat /\ Paid[o] \in Nat
      BY <2>1, <2>2, <2>3, CommandFields, AmountAssumption, PaidAssumption DEF Drafting
    <2>9. ExecutedSum(o)' + cmd'[t].amount <= Paid[o]
      BY <2>1, <2>5, <2>7, <2>8 DEF WithinCapacity
    <2> QED
      BY <2>3, <2>7, <2>9 DEF WithinCapacity, HasUnknown, ExecutedSum, ExecutedCents, ExecutedOps
  <1> QED
    BY <1>1, <1>2

LEMMA NextCases ==
  ASSUME [Next]_vars
  PROVE  \/ UNCHANGED vars
         \/ \E s \in Session : Quiet(s) \/ CommitCreateRefund(s) \/ CommitStatus(s)
  BY DEF Next, Server, CommitAny, CommitStatus, Quiet

\* What a draft was checked against holds until it is written.
LEMMA DraftsInvariant == Spec => []DraftsFit
  <1>1. Init => DraftsFit
    BY DEF Init, DraftsFit, Drafting
  <1>2. CapacityInv /\ OperationsInv /\ DraftsFit /\ [Next]_vars => DraftsFit'
    <2>1. UNCHANGED vars /\ DraftsFit => DraftsFit'
      BY DEF vars, tables, session, DraftsFit, Drafting, HasUnknown, WithinCapacity,
             ExecutedSum, ExecutedCents, ExecutedOps, OrderOf
    <2> QED
      BY <2>1, NextCases, DraftsStep
  <1> QED
    BY <1>1, <1>2, CapacityInvariant, OperationsInvariant, PTL DEF Spec

\* No draft is added to an order with an uncertain refund, nor one that does not fit.
THEOREM DraftsAreSafe == Spec => DraftsRespectOrder
  <1>1. Structure /\ OperationsInv /\ DraftsFit /\ [Next]_vars =>
          [Len(ops') > Len(ops) =>
             LET draft == ops'[Len(ops')] IN
             ~ HasUnknown(draft.order) /\ WithinCapacity(draft.order, draft.amount)]_vars
    <2> SUFFICES ASSUME Structure, OperationsInv, DraftsFit, [Next]_vars, Len(ops') > Len(ops)
                 PROVE  LET draft == ops'[Len(ops')] IN
                        ~ HasUnknown(draft.order) /\ WithinCapacity(draft.order, draft.amount)
      OBVIOUS
    <2>1. ops \in Seq(OperationRow) /\ Len(ops) \in Nat
      BY DEF Structure, TypeOK
    <2>2. CASE ops' = ops
      BY <2>1, <2>2
    <2>3. ASSUME NEW s \in Session, CommitStatus(s) PROVE FALSE
      <3>1. Len(ops') = Len(ops)
        BY <2>3, StatusEffects, WriteStatusFacts DEF OperationsInv
      <3> QED
        BY <2>1, <3>1
    <2>4. ASSUME NEW s \in Session, CommitCreateRefund(s)
          PROVE  LET draft == ops'[Len(ops')] IN
                 ~ HasUnknown(draft.order) /\ WithinCapacity(draft.order, draft.amount)
      <3>1. Drafting(s)
        BY <2>4 DEF CommitCreateRefund, Commit, Drafting
      <3>2. PICK row : /\ ops' = Append(ops, row)
                       /\ row.order = OrderOf(s) /\ row.amount = cmd[s].amount
        BY <2>4 DEF CommitCreateRefund
      <3>3. ops'[Len(ops')] = row
        BY <2>1, <3>2
      <3> QED
        BY <3>1, <3>2, <3>3 DEF DraftsFit
    <2>5. ASSUME NEW s \in Session, Quiet(s) PROVE ops' = ops
      BY <2>5 DEF Quiet, Begin, BeginCreateTicket, BeginCreateRefund, BeginSubmit,
                  BeginApprove, BeginReject, BeginExecute, BeginReconcile, BeginCloseTicket,
                  Start, LockOrderForUpdate, Check, Replay, RefuseCheck, RefuseWrite,
                  Disconnect, CommitCreateTicket, CommitCloseTicket, tables
    <2> QED
      BY <2>2, <2>3, <2>4, <2>5, NextCases DEF vars, tables
  <1> QED
    BY <1>1, StructureInvariant, OperationsInvariant, DraftsInvariant, PTL
    DEF Spec, DraftsRespectOrder

-----------------------------------------------------------------------------
(* Tickets *)

HasOperation(t, st) == \E i \in OpsOfTicket(t) : ops[i].status = st

\* A resolution has an operation of the ticket as its cause.
Caused(t, resolution) ==
  /\ resolution = "refunded" => HasOperation(t, "executed")
  /\ resolution = "rejected" => HasOperation(t, "rejected")

Closings(t) == {n \in DOMAIN ticketAudit[t] : ticketAudit[t][n].after = "closed"}

TicketsMatch ==
  \A t \in DOMAIN tickets :
    /\ tickets[t].version = Len(ticketAudit[t])
    /\ tickets[t].status # "closed" => Closings(t) = {}
    /\ tickets[t].status = "closed" => Closings(t) = {Len(ticketAudit[t])}
    /\ Caused(t, tickets[t].resolution)

\* A session that closes a ticket has read it open, unless its version has moved on,
\* and it closes it for a cause.
Closing(s) == stage[s] # "idle" /\ cmd[s].kind = "close_ticket"

CloseReadHolds(s) ==
  LET t == cmd[s].ticket IN
  /\ seen[s].version <= tickets[t].version
  /\ seen[s].version = tickets[t].version => tickets[t].status # "closed"
  /\ stage[s] = "writing" => Caused(t, seen[s].resolution)

TicketsInv == TicketsMatch /\ \A s \in Session : Closing(s) => CloseReadHolds(s)

\* An operation that caused a resolution stays as it is.
LEMMA CausesStay ==
  ASSUME Structure, OperationsInv, [Next]_vars, NEW t, NEW resolution,
         Caused(t, resolution)
  PROVE  Caused(t, resolution)'
  <1>1. ASSUME NEW st \in {"executed", "rejected"}, HasOperation(t, st)
        PROVE  HasOperation(t, st)'
    <2>1. PICK i \in DOMAIN ops : ops[i].ticket = t /\ ops[i].status = st
      BY <1>1 DEF HasOperation, OpsOfTicket
    <2>2. \A to : <<st, to>> \notin OperationTransitions
      BY DEF OperationTransitions
    <2>3. i \in DOMAIN ops' /\ ops'[i] = ops[i]
      BY <2>1, <2>2, OperationMoves
    <2> QED
      BY <2>1, <2>3 DEF HasOperation, OpsOfTicket
  <1> QED
    BY <1>1 DEF Caused

\* What the closing of a ticket needs of a step: the row and its audit are as they
\* were, or the ticket was written and its version moved on.
TicketsAdvance ==
  \A t \in DOMAIN tickets :
    /\ t \in DOMAIN tickets'
    /\ \/ tickets'[t] = tickets[t]
       \/ \E n \in {1, 2} : tickets'[t].version = tickets[t].version + n

LEMMA CloseReadsStep ==
  ASSUME Structure, OperationsInv, TicketsInv, [Next]_vars, TicketsAdvance,
         NEW s \in Session, ReadsKept(s), Closing(s)' => CloseReadHolds(s)'
  PROVE  \A t \in Session : Closing(t)' => CloseReadHolds(t)'
  <1> SUFFICES ASSUME NEW u \in Session, u # s, Closing(u)'
               PROVE  CloseReadHolds(u)'
    OBVIOUS
  <1>0. PICK t : t = cmd[u].ticket
    OBVIOUS
  <1>1. stage'[u] = stage[u] /\ cmd'[u] = cmd[u] /\ seen'[u] = seen[u]
    BY DEF ReadsKept
  <1>2. CloseReadHolds(u) /\ cmd[u].kind = "close_ticket"
    BY <1>1 DEF TicketsInv, Closing
  <1>3. /\ t \in DOMAIN tickets /\ t \in DOMAIN tickets'
        /\ seen[u].version \in Nat /\ tickets[t].version \in Nat
    <2>1. t \in DOMAIN tickets /\ tickets[t] \in TicketRow /\ seen[u] \in Snapshot
      BY <1>0, <1>2 DEF Structure, TypeOK, Referential, TicketKind
    <2> QED
      BY <2>1 DEF TicketsAdvance, TicketRow, Snapshot
  <1>4. stage'[u] = "writing" => Caused(t, seen[u].resolution)'
    <2>1. PICK resolution : resolution = seen[u].resolution /\ resolution = seen'[u].resolution
      BY <1>1
    <2>2. stage'[u] = "writing" => Caused(t, resolution)
      BY <1>0, <1>1, <1>2, <2>1 DEF CloseReadHolds
    <2>3. stage'[u] = "writing" => Caused(t, resolution)'
      BY <2>2, CausesStay
    <2> QED
      BY <2>1, <2>3 DEF Caused
  <1>5. /\ seen[u].version <= tickets'[t].version
        /\ seen[u].version = tickets'[t].version => tickets'[t].status # "closed"
    <2>1. /\ seen[u].version <= tickets[t].version
          /\ seen[u].version = tickets[t].version => tickets[t].status # "closed"
      BY <1>0, <1>2 DEF CloseReadHolds
    <2>2. CASE tickets'[t] = tickets[t]
      BY <2>1, <2>2
    <2>3. CASE \E n \in {1, 2} : tickets'[t].version = tickets[t].version + n
      BY <1>3, <2>1, <2>3
    <2> QED
      BY <1>3, <2>2, <2>3 DEF TicketsAdvance
  <1> QED
    BY <1>0, <1>1, <1>4, <1>5 DEF CloseReadHolds, Caused

\* A step that writes no ticket keeps what is said of the tickets.
LEMMA QuietTickets ==
  ASSUME Structure, OperationsInv, TicketsInv, [Next]_vars,
         tickets' = tickets, ticketAudit' = ticketAudit,
         NEW s \in Session, ReadsKept(s), Closing(s)' => CloseReadHolds(s)'
  PROVE  TicketsInv'
  <1>1. TicketsAdvance
    BY DEF TicketsAdvance
  <1>2. \A u \in Session : Closing(u)' => CloseReadHolds(u)'
    BY <1>1, CloseReadsStep
  <1>3. TicketsMatch'
    <2> SUFFICES ASSUME NEW t \in DOMAIN tickets
                 PROVE  /\ tickets'[t].version = Len(ticketAudit'[t])
                        /\ tickets'[t].status # "closed" => Closings(t)' = {}
                        /\ tickets'[t].status = "closed" => Closings(t)' = {Len(ticketAudit'[t])}
                        /\ Caused(t, tickets[t].resolution)'
      BY DEF TicketsMatch
    <2>0. PICK resolution : resolution = tickets[t].resolution
      OBVIOUS
    <2>1. Caused(t, resolution)
      BY <2>0 DEF TicketsInv, TicketsMatch
    <2>2. Caused(t, resolution)'
      BY <2>1, CausesStay
    <2>3. Caused(t, tickets[t].resolution)'
      BY <2>0, <2>2 DEF Caused
    <2>4. Closings(t)' = Closings(t)
      BY DEF Closings
    <2> QED
      BY <2>3, <2>4 DEF TicketsInv, TicketsMatch
  <1> QED
    BY <1>2, <1>3 DEF TicketsInv

\* Before its write, closing a ticket reads it and then its operations.
LEMMA CloseReads ==
  ASSUME Structure, TicketsInv, NEW s \in Session, tickets' = tickets,
         Begin(s) \/ LockOrderForUpdate(s) \/ Check(s), Closing(s)'
  PROVE  CloseReadHolds(s)'
  <1>1. CASE Begin(s)
    <2>1. \A c, row, st : Start(s, c, row, st) =>
            stage'[s] = st /\ cmd'[s] = c /\ seen'[s] = row
      BY DEF Start, Structure, TypeOK
    <2>2. PICK t \in DOMAIN tickets : BeginCloseTicket(s, t)
      <3>1. \A c, row, st : Start(s, c, row, st) => c.kind = "close_ticket"
        BY <2>1 DEF Closing
      <3>2. ASSUME NEW k, NEW o, NEW r, BeginCreateTicket(s, k, o, r) PROVE FALSE
        BY <3>1, <3>2 DEF BeginCreateTicket
      <3>3. ASSUME NEW k, NEW t, NEW a, BeginCreateRefund(s, k, t, a) PROVE FALSE
        BY <3>1, <3>3 DEF BeginCreateRefund
      <3>4. ASSUME NEW i, BeginSubmit(s, i) \/ BeginApprove(s, i) \/ BeginReject(s, i)
            PROVE  FALSE
        BY <3>1, <3>4 DEF BeginSubmit, BeginApprove, BeginReject
      <3>5. ASSUME NEW i, NEW result, BeginExecute(s, i, result) \/ BeginReconcile(s, i, result)
            PROVE  FALSE
        BY <3>1, <3>5 DEF BeginExecute, BeginReconcile
      <3> QED
        BY <1>1, <3>2, <3>3, <3>4, <3>5 DEF Begin
    <2>3. /\ tickets[t].status # "closed" /\ cmd'[s].ticket = t
          /\ seen'[s].version = tickets[t].version /\ stage'[s] = "blocked"
      BY <2>1, <2>2 DEF BeginCloseTicket, SnapshotOf
    <2>4. tickets[t].version \in Nat
      <3>1. tickets[t] \in TicketRow
        BY DEF Structure, TypeOK
      <3> QED
        BY <3>1 DEF TicketRow
    <2> QED
      BY <2>3, <2>4 DEF CloseReadHolds
  <1>2. CASE LockOrderForUpdate(s)
    <2>1. /\ stage[s] = "blocked" /\ stage'[s] = "locked" /\ cmd' = cmd /\ seen' = seen
      BY <1>2 DEF LockOrderForUpdate, Structure, TypeOK
    <2> QED
      BY <2>1 DEF TicketsInv, Closing, CloseReadHolds
  <1>3. CASE Check(s)
    <2>0. PICK t : t = cmd[s].ticket
      OBVIOUS
    <2>1. /\ stage[s] = "locked" /\ cmd' = cmd /\ ops' = ops /\ seen[s] \in Snapshot
          /\ seen'[s] = RowUnderLock(s)
      BY <1>3 DEF Check, tables, Structure, TypeOK
    <2>2. /\ seen'[s] = [seen[s] EXCEPT !.resolution = ResolutionOf(t)]
          /\ Closing(s)
      BY <2>0, <2>1 DEF RowUnderLock, Closing
    <2>3. seen'[s].version = seen[s].version /\ seen'[s].resolution = ResolutionOf(t)
      BY <2>1, <2>2 DEF Snapshot
    <2>4. Caused(t, ResolutionOf(t))
      BY DEF Caused, ResolutionOf, HasOperation
    <2>5. Caused(t, seen[s].resolution)'
      BY <2>1, <2>3, <2>4 DEF Caused, HasOperation, OpsOfTicket
    <2> QED
      BY <2>0, <2>1, <2>2, <2>3, <2>5 DEF TicketsInv, CloseReadHolds
  <1> QED
    BY <1>1, <1>2, <1>3

\* A new ticket has one event and no operations yet to resolve it.
LEMMA NewTicket ==
  ASSUME Structure, OperationsInv, TicketsInv, [Next]_vars,
         NEW s \in Session, CommitCreateTicket(s)
  PROVE  TicketsInv'
  <1> DEFINE row == [order |-> cmd[s].order, request |-> cmd[s].request,
                     status |-> "open", resolution |-> "none", version |-> 1]
             event == [before |-> "none", after |-> "open"]
  <1>0. PICK id : id = Len(tickets) + 1
    OBVIOUS
  <1>1. /\ tickets' = Append(tickets, row) /\ ticketAudit' = Append(ticketAudit, <<event>>)
        /\ Finish(s)
    BY DEF CommitCreateTicket, Commit
  <1>2. row.status = "open" /\ row.version = 1 /\ row.resolution = "none" /\ event.after = "open"
    OBVIOUS
  <1>3. /\ tickets \in Seq(TicketRow) /\ ticketAudit \in Seq(Seq(AuditRow))
        /\ Len(ticketAudit) = Len(tickets) /\ Len(tickets) \in Nat
    BY DEF Structure, TypeOK, Referential
  <1> HIDE DEF row, event
  <1>4. /\ DOMAIN tickets' = DOMAIN tickets \cup {id} /\ id \notin DOMAIN tickets
        /\ \A t \in DOMAIN tickets : tickets'[t] = tickets[t] /\ ticketAudit'[t] = ticketAudit[t]
        /\ tickets'[id] = row /\ ticketAudit'[id] = <<event>>
    BY <1>0, <1>1, <1>3
  <1>5. TicketsAdvance
    BY <1>4 DEF TicketsAdvance
  <1>6. ReadsKept(s) /\ ~ Closing(s)'
    BY <1>1, FinishedReads, FinishFacts DEF Structure, Closing
  <1>7. \A u \in Session : Closing(u)' => CloseReadHolds(u)'
    BY <1>5, <1>6, CloseReadsStep
  <1>8. ASSUME NEW t \in DOMAIN tickets'
        PROVE  /\ tickets'[t].version = Len(ticketAudit'[t])
               /\ tickets'[t].status # "closed" => Closings(t)' = {}
               /\ tickets'[t].status = "closed" => Closings(t)' = {Len(ticketAudit'[t])}
               /\ Caused(t, tickets[t].resolution)'
    <2>1. CASE t = id
      BY <2>1, <1>2, <1>4 DEF Closings, Caused
    <2>2. CASE t \in DOMAIN tickets
      <3>0. PICK resolution : resolution = tickets[t].resolution
        OBVIOUS
      <3>1. Caused(t, resolution)
        BY <3>0, <2>2 DEF TicketsInv, TicketsMatch
      <3>2. Caused(t, resolution)'
        BY <3>1, CausesStay
      <3>3. Caused(t, tickets[t].resolution)'
        BY <3>0, <3>2, <2>2, <1>4 DEF Caused
      <3>4. Closings(t)' = Closings(t)
        BY <2>2, <1>4 DEF Closings
      <3> QED
        BY <2>2, <3>3, <3>4, <1>4 DEF TicketsInv, TicketsMatch
    <2> QED
      BY <2>1, <2>2, <1>4
  <1> QED
    BY <1>7, <1>8 DEF TicketsInv, TicketsMatch

\* The events of a closing: the last one, and only that, is the closing itself.
LEMMA ClosingEventsEnd ==
  ASSUME NEW before, NEW resolution \in Resolution
  PROVE  LET events == ClosingEvents(before, resolution) IN
         /\ Len(events) = (IF resolution = "none" THEN 1 ELSE 2)
         /\ events[Len(events)].after = "closed"
         /\ Len(events) = 2 => events[1].after # "closed"
  BY DEF ClosingEvents, Resolution

LEMMA ClosedFields ==
  ASSUME NEW row \in TicketRow, NEW resolution \in Resolution
  PROVE  LET new == Closed(row, resolution) IN
         /\ new.status = "closed"
         /\ new.version = row.version + (IF resolution = "none" THEN 1 ELSE 2)
         /\ new.resolution = (IF resolution = "none" THEN row.resolution ELSE resolution)
  BY DEF Closed, TicketRow

LEMMA CloseTickets ==
  ASSUME Structure, OperationsInv, TicketsInv, [Next]_vars,
         NEW s \in Session, CommitCloseTicket(s)
  PROVE  TicketsInv'
  <1>0. PICK t, resolution : t = cmd[s].ticket /\ resolution = seen[s].resolution
    OBVIOUS
  <1> DEFINE old == tickets[t]
             events == ClosingEvents(seen[s].status, resolution)
  <1>1. /\ cmd[s].kind = "close_ticket" /\ seen[s] \in Snapshot /\ Finish(s)
        /\ stage[s] = "writing" /\ TicketUnchanged(s)
        /\ tickets' = [tickets EXCEPT ![t] = Closed(old, resolution)]
        /\ ticketAudit' = [ticketAudit EXCEPT ![t] = ticketAudit[t] \o events]
    BY <1>0, CommitFacts DEF CommitCloseTicket, Commit, Writable
  <1>2. /\ t \in DOMAIN tickets /\ old \in TicketRow /\ resolution \in Resolution
        /\ t \in DOMAIN ticketAudit /\ ticketAudit[t] \in Seq(AuditRow)
        /\ DOMAIN tickets' = DOMAIN tickets
        /\ seen[s].status \in OperationStatus \cup TicketStatus
    BY <1>0, <1>1 DEF Structure, TypeOK, Referential, TicketKind, Snapshot
  <1>3. /\ tickets'[t].status = "closed" /\ old.version \in Nat
        /\ tickets'[t].version = old.version + (IF resolution = "none" THEN 1 ELSE 2)
        /\ tickets'[t].resolution = (IF resolution = "none" THEN old.resolution ELSE resolution)
        /\ ticketAudit'[t] = ticketAudit[t] \o events
        /\ \A u \in DOMAIN tickets : u # t =>
             tickets'[u] = tickets[u] /\ ticketAudit'[u] = ticketAudit[u]
    <2>1. old.version \in Nat
      BY <1>2 DEF TicketRow
    <2> HIDE DEF old, events
    <2> QED
      BY <2>1, <1>1, <1>2, ClosedFields DEF Structure, TypeOK, Referential
  <1>4. TicketsAdvance
    BY <1>2, <1>3 DEF TicketsAdvance
  <1>5. ReadsKept(s) /\ ~ Closing(s)'
    BY <1>1, FinishedReads, FinishFacts DEF Structure, Closing
  <1>6. \A u \in Session : Closing(u)' => CloseReadHolds(u)'
    BY <1>4, <1>5, CloseReadsStep
  <1>7. CloseReadHolds(s)
    BY <1>1 DEF TicketsInv, Closing
  <1>8. Closings(t) = {} /\ Len(ticketAudit[t]) = old.version
    BY <1>0, <1>1, <1>2, <1>7 DEF CloseReadHolds, TicketUnchanged, TicketsInv, TicketsMatch
  <1>9. Caused(t, resolution) /\ Caused(t, old.resolution)
    BY <1>0, <1>1, <1>2, <1>7 DEF CloseReadHolds, TicketsInv, TicketsMatch
  <1>10. Caused(t, tickets[t].resolution)'
    <2>1. PICK from : from = old.resolution
      OBVIOUS
    <2>2. Caused(t, resolution)' /\ Caused(t, from)'
      BY <1>9, <2>1, CausesStay
    <2> QED
      BY <1>3, <2>1, <2>2 DEF Caused
  <1>11. /\ Len(ticketAudit'[t]) = tickets'[t].version
         /\ Closings(t)' = {Len(ticketAudit'[t])}
    <2> DEFINE audit == ticketAudit[t]
               n == Len(audit)
               joined == audit \o events
    <2>1. \A k \in 1 .. n : audit[k].after # "closed"
      BY <1>2, <1>8 DEF Closings
    <2>2. /\ Len(events) = (IF resolution = "none" THEN 1 ELSE 2)
          /\ events[Len(events)].after = "closed"
          /\ Len(events) = 2 => events[1].after # "closed"
          /\ events \in Seq(AuditRow)
      BY <1>2, ClosingEventsEnd, ClosingEventsType
    <2> HIDE DEF events
    <2>3. /\ DOMAIN joined = 1 .. n + Len(events)
          /\ Len(joined) = n + Len(events) /\ n \in Nat
          /\ \A k \in 1 .. n : joined[k] = audit[k]
          /\ \A k \in 1 .. Len(events) : joined[n + k] = events[k]
      BY <1>2, <2>2, ConcatProperties
    <2> DEFINE m == n + Len(events)
    <2>4. Closings(t)' = {k \in 1 .. m : joined[k].after = "closed"}
      BY <1>3, <2>3 DEF Closings
    <2> HIDE DEF audit, n, joined
    <2>5. Len(events) \in {1, 2}
      BY <2>2
    <2>6. \A k \in 1 .. m : joined[k].after = "closed" <=> k = m
      <3> SUFFICES ASSUME NEW k \in 1 .. m
                   PROVE  joined[k].after = "closed" <=> k = m
        OBVIOUS
      <3>1. CASE k \in 1 .. n
        BY <3>1, <2>1, <2>3, <2>5
      <3>2. CASE k = n + 1
        <4>1. joined[n + 1] = events[1]
          BY <2>3, <2>5
        <4>2. events[1].after = "closed" <=> Len(events) = 1
          BY <2>2, <2>5
        <4> QED
          BY <3>2, <4>1, <4>2, <2>3, <2>5
      <3>3. CASE k = n + 2
        <4>1. Len(events) = 2 /\ m = n + 2
          BY <3>3, <2>3, <2>5
        <4>2. joined[n + 2] = events[2]
          BY <4>1, <2>3
        <4> QED
          BY <3>3, <4>1, <4>2, <2>2
      <3> QED
        BY <3>1, <3>2, <3>3, <2>3, <2>5
    <2>7. m \in 1 .. m
      BY <2>3, <2>5
    <2>8. Closings(t)' = {m}
      BY <2>4, <2>6, <2>7
    <2>9. Len(ticketAudit'[t]) = m
      BY <1>3, <2>3 DEF audit, joined
    <2>10. m = tickets'[t].version
      BY <1>3, <1>8, <2>2 DEF n, audit
    <2> QED
      BY <2>8, <2>9, <2>10
  <1>12. ASSUME NEW u \in DOMAIN tickets, u # t
         PROVE  /\ tickets'[u].version = Len(ticketAudit'[u])
                /\ tickets'[u].status # "closed" => Closings(u)' = {}
                /\ tickets'[u].status = "closed" => Closings(u)' = {Len(ticketAudit'[u])}
                /\ Caused(u, tickets[u].resolution)'
    <2>0. PICK r : r = tickets[u].resolution
      OBVIOUS
    <2>1. Caused(u, r)
      BY <2>0 DEF TicketsInv, TicketsMatch
    <2>2. Caused(u, r)'
      BY <2>1, CausesStay
    <2>3. Caused(u, tickets[u].resolution)'
      BY <2>0, <2>2, <1>3, <1>12 DEF Caused
    <2>4. Closings(u)' = Closings(u)
      BY <1>3, <1>12 DEF Closings
    <2> QED
      BY <2>3, <2>4, <1>3, <1>12 DEF TicketsInv, TicketsMatch
  <1>13. TicketsMatch'
    BY <1>2, <1>3, <1>10, <1>11, <1>12 DEF TicketsMatch
  <1> QED
    BY <1>6, <1>13 DEF TicketsInv

LEMMA TicketsInvariant == Spec => []TicketsInv
  <1>1. Init => TicketsInv
    BY DEF Init, TicketsInv, TicketsMatch, Closing
  <1>2. Structure /\ OperationsInv /\ TicketsInv /\ [Next]_vars => TicketsInv'
    <2> SUFFICES ASSUME Structure, OperationsInv, TicketsInv, [Next]_vars
                 PROVE  TicketsInv'
      OBVIOUS
    <2>1. CASE UNCHANGED vars
      BY <2>1 DEF vars, tables, session, TicketsInv, TicketsMatch, Closing, CloseReadHolds,
                  Closings, Caused, HasOperation, OpsOfTicket
    <2>2. ASSUME NEW s \in Session,
                 Quiet(s) \/ CommitCreateRefund(s) \/ CommitStatus(s),
                 ~ CommitCreateTicket(s), ~ CommitCloseTicket(s)
          PROVE  TicketsInv'
      <3>1. tickets' = tickets /\ ticketAudit' = ticketAudit
        BY <2>2 DEF Quiet, Begin, BeginCreateTicket, BeginCreateRefund, BeginSubmit,
                    BeginApprove, BeginReject, BeginExecute, BeginReconcile, BeginCloseTicket,
                    Start, LockOrderForUpdate, Check, Replay, RefuseCheck, RefuseWrite,
                    Disconnect, tables, CommitCreateRefund, CommitStatus, CommitSubmit,
                    CommitApprove, CommitReject, CommitExecute, CommitReconcile, WriteStatus
      <3>2. ReadsKept(s)
        BY <2>2, OthersLeftAlone
      <3>3. CASE Begin(s) \/ LockOrderForUpdate(s) \/ Check(s)
        BY <3>1, <3>2, <3>3, CloseReads, QuietTickets
      <3>4. CASE Finish(s)
        <4>1. ~ Closing(s)'
          BY <3>4, FinishFacts DEF Structure, Closing
        <4> QED
          BY <3>1, <3>2, <4>1, QuietTickets
      <3> QED
        BY <2>2, <3>3, <3>4, CommitStatusFacts
        DEF Quiet, Replay, RefuseCheck, RefuseWrite, Disconnect, CommitCreateRefund, Commit
    <2> QED
      BY <2>1, <2>2, NextCases, NewTicket, CloseTickets
  <1> QED
    BY <1>1, <1>2, StructureInvariant, OperationsInvariant, PTL DEF Spec

\* No two sessions close a ticket, and a ticket that is closed as refunded or as
\* rejected has, and keeps, an operation that made it so.
THEOREM TicketsCloseOnce == Spec => []ClosedOnceWithCause
  <1>1. TicketsInv => ClosedOnceWithCause
    <2> SUFFICES ASSUME TicketsInv, NEW t \in DOMAIN tickets
                 PROVE  /\ Cardinality(Closings(t)) = (IF tickets[t].status = "closed" THEN 1 ELSE 0)
                        /\ tickets[t].version = Len(ticketAudit[t])
                        /\ tickets[t].resolution = "refunded" => HasOperation(t, "executed")
                        /\ tickets[t].resolution = "rejected" => HasOperation(t, "rejected")
      BY DEF ClosedOnceWithCause, Closings, HasOperation
    <2> QED
      BY FS_EmptySet, FS_Singleton DEF TicketsInv, TicketsMatch, Caused
  <1> QED
    BY <1>1, TicketsInvariant, PTL

-----------------------------------------------------------------------------
(* The command service implements the ledger of refunds *)

\* The ledger as a function of the table of operations.
RefundOf(row) ==
  [order |-> row.order, amount |-> row.amount, state |-> ledgerState[row.status]]

ViewOf(q) ==
  [k \in RefundKey |->
     IF {i \in DOMAIN q : q[i].key = k} = {} THEN Unused
     ELSE RefundOf(q[CHOOSE i \in {i \in DOMAIN q : q[i].key = k} : TRUE])]

UniqueKeys(q) == \A i, j \in DOMAIN q : q[i].key = q[j].key => i = j

LEMMA ViewIsLedger == refundOfKey = ViewOf(ops) /\ refundOfKey' = ViewOf(ops')
  BY DEF refundOfKey, ViewOf, OpsOfKey, RefundOf

LEMMA ViewIsFunction ==
  ASSUME NEW q
  PROVE  ViewOf(q) = [k \in RefundKey |-> ViewOf(q)[k]]
  BY DEF ViewOf

LEMMA RefundFields ==
  ASSUME NEW row
  PROVE  /\ RefundOf(row).order = row.order /\ RefundOf(row).amount = row.amount
         /\ RefundOf(row).state = ledgerState[row.status]
  BY DEF RefundOf

LEMMA ViewOfRow ==
  ASSUME NEW q, UniqueKeys(q), NEW i \in DOMAIN q, q[i].key \in RefundKey
  PROVE  ViewOf(q)[q[i].key] = RefundOf(q[i])
  <1> DEFINE S == {j \in DOMAIN q : q[j].key = q[i].key}
  <1>1. S = {i}
    BY DEF UniqueKeys
  <1>2. (CHOOSE j \in S : TRUE) = i
    BY <1>1
  <1> QED
    BY <1>1, <1>2 DEF ViewOf

LEMMA ViewOfNoRow ==
  ASSUME NEW q, NEW k \in RefundKey, \A i \in DOMAIN q : q[i].key # k
  PROVE  ViewOf(q)[k] = Unused
  <1>1. {i \in DOMAIN q : q[i].key = k} = {}
    OBVIOUS
  <1> QED
    BY <1>1 DEF ViewOf

LEMMA OperationKeys ==
  ASSUME KeysInv
  PROVE  UniqueKeys(ops)
  <1> SUFFICES ASSUME NEW i \in DOMAIN ops, NEW j \in DOMAIN ops, ops[i].key = ops[j].key
               PROVE  i = j
    BY DEF UniqueKeys
  <1> DEFINE record(n) == [type |-> "create_refund", key |-> ops[n].key,
                           hash |-> <<ops[n].ticket, ops[n].amount>>, id |-> n]
  <1>1. record(i) \in idem /\ record(j) \in idem
    BY DEF KeysInv, OneRowPerKey
  <1>2. record(i) = record(j)
    BY <1>1 DEF KeysInv, OneRowPerKey
  <1> QED
    BY <1>2

\* What the ledger knows of an operation.
LEMMA LedgerRow ==
  ASSUME Structure, KeysInv, NEW i \in DOMAIN ops
  PROVE  /\ ops[i].key \in RefundKey /\ ops[i].order \in Order /\ ops[i].amount \in Amount
         /\ refundOfKey[ops[i].key] = RefundOf(ops[i])
         /\ RefundOf(ops[i]) \in Ledger!Refund
         /\ ops[i].key \in Ledger!Used
  <1>1. /\ ops[i].key \in RefundKey /\ ops[i].order \in Order /\ ops[i].amount \in Amount
        /\ ops[i].status \in OperationStatus
    BY OperationFields DEF OperationRow
  <1>2. refundOfKey[ops[i].key] = RefundOf(ops[i])
    BY <1>1, OperationKeys, ViewOfRow, ViewIsLedger
  <1>3. RefundOf(ops[i]) \in Ledger!Refund
    BY <1>1 DEF RefundOf, ledgerState, OperationStatus, Ledger!Refund, Ledger!State
  <1> QED
    BY <1>1, <1>2, <1>3, UnusedAssumption DEF Ledger!Used

\* A key that the ledger uses is the key of an operation.
LEMMA UsedKey ==
  ASSUME NEW k \in Ledger!Used
  PROVE  \E i \in DOMAIN ops : ops[i].key = k
  BY ViewOfNoRow, ViewIsLedger DEF Ledger!Used

\* The ledger counts no more cents paid for an order than the operations do.
LEMMA LedgerPays ==
  ASSUME Structure, KeysInv, NEW o \in Order, NEW a \in Nat, WithinCapacity(o, a)
  PROVE  Ledger!Fits(o, a)
  <1> DEFINE S == ExecutedCents(o)
             T == Ledger!PaidCents(o)
             f == [x \in S |-> <<ops[x[1]].key, x[2]>>]
  <1>1. \A i \in DOMAIN ops : RefundOf(ops[i]).state = "paid" <=> ops[i].status = "executed"
    BY OperationFields DEF RefundOf, ledgerState, OperationStatus
  <1>2. ASSUME NEW x \in S PROVE f[x] \in T
    <2>1. PICK i \in ExecutedOps(o) : x \in {i} \X (1 .. ops[i].amount)
      BY DEF ExecutedCents
    <2>2. /\ refundOfKey[ops[i].key] = RefundOf(ops[i]) /\ ops[i].key \in Ledger!Used
          /\ RefundOf(ops[i]).order = o /\ RefundOf(ops[i]).state = "paid"
          /\ RefundOf(ops[i]).amount = ops[i].amount
      BY <1>1, LedgerRow DEF ExecutedOps, RefundOf
    <2>3. f[x] = <<ops[i].key, x[2]>> /\ x[2] \in 1 .. ops[i].amount
      BY <2>1
    <2> QED
      BY <2>2, <2>3 DEF Ledger!PaidCents
  <1>3. ASSUME NEW y \in T PROVE \E x \in S : f[x] = y
    <2>1. PICK k \in Ledger!Used : /\ refundOfKey[k].order = o /\ refundOfKey[k].state = "paid"
                                   /\ y \in {k} \X (1 .. refundOfKey[k].amount)
      BY DEF Ledger!PaidCents
    <2>2. PICK i \in DOMAIN ops : ops[i].key = k
      BY UsedKey
    <2>3. i \in ExecutedOps(o) /\ refundOfKey[k].amount = ops[i].amount
      BY <1>1, <2>1, <2>2, LedgerRow, RefundFields DEF ExecutedOps
    <2>4. PICK c \in 1 .. ops[i].amount : y = <<k, c>>
      BY <2>1, <2>3
    <2>5. <<i, c>> \in S
      BY <2>3, <2>4 DEF ExecutedCents
    <2> QED
      BY <2>2, <2>4, <2>5
  <1>4. f \in Surjection(S, T)
    BY <1>2, <1>3 DEF Surjection
  <1>5. IsFiniteSet(S) /\ Cardinality(S) \in Nat
    BY ExecutedSumType DEF ExecutedSum
  <1>6. IsFiniteSet(T) /\ Cardinality(T) <= Cardinality(S)
    BY <1>4, <1>5, FS_Surjection
  <1>7. Cardinality(T) \in Nat
    BY <1>6, FS_CardinalityType
  <1> HIDE DEF S, T, f
  <1>8. Cardinality(S) + a <= Paid[o] /\ Paid[o] \in Nat
    BY PaidAssumption DEF WithinCapacity, ExecutedSum, S
  <1>9. Cardinality(T) + a <= Paid[o]
    BY <1>5, <1>6, <1>7, <1>8
  <1>10. Ledger!Cardinality(T) = Cardinality(T)
    BY DEF Ledger!Cardinality, Cardinality
  <1> QED
    BY <1>9, <1>10 DEF Ledger!Fits, T

\* The commit of a draft proposes the refund of its key.
LEMMA DraftProposes ==
  ASSUME CapacityInv, KeysInv, KeysInv', DraftsFit, NEW s \in Session, CommitCreateRefund(s)
  PROVE  Ledger!Next
  <1>0. PICK k, o, a : k = cmd[s].key /\ o = OrderOf(s) /\ a = cmd[s].amount
    OBVIOUS
  <1> DEFINE row == [ticket |-> cmd[s].ticket, order |-> o, amount |-> a, key |-> k,
                     status |-> "draft", version |-> 1, decision_version |-> 0]
             id == Len(ops) + 1
  <1>1. /\ ops' = Append(ops, row) /\ KeyUnused(s) /\ Drafting(s)
        /\ stage[s] # "idle" /\ cmd[s].kind = "create_refund"
    BY <1>0 DEF CommitCreateRefund, Commit, Writable, Drafting
  <1>2. Structure /\ cmd[s] \in Command
    BY <1>1 DEF CapacityInv, Structure, Referential
  <1>3. k \in RefundKey /\ o \in Order /\ a \in Amount /\ a \in Nat
    BY <1>0, <1>1, <1>2, CommandFields, OrderOfType, AmountAssumption DEF LockingKind
  <1>4. RefundOf(row) = [order |-> o, amount |-> a, state |-> "proposed"] /\ row.key = k
    BY DEF RefundOf, ledgerState
  <1>5. \A i \in DOMAIN ops : ops[i].key # k
    <2>1. \A r \in idem : ~ (r.type = "create_refund" /\ r.key = k)
      BY <1>0, <1>1 DEF KeyUnused, IdemOf
    <2> QED
      BY <2>1 DEF KeysInv, OneRowPerKey
  <1>6. refundOfKey[k] = Unused
    BY <1>3, <1>5, ViewOfNoRow, ViewIsLedger
  <1>7. \A j \in Ledger!Used : refundOfKey[j].order = o => refundOfKey[j].state # "uncertain"
    <2> SUFFICES ASSUME NEW j \in Ledger!Used, refundOfKey[j].order = o
                 PROVE  refundOfKey[j].state # "uncertain"
      OBVIOUS
    <2>1. PICK i \in DOMAIN ops : ops[i].key = j
      BY UsedKey
    <2>2. ops[i].order = o /\ refundOfKey[j].state = ledgerState[ops[i].status]
      BY <1>2, <2>1, LedgerRow, RefundFields
    <2>3. ops[i].status # "unknown"
      BY <1>0, <1>1, <2>2 DEF DraftsFit, HasUnknown
    <2> QED
      BY <1>2, <2>2, <2>3, OperationFields DEF ledgerState, OperationStatus
  <1>8. Ledger!Fits(o, a)
    BY <1>0, <1>1, <1>2, <1>3, LedgerPays DEF DraftsFit
  <1>9. refundOfKey' = [refundOfKey EXCEPT ![k] = [order |-> o, amount |-> a, state |-> "proposed"]]
    <2>1. ops \in Seq(OperationRow)
      BY <1>2 DEF Structure, TypeOK
    <2> HIDE DEF row
    <2>2. /\ DOMAIN ops' = DOMAIN ops \cup {id} /\ id \notin DOMAIN ops /\ ops'[id] = row
          /\ \A i \in DOMAIN ops : ops'[i] = ops[i]
      BY <1>1, <2>1
    <2>3. UniqueKeys(ops) /\ UniqueKeys(ops')
      BY <1>4, <1>5, <2>2, OperationKeys DEF UniqueKeys
    <2>4. ViewOf(ops')[k] = RefundOf(row)
      BY <1>3, <1>4, <2>2, <2>3, ViewOfRow
    <2>5. ASSUME NEW j \in RefundKey, j # k PROVE ViewOf(ops')[j] = ViewOf(ops)[j]
      <3>1. CASE \E i \in DOMAIN ops : ops[i].key = j
        BY <3>1, <2>2, <2>3, <2>5, ViewOfRow
      <3>2. CASE \A i \in DOMAIN ops : ops[i].key # j
        <4>1. \A i \in DOMAIN ops' : ops'[i].key # j
          BY <3>2, <2>2, <2>5, <1>4
        <4> QED
          BY <3>2, <4>1, ViewOfNoRow
      <3> QED
        BY <3>1, <3>2
    <2> QED
      BY <1>4, <2>4, <2>5, ViewIsLedger, ViewIsFunction
  <1> QED
    BY <1>3, <1>6, <1>7, <1>8, <1>9 DEF Ledger!Next, Ledger!Propose

\* The commit of a new status moves the refund of the operation's key, or is submit.
LEMMA StatusMoves ==
  ASSUME CapacityInv, OperationsInv, KeysInv, NEW s \in Session, CommitStatus(s)
  PROVE  Ledger!Next \/ refundOfKey' = refundOfKey
  <1>0. PICK i, k, to : i = cmd[s].op /\ k = ops[i].key /\ to = OutcomeOf(cmd[s])
    OBVIOUS
  <1> DEFINE from == ops[i].status
             moved == [refundOfKey EXCEPT ![k].state = ledgerState[to]]
  <1>1. /\ Structure /\ i \in DOMAIN ops /\ seen[s] \in Snapshot /\ to \in OperationStatus
        /\ <<from, to>> \in OperationTransitions /\ WriteStatus(s, to)
    BY <1>0, StatusEffects DEF CapacityInv, Structure, OperationsInv
  <1>2. /\ k \in RefundKey /\ ops[i].order \in Order /\ ops[i].amount \in Nat
        /\ refundOfKey[k] = RefundOf(ops[i]) /\ k \in Ledger!Used
    BY <1>0, <1>1, LedgerRow, AmountAssumption
  <1>3. refundOfKey' = moved
    <2>1. /\ DOMAIN ops' = DOMAIN ops
          /\ \A j \in DOMAIN ops : ops'[j].key = ops[j].key /\ (j # i => ops'[j] = ops[j])
          /\ ops'[i].order = ops[i].order /\ ops'[i].amount = ops[i].amount
          /\ ops'[i].status = to
      BY <1>0, <1>1, WriteStatusFacts
    <2>2. UniqueKeys(ops) /\ UniqueKeys(ops')
      BY <2>1, OperationKeys DEF UniqueKeys
    <2>3. ViewOf(ops')[k] = RefundOf(ops'[i])
      BY <1>0, <1>1, <1>2, <2>1, <2>2, ViewOfRow
    <2>4. RefundOf(ops'[i]) = [RefundOf(ops[i]) EXCEPT !.state = ledgerState[to]]
      BY <2>1 DEF RefundOf
    <2>5. ASSUME NEW j \in RefundKey, j # k PROVE ViewOf(ops')[j] = ViewOf(ops)[j]
      <3>1. CASE \E n \in DOMAIN ops : ops[n].key = j
        BY <3>1, <1>0, <2>1, <2>2, <2>5, ViewOfRow
      <3>2. CASE \A n \in DOMAIN ops : ops[n].key # j
        BY <3>2, <2>1, ViewOfNoRow
      <3> QED
        BY <3>1, <3>2
    <2> QED
      BY <1>2, <2>3, <2>4, <2>5, ViewIsLedger, ViewIsFunction
  <1>4. refundOfKey[k].state = ledgerState[from]
    BY <1>2 DEF RefundOf
  <1>5. to = "executed" => Ledger!Fits(refundOfKey[k].order, refundOfKey[k].amount)
    <2>1. to = "executed" => Paying(s)
      BY <1>0, CommitStatusFacts, <1>1 DEF OutcomeOf, Paying, OperationKind
    <2>2. to = "executed" => WithinCapacity(ops[i].order, ops[i].amount)
      BY <1>0, <2>1 DEF CapacityInv, PaymentFits
    <2> QED
      BY <1>1, <1>2, <2>2, LedgerPays DEF RefundOf
  <1> HIDE DEF from
  <1>6. \/ from = "draft" /\ to = "pending_approval"
        \/ from \in {"draft", "pending_approval"} /\ to = "rejected"
        \/ from = "pending_approval" /\ to = "approved"
        \/ from = "approved" /\ to \in {"executed", "unknown"}
        \/ from = "unknown" /\ to \in {"executed", "failed"}
    BY <1>1 DEF OperationTransitions
  <1>7. CASE from = "draft" /\ to = "pending_approval"
    <2>1. ledgerState[to] = refundOfKey[k].state
      BY <1>4, <1>7 DEF ledgerState
    <2>2. [RefundOf(ops[i]) EXCEPT !.state = RefundOf(ops[i]).state] = RefundOf(ops[i])
      BY DEF RefundOf
    <2> QED
      BY <1>2, <1>3, <2>1, <2>2, ViewIsLedger, ViewIsFunction
  <1>8. CASE ~ (from = "draft" /\ to = "pending_approval")
    <2>1. \/ /\ ledgerState[from] = "proposed"
             /\ ledgerState[to] \in {"authorised", "refused"}
          \/ /\ ledgerState[from] = "authorised"
             /\ ledgerState[to] = "uncertain"
          \/ /\ ledgerState[from] = "uncertain"
             /\ ledgerState[to] = "unpaid"
          \/ /\ ledgerState[from] \in {"authorised", "uncertain"}
             /\ ledgerState[to] = "paid" /\ to = "executed"
      BY <1>6, <1>8 DEF ledgerState
    <2> DEFINE a == ledgerState[from]
               b == ledgerState[to]
    <2>2. Ledger!Move(k, a, b)
      BY <1>2, <1>3, <1>4 DEF Ledger!Move
    <2> HIDE DEF a, b, moved
    <2>3. \/ Ledger!Authorise(k) \/ Ledger!Decline(k) \/ Ledger!PayOut(k)
          \/ Ledger!LoseTrack(k) \/ Ledger!SettlePaid(k) \/ Ledger!SettleUnpaid(k)
      BY <1>5, <2>1, <2>2
      DEF a, b, Ledger!Authorise, Ledger!Decline, Ledger!PayOut,
          Ledger!LoseTrack, Ledger!SettlePaid, Ledger!SettleUnpaid
    <2> QED
      BY <1>2, <2>3 DEF Ledger!Next
  <1> QED
    BY <1>7, <1>8

\* Every command that commits is one step of the ledger or none, whatever other
\* sessions do between its read, its check and its write.
THEOREM LedgerImplemented == Spec => ImplementsLedger
  <1>1. Init => Ledger!Init
    <2> SUFFICES ASSUME Init PROVE refundOfKey = [k \in RefundKey |-> Unused]
      BY DEF Ledger!Init
    <2>1. \A k : OpsOfKey(k) = {}
      BY DEF Init, OpsOfKey
    <2> QED
      BY <2>1 DEF refundOfKey
  <1>2. CapacityInv /\ OperationsInv /\ KeysInv /\ KeysInv' /\ DraftsFit /\ [Next]_vars =>
          [Ledger!Next]_refundOfKey
    <2> SUFFICES ASSUME CapacityInv, OperationsInv, KeysInv, KeysInv', DraftsFit, [Next]_vars
                 PROVE  Ledger!Next \/ refundOfKey' = refundOfKey
      OBVIOUS
    <2>1. CASE ops' = ops
      BY <2>1, ViewIsLedger
    <2>2. ASSUME NEW s \in Session, Quiet(s) PROVE ops' = ops
      BY <2>2 DEF Quiet, Begin, BeginCreateTicket, BeginCreateRefund, BeginSubmit,
                  BeginApprove, BeginReject, BeginExecute, BeginReconcile, BeginCloseTicket,
                  Start, LockOrderForUpdate, Check, Replay, RefuseCheck, RefuseWrite,
                  Disconnect, CommitCreateTicket, CommitCloseTicket, tables
    <2> QED
      BY <2>1, <2>2, NextCases, DraftProposes, StatusMoves DEF vars, tables
  <1> QED
    BY <1>1, <1>2, CapacityInvariant, OperationsInvariant, KeysInvariant, DraftsInvariant, PTL
    DEF Spec, ImplementsLedger, Ledger!Spec
=============================================================================
