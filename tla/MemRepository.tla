----------------------------- MODULE MemRepository -----------------------------
(***************************************************************************)
(* MemoryAfterSalesRepository, seen from one order: a unit of work holds the *)
(* one lock and keeps a snapshot of the containers, which an exception       *)
(* brings back.  Reads and writes outside it take the same lock.  A row is   *)
(* written at the version it was read at.                                    *)
(***************************************************************************)
EXTENDS Naturals, FiniteSets

CONSTANTS Client,      \* threads that use the repository
          OpId,        \* operations of one order
          OpAmount,    \* the amount of each
          Paid,        \* what the order was paid
          Triple,      \* (tenant, command, raw key) of idempotency records
          MaxVersion,  \* a bound of the model on versions
          MaxSum,      \* and on the executed sum
          MaxIrregular, \* and on operations inserted again or booked early
          NoClient

ASSUME NoClientAssumption == NoClient \notin Client
ASSUME OpAmountAssumption == OpAmount \in [OpId -> Nat] /\ Paid \in Nat
ASSUME MaxVersionAssumption == MaxVersion \in Nat

VARIABLES
  tables,  \* the containers: operations, executed sum, idempotency triples; and, for the
           \* properties, the operations that were inserted again, or whose amount was
           \* booked with a row that is not executed
  saved,   \* the snapshot of the unit of work
  holder,  \* who holds the lock in a unit of work
  readRow  \* the row a client read last, to write it back

repoVars == <<tables, saved, holder, readRow>>

\* open: of a refund that is not executed, from draft to failed
RowStatus == {"absent", "open", "executed"}
OpRow == [op : OpId, status : RowStatus, executed : BOOLEAN, version : 0 .. MaxVersion]

NewRow(o, status) ==
  [op |-> o, status |-> status, executed |-> status = "executed", version |-> 0]
NoRow(o) == NewRow(o, "absent")
Empty ==
  [rows |-> [o \in OpId |-> NoRow(o)], executed |-> 0, idem |-> {}, irregular |-> {}]

Present(o) == tables.rows[o].status # "absent"

\* a statement of client c: inside its unit of work, or on its own
MayUse(c) == holder \in {c, NoClient}

Enter(c) ==
  /\ holder = NoClient
  /\ holder' = c /\ saved' = tables
  /\ UNCHANGED <<tables, readRow>>

\* the command returns; the next one reads its rows again
Forget(c) == readRow' = [readRow EXCEPT ![c] = {}]

Leave(c) ==
  /\ holder = c
  /\ holder' = NoClient /\ saved' = Empty
  /\ Forget(c) /\ UNCHANGED tables

\* mutant: the executed sum is not among the containers the snapshot keeps
RollBackRows(c) ==
  /\ holder = c
  /\ holder' = NoClient /\ saved' = Empty
  /\ tables' = [saved EXCEPT !.executed = tables.executed]
  /\ Forget(c)

\* any exception in it, of a statement, of the command or of a unit of work within it
RollBack(c) ==
  /\ holder = c
  /\ holder' = NoClient /\ saved' = Empty
  /\ tables' = saved
  /\ Forget(c)

\* get_operation
Read(c, o) ==
  /\ MayUse(c) /\ Present(o)
  /\ readRow' = [readRow EXCEPT ![c] = {tables.rows[o]}]
  /\ UNCHANGED <<tables, saved, holder>>

\* the history of what an insert may leave behind
Irregular(o, regular) ==
  IF regular THEN tables.irregular ELSE tables.irregular \cup {o}

\* a draft, whatever is stored under its id
InsertOperation(c, o) ==
  /\ MayUse(c)
  /\ tables' = [tables EXCEPT !.rows[o] = NewRow(o, "open"),
                            !.irregular = Irregular(o, ~Present(o))]
  /\ Cardinality(tables'.irregular) <= MaxIrregular
  /\ UNCHANGED <<saved, holder, readRow>>

\* books the amount of an operation within the capacity of the order, and stores the row
\* as it is given, whatever is stored under its id
TryExecuteRefund(c, o, status) ==
  /\ MayUse(c)
  /\ tables.executed + OpAmount[o] <= Paid
  /\ tables' = [tables EXCEPT !.rows[o] = NewRow(o, status),
                            !.executed = tables.executed + OpAmount[o],
                            !.irregular = Irregular(o, ~Present(o) /\ status = "executed")]
  /\ Cardinality(tables'.irregular) <= MaxIrregular
  /\ UNCHANGED <<saved, holder, readRow>>

\* the writes of an operation's row by the commands: no transition leaves executed
Moves == {<<"open", "open">>, <<"open", "executed">>, <<"executed", "executed">>}

\* mutant: every write of an executed row counts
CountedAlways(was, row) == row.status = "executed" /\ row.executed

\* the executed sum grows when the row becomes executed
Counted(was, row) == row.status = "executed" /\ row.executed /\ was # "executed"

NextVersion(row) == row.version + 1

\* the row a command writes
Target(row, status) ==
  [row EXCEPT !.status = status, !.executed = row.executed \/ status = "executed",
              !.version = NextVersion(row)]

\* At the version that was read; the sum follows the row that is there.
UpdateOperation(c, row) ==
  /\ MayUse(c)
  /\ Present(row.op) /\ tables.rows[row.op].version = row.version
  /\ row.version < MaxVersion
  /\ \E status \in RowStatus :
       /\ <<row.status, status>> \in Moves
       /\ LET sum == IF Counted(tables.rows[row.op].status, Target(row, status))
                     THEN tables.executed + OpAmount[row.op] ELSE tables.executed IN
          /\ sum <= MaxSum
          /\ tables' = [tables EXCEPT !.rows[row.op] = Target(row, status), !.executed = sum]
  /\ Forget(c)
  /\ UNCHANGED <<saved, holder>>

\* a second record of a triple is refused
InsertIdem(c, t) ==
  /\ MayUse(c) /\ t \notin tables.idem
  /\ tables' = [tables EXCEPT !.idem = tables.idem \cup {t}]
  /\ UNCHANGED <<saved, holder, readRow>>

RepoInit ==
  /\ tables = Empty /\ saved = Empty
  /\ holder = NoClient
  /\ readRow = [c \in Client |-> {}]

RepoNext ==
  \E c \in Client :
    \/ Enter(c) \/ Leave(c) \/ RollBack(c)
    \/ \E o \in OpId :
         \/ Read(c, o) \/ InsertOperation(c, o)
         \/ \E status \in {"open", "executed"} : TryExecuteRefund(c, o, status)
    \/ \E row \in readRow[c] : UpdateOperation(c, row)
    \/ \E t \in Triple : InsertIdem(c, t)

RepoSpec == RepoInit /\ [][RepoNext]_repoVars

-----------------------------------------------------------------------------
(* Properties *)

RepoTypeOK ==
  /\ tables.rows \in [OpId -> OpRow] /\ tables.executed \in Nat
  /\ tables.idem \subseteq Triple /\ tables.irregular \subseteq OpId
  /\ holder \in Client \cup {NoClient}
  /\ \A c \in Client : readRow[c] \subseteq OpRow

\* the amounts of the executed operations, counted
ExecutedAmounts(rows) ==
  UNION {{o} \X (1 .. OpAmount[o]) : o \in {i \in OpId : rows[i].status = "executed"}}
ExecutedSum(rows) == Cardinality(ExecutedAmounts(rows))

\* unit_of_work, insert_operation, update_operation_versioned, try_execute_refund: whatever
\* is rolled back, written twice or inserted again, the sum that a command tests the
\* capacity with is at least that of the executed operations, so that it never lets
\* through too much.  It is too high only once a row was inserted again over another or
\* booked without being executed, which nothing in the repository refuses; and of the
\* other operations, a row whose version is the one a client read is the row it read:
\* the write that passes the version test loses nobody's update.
RepositoryConsistent ==
  /\ RepoTypeOK
  /\ ExecutedSum(tables.rows) <= tables.executed
  /\ tables.irregular = {} => tables.executed = ExecutedSum(tables.rows)
  /\ \A c \in Client : \A row \in readRow[c] :
       row.op \notin tables.irregular /\ tables.rows[row.op].version = row.version
         => tables.rows[row.op] = row

\* What a client outside the unit of work will find once it has the lock.
Committed == IF holder = NoClient THEN tables ELSE saved

\* unit_of_work: while one runs, others find what there was before it; when it ends they
\* find all of it, or, after an exception, nothing of it.
AllOrNothing ==
  [][holder # NoClient =>
       Committed' \in (IF holder' = NoClient THEN {Committed, tables} ELSE {Committed})]_repoVars
=============================================================================
