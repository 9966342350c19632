-------------------------- MODULE MemRepositoryProof --------------------------
(***************************************************************************)
(* MemRepository, for any clients, operations and versions: a unit of work   *)
(* shows to others as a whole, or not at all; whatever is written twice,     *)
(* inserted again or rolled back, the executed sum is at least that of the   *)
(* rows, and it is that, and no write that passes the version test loses     *)
(* another, where nothing was inserted again or booked early.                *)
(***************************************************************************)
EXTENDS MemRepository, FiniteSetTheorems, TLAPS

\* Only its owner moves the end of a unit of work, and only its beginning saves tables.
THEOREM UnitsAreAtomic == RepoSpec => AllOrNothing
<1> DEFINE Whole ==
      holder # NoClient =>
        Committed' \in (IF holder' = NoClient THEN {Committed, tables} ELSE {Committed})
<1>1. [RepoNext]_repoVars => [Whole]_repoVars
  <2> SUFFICES ASSUME RepoNext, holder # NoClient PROVE Whole
    OBVIOUS
  <2> USE NoClientAssumption DEF Committed
  <2>1. ASSUME NEW c \in Client, Enter(c) PROVE Whole
    BY <2>1 DEF Enter
  <2>2. ASSUME NEW c \in Client, Leave(c) PROVE Whole
    BY <2>2 DEF Leave
  <2>3. ASSUME NEW c \in Client, RollBack(c) PROVE Whole
    BY <2>3 DEF RollBack
  \* every statement within leaves the snapshot and the holder
  <2>4. ASSUME saved' = saved, holder' = holder PROVE Whole
    BY <2>4
  <2>5. ASSUME NEW c \in Client, NEW o \in OpId, Read(c, o) PROVE Whole
    BY <2>4, <2>5 DEF Read
  <2>6. ASSUME NEW c \in Client, NEW o \in OpId, InsertOperation(c, o) PROVE Whole
    BY <2>4, <2>6 DEF InsertOperation
  <2>7. ASSUME NEW c \in Client, NEW o \in OpId, NEW status, TryExecuteRefund(c, o, status)
        PROVE  Whole
    BY <2>4, <2>7 DEF TryExecuteRefund
  <2>8. ASSUME NEW c \in Client, NEW row \in readRow[c], UpdateOperation(c, row) PROVE Whole
    BY <2>4, <2>8 DEF UpdateOperation
  <2>9. ASSUME NEW c \in Client, NEW t \in Triple, InsertIdem(c, t) PROVE Whole
    BY <2>4, <2>9 DEF InsertIdem
  <2>10. QED
    BY <2>1, <2>2, <2>3, <2>5, <2>6, <2>7, <2>8, <2>9 DEF RepoNext
<1>2. QED
  BY <1>1, PTL DEF RepoSpec, AllOrNothing

-----------------------------------------------------------------------------
(* A table and a row that was read from it                                   *)

Tables == [rows : [OpId -> OpRow], executed : Nat, idem : SUBSET Triple,
           irregular : SUBSET OpId]

\* Tables with the right types, whose sum is that of their rows, or more if some operation
\* was inserted again or booked early; a row that is executed says so in both fields.
Sound(T) ==
  /\ T \in Tables
  /\ \A o \in OpId :
       /\ T.rows[o].op = o /\ (T.rows[o].status = "absent" => T.rows[o] = NoRow(o))
       /\ T.rows[o].status = "executed" => T.rows[o].executed
  /\ IsFiniteSet(ExecutedAmounts(T.rows)) /\ ExecutedSum(T.rows) <= T.executed
  /\ T.irregular = {} => T.executed = ExecutedSum(T.rows)

\* A row that was in the tables, and is the one that is there unless a later version is
\* or its operation was inserted again.
Fresh(T, row) ==
  /\ row \in OpRow /\ row.status # "absent" /\ T.rows[row.op].status # "absent"
  /\ row.status = "executed" => row.executed
  /\ row.op \notin T.irregular =>
       /\ row.version <= T.rows[row.op].version
       /\ T.rows[row.op].version = row.version => T.rows[row.op] = row

\* The tables after one row is written, with what the sum and the history become.
Written(T, o, r, sum, odd) ==
  [T EXCEPT !.rows[o] = r, !.executed = sum, !.irregular = odd]

Becomes(was, r) == was # "executed" /\ r.status = "executed"

LEMMA AmountsOfOne ==
  ASSUME NEW o, NEW a \in Nat
  PROVE  IsFiniteSet({o} \X (1 .. a)) /\ Cardinality({o} \X (1 .. a)) = a
<1>1. IsFiniteSet({o}) /\ Cardinality({o}) = 1
  BY FS_Singleton, Zenon
<1>2. IsFiniteSet(1 .. a) /\ Cardinality(1 .. a) = a
  BY FS_Interval
<1>3. /\ IsFiniteSet({o} \X (1 .. a))
      /\ Cardinality({o} \X (1 .. a)) = 1 * Cardinality(1 .. a)
  BY <1>1, <1>2, FS_Product
<1>4. QED
  BY <1>2, <1>3

\* A row that becomes executed adds its amount; one that is written as it was leaves the
\* sum, and one that is executed no more lessens it.
LEMMA SumOfWritten ==
  ASSUME NEW T, Sound(T), NEW o \in OpId, NEW r \in OpRow
  PROVE  LET rows == [T.rows EXCEPT ![o] = r] IN
         /\ IsFiniteSet(ExecutedAmounts(rows)) /\ ExecutedSum(rows) \in Nat
         /\ Becomes(T.rows[o].status, r) => ExecutedSum(rows) = ExecutedSum(T.rows) + OpAmount[o]
         /\ ~ Becomes(T.rows[o].status, r) => ExecutedSum(rows) <= ExecutedSum(T.rows)
         /\ (T.rows[o].status = "executed") = (r.status = "executed")
              => ExecutedSum(rows) = ExecutedSum(T.rows)
<1> DEFINE rows == [T.rows EXCEPT ![o] = r]
<1>1. rows[o] = r /\ \A i \in OpId \ {o} : rows[i] = T.rows[i]
  BY DEF Sound, Tables
<1>2. IsFiniteSet(ExecutedAmounts(T.rows)) /\ ExecutedSum(T.rows) \in Nat
  BY FS_CardinalityType DEF Sound, ExecutedSum
<1> HIDE DEF rows
<1>3. CASE Becomes(T.rows[o].status, r)
  <2> DEFINE new == {o} \X (1 .. OpAmount[o])
  <2> DEFINE old == ExecutedAmounts(T.rows)
  <2>1. OpAmount[o] \in Nat
    BY OpAmountAssumption
  <2>2. IsFiniteSet(new) /\ Cardinality(new) = OpAmount[o]
    BY <2>1, AmountsOfOne
  <2>3. T.rows[o].status # "executed" /\ r.status = "executed"
    BY <1>3 DEF Becomes
  <2>4. {i \in OpId : rows[i].status = "executed"}
          = {i \in OpId : T.rows[i].status = "executed"} \cup {o}
    BY <1>1, <2>3
  <2>5. ExecutedAmounts(rows) = old \cup new
    BY <2>4 DEF ExecutedAmounts
  <2>6. old \cap new = {}
    BY <2>3 DEF ExecutedAmounts
  <2> HIDE DEF old, new
  <2>7. /\ IsFiniteSet(old \cup new)
        /\ Cardinality(old \cup new) = Cardinality(old) + Cardinality(new) - Cardinality(old \cap new)
    BY <1>2, <2>2, FS_Union DEF old
  <2>8. Cardinality({}) = 0
    BY FS_EmptySet
  <2>9. Cardinality(old) = ExecutedSum(T.rows) /\ Cardinality(old) \in Nat
    BY <1>2 DEF ExecutedSum, old
  <2>10. Cardinality(old \cup new) = ExecutedSum(T.rows) + OpAmount[o]
    <3>1. Cardinality(old \cup new) = ExecutedSum(T.rows) + OpAmount[o] - 0
      BY <2>2, <2>6, <2>7, <2>8, <2>9
    <3>2. QED
      BY <3>1, <2>1, <1>2
  <2>11. IsFiniteSet(ExecutedAmounts(rows)) /\ ExecutedSum(rows) = ExecutedSum(T.rows) + OpAmount[o]
    BY <2>5, <2>7, <2>10 DEF ExecutedSum
  <2>12. ExecutedSum(rows) \in Nat
    BY <1>2, <2>1, <2>11
  <2>13. QED
    BY <1>3, <2>3, <2>11, <2>12 DEF rows
<1>4. CASE (T.rows[o].status = "executed") = (r.status = "executed")
  <2>1. {i \in OpId : rows[i].status = "executed"} = {i \in OpId : T.rows[i].status = "executed"}
    BY <1>1, <1>4
  <2>2. ExecutedAmounts(rows) = ExecutedAmounts(T.rows)
    BY <2>1 DEF ExecutedAmounts
  <2>3. IsFiniteSet(ExecutedAmounts(rows)) /\ ExecutedSum(rows) = ExecutedSum(T.rows)
    BY <1>2, <2>2 DEF ExecutedSum
  <2>4. ~ Becomes(T.rows[o].status, r)
    BY <1>4 DEF Becomes
  <2>5. QED
    BY <1>2, <2>3, <2>4 DEF rows
<1>5. CASE T.rows[o].status = "executed" /\ r.status # "executed"
  <2>1. {i \in OpId : rows[i].status = "executed"} \subseteq {i \in OpId : T.rows[i].status = "executed"}
    BY <1>1, <1>5
  <2>2. ExecutedAmounts(rows) \subseteq ExecutedAmounts(T.rows)
    BY <2>1 DEF ExecutedAmounts
  <2>3. /\ IsFiniteSet(ExecutedAmounts(rows))
        /\ Cardinality(ExecutedAmounts(rows)) <= Cardinality(ExecutedAmounts(T.rows))
    BY <1>2, <2>2, FS_Subset
  <2>4. Cardinality(ExecutedAmounts(rows)) \in Nat
    BY <2>3, FS_CardinalityType
  <2>5. IsFiniteSet(ExecutedAmounts(rows)) /\ ExecutedSum(rows) \in Nat
        /\ ExecutedSum(rows) <= ExecutedSum(T.rows)
    BY <2>3, <2>4 DEF ExecutedSum
  <2>6. QED
    BY <1>5, <2>5 DEF Becomes, rows
<1>6. QED
  BY <1>3, <1>4, <1>5 DEF Becomes

\* What a write must respect: it adds the amount of a row that becomes executed, and only
\* an irregular one adds more, or takes an executed row away.
Respects(T, o, r, sum, odd) ==
  /\ r.op = o /\ r.status # "absent" /\ (r.status = "executed" => r.executed)
  /\ sum \in Nat /\ T.irregular \subseteq odd /\ odd \subseteq OpId
  /\ Becomes(T.rows[o].status, r) => T.executed + OpAmount[o] <= sum
  /\ ~ Becomes(T.rows[o].status, r) => T.executed <= sum
  /\ odd = {} =>
       /\ T.rows[o].status = "executed" => r.status = "executed"
       /\ sum = IF Becomes(T.rows[o].status, r) THEN T.executed + OpAmount[o] ELSE T.executed

LEMMA WrittenIsSound ==
  ASSUME NEW T, Sound(T), NEW o \in OpId, NEW r \in OpRow, NEW sum, NEW odd,
         Respects(T, o, r, sum, odd)
  PROVE  Sound(Written(T, o, r, sum, odd))
<1> DEFINE U == Written(T, o, r, sum, odd)
<1> DEFINE rows == [T.rows EXCEPT ![o] = r]
<1>1. T \in Tables /\ OpAmount[o] \in Nat
  BY OpAmountAssumption DEF Sound
<1>2. /\ U.rows = rows /\ U.irregular = odd /\ U.executed = sum
      /\ U \in Tables
  BY <1>1 DEF Written, Tables, Respects
<1>3. \A i \in OpId :
        /\ rows[i].op = i /\ (rows[i].status = "absent" => rows[i] = NoRow(i))
        /\ rows[i].status = "executed" => rows[i].executed
  BY <1>1 DEF Sound, Tables, Respects
<1>4. /\ IsFiniteSet(ExecutedAmounts(rows)) /\ ExecutedSum(rows) \in Nat
      /\ Becomes(T.rows[o].status, r) => ExecutedSum(rows) = ExecutedSum(T.rows) + OpAmount[o]
      /\ ~ Becomes(T.rows[o].status, r) => ExecutedSum(rows) <= ExecutedSum(T.rows)
      /\ (T.rows[o].status = "executed") = (r.status = "executed")
           => ExecutedSum(rows) = ExecutedSum(T.rows)
  BY SumOfWritten
<1>5. /\ T.executed \in Nat /\ ExecutedSum(T.rows) \in Nat /\ ExecutedSum(T.rows) <= T.executed
      /\ T.irregular = {} => T.executed = ExecutedSum(T.rows)
  BY FS_CardinalityType DEF Sound, Tables, ExecutedSum
<1> HIDE DEF U, rows
<1>6. ExecutedSum(rows) <= sum
  <2>1. CASE Becomes(T.rows[o].status, r)
    BY <1>1, <1>4, <1>5, <2>1 DEF Respects
  <2>2. CASE ~ Becomes(T.rows[o].status, r)
    BY <1>4, <1>5, <2>2 DEF Respects
  <2>3. QED
    BY <2>1, <2>2
<1>7. odd = {} => sum = ExecutedSum(rows)
  <2> SUFFICES ASSUME odd = {} PROVE sum = ExecutedSum(rows)
    OBVIOUS
  <2>1. T.irregular = {}
    BY DEF Respects
  <2>2. CASE Becomes(T.rows[o].status, r)
    BY <1>4, <1>5, <2>1, <2>2 DEF Respects
  <2>3. CASE ~ Becomes(T.rows[o].status, r)
    <3>1. (T.rows[o].status = "executed") = (r.status = "executed")
      BY <2>3 DEF Respects, Becomes
    <3>2. QED
      BY <1>4, <1>5, <2>1, <2>3, <3>1 DEF Respects
  <2>4. QED
    BY <2>2, <2>3
<1>8. QED
  BY <1>2, <1>3, <1>4, <1>6, <1>7 DEF Sound, U

\* Every regular write of a row raises its version or makes the row.
LEMMA WrittenIsFresh ==
  ASSUME NEW T, Sound(T), NEW o \in OpId, NEW r \in OpRow, NEW sum, NEW odd,
         r.status # "absent", T.irregular \subseteq odd,
         \/ o \in odd
         \/ r.version = T.rows[o].version + 1
         \/ T.rows[o].status = "absent",
         NEW row, Fresh(T, row)
  PROVE  Fresh(Written(T, o, r, sum, odd), row)
<1>1. T \in Tables
  BY DEF Sound
<1>2. row \in OpRow /\ row.op \in OpId /\ row.version \in Nat /\ T.rows[row.op].version \in Nat
  BY <1>1 DEF Fresh, OpRow, Tables
<1>3. /\ Written(T, o, r, sum, odd).rows = [T.rows EXCEPT ![o] = r]
      /\ Written(T, o, r, sum, odd).irregular = odd
  BY <1>1 DEF Written, Tables
<1> DEFINE U == Written(T, o, r, sum, odd)
<1> HIDE DEF U
<1>30. U.rows = [T.rows EXCEPT ![o] = r] /\ U.irregular = odd
  BY <1>3 DEF U
<1>4. CASE row.op # o
  <2>1. U.rows[row.op] = T.rows[row.op]
    BY <1>1, <1>2, <1>30, <1>4 DEF Tables
  <2>2. Fresh(U, row)
    BY <1>30, <2>1 DEF Fresh
  <2>3. QED
    BY <2>2 DEF U
<1>5. CASE row.op = o
  <2>1. U.rows[o] = r /\ T.rows[o].status # "absent"
    BY <1>1, <1>30, <1>5 DEF Tables, Fresh
  <2>2. CASE o \in odd
    <3>1. Fresh(U, row)
      BY <1>30, <1>5, <2>1, <2>2 DEF Fresh
    <3>2. QED
      BY <3>1 DEF U
  <2>3. CASE o \notin odd
    <3>1. r.version = T.rows[o].version + 1 /\ o \notin T.irregular
      BY <2>1, <2>3
    <3>2. row.version <= T.rows[o].version
      BY <1>5, <3>1 DEF Fresh
    <3>3. Fresh(U, row)
      BY <1>2, <1>30, <1>5, <2>1, <3>1, <3>2 DEF Fresh
    <3>4. QED
      BY <3>3 DEF U
  <2>4. QED
    BY <2>2, <2>3
<1>6. QED
  BY <1>4, <1>5

-----------------------------------------------------------------------------
(* What the clients do with them                                             *)

\* The tables, and the snapshot behind a unit of work, are sound; what a client read is
\* fresh in the tables, and what the others read before the unit of work in the snapshot.
RepoInv ==
  /\ Sound(tables) /\ holder \in Client \cup {NoClient}
  /\ holder # NoClient => Sound(saved)
  /\ DOMAIN readRow = Client /\ readRow = [c \in Client |-> readRow[c]]
  /\ \A c \in Client : \A row \in readRow[c] :
       Fresh(tables, row) /\ (holder \notin {c, NoClient} => Fresh(saved, row))

LEMMA RepoBegins == RepoInit => RepoInv
<1> SUFFICES ASSUME RepoInit PROVE RepoInv
  OBVIOUS
<1>1. tables = Empty /\ holder = NoClient /\ readRow = [c \in Client |-> {}]
  BY DEF RepoInit
<1>2. ExecutedAmounts(Empty.rows) = {}
  BY DEF ExecutedAmounts, Empty, NoRow, NewRow
<1>3. IsFiniteSet({}) /\ Cardinality({}) = 0
  BY FS_EmptySet
<1>4. Empty.executed = ExecutedSum(Empty.rows) /\ IsFiniteSet(ExecutedAmounts(Empty.rows))
  BY <1>2, <1>3 DEF ExecutedSum, Empty
<1>5. Empty \in Tables
  <2>1. \A o \in OpId : NoRow(o) \in OpRow
    BY MaxVersionAssumption DEF NoRow, NewRow, OpRow, RowStatus
  <2>2. QED
    BY <2>1 DEF Empty, Tables
<1>6. \A o \in OpId :
        /\ Empty.rows[o].op = o /\ (Empty.rows[o].status = "absent" => Empty.rows[o] = NoRow(o))
        /\ Empty.rows[o].status = "executed" => Empty.rows[o].executed
  BY DEF Empty, NoRow, NewRow
<1>7. Sound(Empty)
  <2>1. ExecutedSum(Empty.rows) <= Empty.executed
    <3>1. Empty.executed = 0
      BY DEF Empty
    <3>2. QED
      BY <1>4, <3>1
  <2>2. QED
    BY <1>4, <1>5, <1>6, <2>1 DEF Sound
<1>8. QED
  BY <1>1, <1>7 DEF RepoInv

\* A statement that writes one row, by whom the tables are open to.
LEMMA StatementKeeps ==
  ASSUME RepoInv, NEW c \in Client, MayUse(c), UNCHANGED <<saved, holder>>,
         NEW o \in OpId, NEW r \in OpRow, NEW sum, NEW odd, Respects(tables, o, r, sum, odd),
         \/ o \in odd
         \/ r.version = tables.rows[o].version + 1
         \/ tables.rows[o].status = "absent",
         tables' = Written(tables, o, r, sum, odd),
         readRow' \in {readRow, [readRow EXCEPT ![c] = {}]}
  PROVE  RepoInv'
<1>1. Sound(tables')
  BY WrittenIsSound DEF RepoInv
<1>2. \A d \in Client : readRow'[d] \subseteq readRow[d]
  BY DEF RepoInv
<1>3. ASSUME NEW d \in Client, NEW row \in readRow'[d]
      PROVE  Fresh(tables', row) /\ (holder' \notin {d, NoClient} => Fresh(saved', row))
  <2>1. Fresh(tables, row) /\ (holder \notin {d, NoClient} => Fresh(saved, row))
    BY <1>2 DEF RepoInv
  <2>2. Fresh(Written(tables, o, r, sum, odd), row)
    BY <2>1, WrittenIsFresh DEF RepoInv, Respects
  <2>3. QED
    BY <2>1, <2>2
<1>4. DOMAIN readRow' = Client /\ readRow' = [d \in Client |-> readRow'[d]]
  BY DEF RepoInv
<1>5. (holder' # NoClient => Sound(saved')) /\ holder' \in Client \cup {NoClient}
  BY DEF RepoInv
<1>6. QED
  BY <1>1, <1>3, <1>4, <1>5 DEF RepoInv

\* A unit of work begins with what the others have read, and ends with the tables or with
\* the snapshot; either is sound, and its owner forgets what it read.
LEMMA UnitKeeps ==
  ASSUME RepoInv, NEW c \in Client, Enter(c) \/ Leave(c) \/ RollBack(c)
  PROVE  RepoInv'
<1> USE NoClientAssumption
<1>1. CASE Enter(c)
  BY <1>1 DEF Enter, RepoInv
<1>2. ASSUME Leave(c) \/ RollBack(c)
      PROVE  /\ holder = c /\ holder' = NoClient /\ tables' \in {tables, saved}
             /\ DOMAIN readRow' = Client /\ readRow' = [d \in Client |-> readRow'[d]]
             /\ readRow'[c] = {} /\ \A d \in Client \ {c} : readRow'[d] = readRow[d]
  BY <1>2 DEF Leave, RollBack, Forget, RepoInv
<1>3. ASSUME Leave(c) \/ RollBack(c) PROVE RepoInv'
  <2>1. Sound(tables')
    BY <1>2, <1>3 DEF RepoInv
  <2>2. ASSUME NEW d \in Client, NEW row \in readRow'[d] PROVE Fresh(tables', row)
    <3>1. d # c /\ row \in readRow[d]
      BY <1>2, <1>3, <2>2
    <3>2. Fresh(tables, row) /\ Fresh(saved, row)
      BY <1>2, <1>3, <3>1 DEF RepoInv
    <3>3. QED
      BY <1>2, <1>3, <3>2
  <2>3. QED
    BY <1>2, <1>3, <2>1, <2>2 DEF RepoInv
<1>4. QED
  BY <1>1, <1>3

LEMMA ReadKeeps ==
  ASSUME RepoInv, NEW c \in Client, NEW o \in OpId, Read(c, o)
  PROVE  RepoInv'
<1>1. /\ holder \in {c, NoClient} /\ tables.rows[o].status # "absent"
      /\ readRow' = [readRow EXCEPT ![c] = {tables.rows[o]}]
      /\ UNCHANGED <<tables, saved, holder>>
  BY DEF Read, MayUse, Present
<1>2. Fresh(tables, tables.rows[o])
  <2>1. /\ tables.rows[o] \in OpRow /\ tables.rows[o].op = o /\ tables.rows[o].version \in Nat
        /\ tables.rows[o].status = "executed" => tables.rows[o].executed
    BY DEF RepoInv, Sound, Tables, OpRow
  <2>2. QED
    BY <1>1, <2>1 DEF Fresh
<1>3. ASSUME NEW d \in Client, NEW row \in readRow'[d]
      PROVE  Fresh(tables, row) /\ (holder \notin {d, NoClient} => Fresh(saved, row))
  BY <1>1, <1>2 DEF RepoInv
<1>4. QED
  BY <1>1, <1>3 DEF RepoInv

\* A new row over another is irregular, and so is one that is booked but not executed.
LEMMA InsertKeeps ==
  ASSUME RepoInv, NEW c \in Client, NEW o \in OpId,
         \/ InsertOperation(c, o)
         \/ \E status \in {"open", "executed"} : TryExecuteRefund(c, o, status)
  PROVE  RepoInv'
<1>1. /\ tables \in Tables /\ tables.irregular \subseteq OpId /\ tables.executed \in Nat
      /\ OpAmount[o] \in Nat /\ tables.executed + OpAmount[o] \in Nat
  BY OpAmountAssumption DEF RepoInv, Sound, Tables
<1>2. ASSUME NEW status \in {"open", "executed"}
      PROVE  /\ NewRow(o, status) \in OpRow /\ NewRow(o, status).op = o
             /\ NewRow(o, status).status = status
             /\ NewRow(o, status).executed = (status = "executed")
  BY MaxVersionAssumption DEF NewRow, OpRow, RowStatus
<1>3. CASE InsertOperation(c, o)
  <2> DEFINE r == NewRow(o, "open")
  <2> DEFINE odd == Irregular(o, ~Present(o))
  <2>1. MayUse(c) /\ UNCHANGED <<saved, holder, readRow>>
        /\ tables' = [tables EXCEPT !.rows[o] = r, !.irregular = odd]
    BY <1>3 DEF InsertOperation
  <2>2. r \in OpRow /\ r.op = o /\ r.status = "open"
    BY <1>2
  <2>3. /\ tables.irregular \subseteq odd /\ odd \subseteq OpId
        /\ o \in odd \/ tables.rows[o].status = "absent"
        /\ odd = {} => tables.rows[o].status # "executed"
    BY <1>1 DEF Irregular, Present
  <2> HIDE DEF r, odd
  <2>4. tables' = Written(tables, o, r, tables.executed, odd)
    BY <1>1, <2>1 DEF Written, Tables
  <2>5. Respects(tables, o, r, tables.executed, odd)
    BY <1>1, <2>2, <2>3 DEF Respects, Becomes
  <2>6. QED
    BY <2>1, <2>2, <2>3, <2>4, <2>5, StatementKeeps
<1>4. ASSUME NEW status \in {"open", "executed"}, TryExecuteRefund(c, o, status)
      PROVE  RepoInv'
  <2> DEFINE r == NewRow(o, status)
  <2> DEFINE odd == Irregular(o, ~Present(o) /\ status = "executed")
  <2> DEFINE sum == tables.executed + OpAmount[o]
  <2>1. MayUse(c) /\ UNCHANGED <<saved, holder, readRow>>
        /\ tables' = Written(tables, o, r, sum, odd)
    BY <1>4 DEF TryExecuteRefund, Written
  <2>2. /\ r \in OpRow /\ r.op = o /\ r.status = status
        /\ r.executed = (status = "executed")
    BY <1>2
  <2>3. /\ tables.irregular \subseteq odd /\ odd \subseteq OpId
        /\ o \in odd \/ tables.rows[o].status = "absent"
        /\ odd = {} => tables.rows[o].status = "absent" /\ status = "executed"
    BY <1>1 DEF Irregular, Present
  <2>4. sum = tables.executed + OpAmount[o] /\ sum \in Nat /\ tables.executed <= sum
    BY <1>1
  <2> HIDE DEF r, odd, sum
  <2>5. odd = {} => Becomes(tables.rows[o].status, r)
    BY <2>2, <2>3 DEF Becomes
  <2>6. odd = {} => (tables.rows[o].status = "executed" => r.status = "executed")
    BY <2>2, <2>3
  <2>7. tables.executed + OpAmount[o] <= sum
    BY <1>1, <2>4
  <2>8. Respects(tables, o, r, sum, odd)
    BY <1>1, <2>2, <2>3, <2>4, <2>5, <2>6, <2>7 DEF Respects
  <2>9. QED
    BY <2>1, <2>2, <2>3, <2>8, StatementKeeps
<1>5. QED
  BY <1>3, <1>4

\* The version test passes only for the row that is there, if it was not inserted again.
LEMMA UpdateKeeps ==
  ASSUME RepoInv, NEW c \in Client, NEW row \in readRow[c], UpdateOperation(c, row)
  PROVE  RepoInv'
<1>1. /\ MayUse(c) /\ tables.rows[row.op].version = row.version /\ row.version < MaxVersion
      /\ readRow' = [readRow EXCEPT ![c] = {}] /\ UNCHANGED <<saved, holder>>
  BY DEF UpdateOperation, Forget
<1>2. Sound(tables) /\ Fresh(tables, row)
  BY DEF RepoInv
<1>3. /\ row \in OpRow /\ row.op \in OpId /\ row.status # "absent"
      /\ row.status = "executed" => row.executed
      /\ row.op \notin tables.irregular => tables.rows[row.op] = row
  BY <1>1, <1>2 DEF Fresh, OpRow
<1>4. /\ tables \in Tables /\ tables.executed \in Nat /\ tables.irregular \subseteq OpId
      /\ OpAmount[row.op] \in Nat /\ tables.executed + OpAmount[row.op] \in Nat
      /\ tables.rows[row.op].version \in Nat
  BY <1>2, <1>3, OpAmountAssumption DEF Sound, Tables, OpRow
<1>5. PICK status \in RowStatus :
        /\ <<row.status, status>> \in Moves
        /\ tables' = [tables EXCEPT
             !.rows[row.op] = Target(row, status),
             !.executed = IF Counted(tables.rows[row.op].status, Target(row, status))
                          THEN tables.executed + OpAmount[row.op] ELSE tables.executed]
  BY DEF UpdateOperation
<1>6. status # "absent" /\ (row.status = "executed" => status = "executed")
  BY <1>3, <1>5 DEF Moves
<1> DEFINE r == Target(row, status)
           was == tables.rows[row.op].status
           sum == IF Counted(was, r)
                  THEN tables.executed + OpAmount[row.op] ELSE tables.executed
<1>7. /\ r \in OpRow /\ r.op = row.op /\ r.status = status /\ r.version = row.version + 1
      /\ r.status = "executed" => r.executed
  <2>1. row.version + 1 \in 0 .. MaxVersion
    BY <1>1, <1>3, MaxVersionAssumption DEF OpRow
  <2>2. QED
    BY <1>3, <2>1 DEF Target, OpRow, NextVersion
<1>8. Counted(was, r) <=> Becomes(was, r)
  <2> HIDE DEF r, was
  <2>1. QED
    BY <1>7 DEF Counted, Becomes
<1>9. sum = (IF Becomes(was, r) THEN tables.executed + OpAmount[row.op] ELSE tables.executed)
      /\ sum \in Nat /\ tables.executed <= sum
  <2> HIDE DEF r, was
  <2>1. QED
    BY <1>4, <1>8
<1>10. tables' = Written(tables, row.op, r, sum, tables.irregular)
  <2>1. tables' = [tables EXCEPT !.rows[row.op] = r, !.executed = sum]
    BY <1>5
  <2> HIDE DEF r, sum, was
  <2>2. QED
    BY <1>4, <2>1 DEF Written, Tables
<1>11. tables.irregular = {} => (was = "executed" => r.status = "executed")
  BY <1>3, <1>6, <1>7
<1> HIDE DEF r, sum
<1>12. Respects(tables, row.op, r, sum, tables.irregular)
  BY <1>3, <1>4, <1>6, <1>7, <1>9, <1>11 DEF Respects
<1>13. QED
  BY <1>1, <1>3, <1>7, <1>10, <1>12, StatementKeeps

LEMMA InsertIdemKeeps ==
  ASSUME RepoInv, NEW c \in Client, NEW t \in Triple, InsertIdem(c, t)
  PROVE  RepoInv'
<1>1. tables' = [tables EXCEPT !.idem = tables.idem \cup {t}]
      /\ UNCHANGED <<saved, holder, readRow>>
  BY DEF InsertIdem
<1>2. tables \in Tables
  BY DEF RepoInv, Sound
<1>3. /\ tables' \in Tables /\ tables'.rows = tables.rows
      /\ tables'.executed = tables.executed /\ tables'.irregular = tables.irregular
  BY <1>1, <1>2 DEF Tables
<1>4. Sound(tables')
  BY <1>3 DEF RepoInv, Sound
<1>5. \A row : Fresh(tables, row) => Fresh(tables', row)
  BY <1>3 DEF Fresh
<1>6. QED
  BY <1>1, <1>4, <1>5 DEF RepoInv

\* unit_of_work, insert_operation, update_operation_versioned, try_execute_refund: for any
\* clients and operations the sum is never below that of the executed rows, whatever is
\* rolled back, written twice or inserted again; it is that sum while nothing was inserted
\* again or booked early, and a row of an operation that was not, whose version is the one
\* that was read, is the row that was read.
THEOREM RepositoryStaysConsistent == RepoSpec => []RepositoryConsistent
<1>1. RepoInv /\ [RepoNext]_repoVars => RepoInv'
  <2> SUFFICES ASSUME RepoInv, [RepoNext]_repoVars PROVE RepoInv'
    OBVIOUS
  <2>1. CASE UNCHANGED repoVars
    BY <2>1 DEF repoVars, RepoInv
  <2>2. QED
    BY <2>1, UnitKeeps, ReadKeeps, InsertKeeps, UpdateKeeps, InsertIdemKeeps DEF RepoNext
<1>2. RepoInv => RepositoryConsistent
  <2> SUFFICES ASSUME RepoInv PROVE RepositoryConsistent
    OBVIOUS
  <2>1. \A c \in Client : \A row \in readRow[c] : Fresh(tables, row)
    BY DEF RepoInv
  <2>2. RepoTypeOK
    BY <2>1 DEF RepoInv, RepoTypeOK, Sound, Tables, Fresh
  <2>3. QED
    BY <2>1, <2>2 DEF RepoInv, RepositoryConsistent, Sound, Fresh
<1>3. QED
  BY <1>1, <1>2, RepoBegins, PTL DEF RepoSpec
=============================================================================
