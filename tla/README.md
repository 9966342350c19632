# Verification of the after-sales refund workflow

TLA+ modules, TLC configurations and TLAPS proofs for OpsPilot, the after-sales
(refund) system in this repository.  Paths below are relative to the repository's
root, `src/`.

## 1. The system

An agent workflow collects evidence for a customer's complaint, drafts a refund,
waits for a human decision and has the refund executed.  Everything that touches
money goes through eight *domain commands*: `create_ticket`, `create_refund_draft`,
`submit`, `approve`, `reject`, `execute`, `reconcile`, `close_ticket`.

| Part | Source | State it keeps | Interacts through | Modelled by |
| --- | --- | --- | --- | --- |
| PostgreSQL command service | `src/domain/after_sales/pg_commands.py`, `rules.py`, `models.py`, `src/repo/postgres.py`, `schema.sql` | tables `tickets`, `refund_operations`, `approval_decisions`, `idempotency_records`, `audit_events`, `orders`; row locks | one READ COMMITTED transaction per command | `PgCommands` (2) |
| In-memory service | `src/domain/after_sales/service.py`, `src/domain/idempotency.py` | the same entities in dictionaries; per-order and per-key locks | threads | `MemService` (3) |
| In-memory repository | `src/repo/memory.py` | containers, one lock, a snapshot per unit of work | its clients | `MemRepository` (8) |
| Thread leases | `claim_thread`, `release_thread` in `src/repo/` | owner, `lease_until`, generation of each thread | called by the runner | `Workflow` (4), `LeaseTable` (7) |
| Workflow | `src/agents/runner.py`, `graph.py`, `nodes.py`, `checkpoint.py` | the checkpoint of each thread and its key | gateway, leases, API | `Workflow` (4), `ThreadKeys` (7) |
| Gateway and ledger | `src/agents/ports.py`, `tool_ledger.py` | at most 512 results of logical calls; audit ids handed out | commands | `Workflow` (4), `AuditIds` (7) |
| Intake | `src/agents/intent.py`, `nodes.py` | request, order number, missing fields | workflow | `Intake` (7) |
| Policy matching | `src/domain/after_sales/policies.py`, `pg_commands.py:116-152` | none | commands | `PolicyMatch` (6) |
| Tool registry | `src/platform/tooling.py`, `src/agents/toolkit.py` | a pool of four workers, a call trace | agents | `ToolPool` (5) |
| Orchestrators | `src/agents/multiagent.py`, `subagents.py`, `supervisor.py` | one run's findings and traces | tools | `EvidenceAgents` (5) |
| Reliability | `src/platform/reliability.py` | breaker state | tests only | `Breaker` (6) |
| Model router | `src/models/` | none | agents | `ModelGateway` (6) |
| Knowledge store | `src/rag/` | document versions, chunks | agents | `KnowledgeStore` (6) |
| HTTP API, adapters | `src/api/` | none | runner, commands | `ApiDesk` (7) |

What is hard here: commands of several API threads interleave between their reads and
their writes; three commands take no lock at all and rely on a version test; two read
a row before they wait for a lock and use it after; clients repeat commands; a session
or a whole process dies in the middle; a lease expires while its holder runs; a tool
hangs, answers late, or fails as one step of several; answers and documents arrive in an
order nobody planned.

What makes each part correct: money is paid out at most once and at most up to the
order's amount; one key creates one row; one version gets one decision; the audit is a
true history; a workflow resumes where it stopped and never closes a ticket with an
outcome still unknown.  `PROJECT.json` lists the hazards one by one with their lines.

## 2. PostgreSQL command service: `PgCommands`

The statuses and transitions that both back ends share are in `AfterSalesRules`.

**Correspondence.**  A database session (`Session`) runs one command at a time and is
in one of four stages.

| Action | Code |
| --- | --- |
| `Begin...(s, ...)` | the statements before the order lock; `seen[s]` is the row they read |
| `LockOrderForUpdate(s)` | `lock_order_for_update`: waits until the order row is free |
| `Check(s)`, `Replay(s)`, `RefuseCheck(s)` | the reads and rules under the lock: go on, return the first result of the key, or roll back |
| `Commit...(s)`, `RefuseWrite(s)` | the writes and COMMIT; or the version test of `update_..._versioned` or a unique index fails and the transaction rolls back |
| `Disconnect(s)` | the process or its connection dies: rollback |

`submit`, `approve` and `reject` go from begin to commit without a lock, as in the code.
The writes of a command are one step with its COMMIT: until then the row written first
is locked and the rest invisible under READ COMMITTED, so no other session can tell.
`next_seq` locks its counter row from the numbering to the COMMIT and is taken after the
order row by every command, so it neither leaves gaps nor closes a circle of waiters; it
is the length of the table here.  The variable `answers` is a history of replies, read
by no action.

Abstracted: payload texts (a request or an amount stands for its hash), the tenant (each
statement is keyed by it), roles (tested before the transaction, change nothing), money
as whole cents, policies as the set `Covered` of requests they allow, the
operator-facing error codes.  A refusal before any lock changes nothing and is no step.

**Properties** (run `pg_safety`, `pg_two_orders`).  `RefundCapacity`: executed refunds
never exceed what was paid.  `OneRowPerKey`, `RetriesAgree`: idempotent creation under
concurrent and repeated use of a key.  `DecidedOnce`: one decision per operation, at the
version that was decided on.  `OperationAuditComplete`: an operation's audit is an
unbroken path through `OPERATION_TRANSITIONS` although "before" is read without a lock.
`ClosedOnceWithCause`: concurrent closings, and the reason for a resolution.
`TerminalIsFinal`, `DraftsRespectOrder`: what no step may do.  `CommandsEnd`
(`pg_two_orders`): every transaction that began ends.

**Bounds.**  Two sessions: every race listed is between two.  `pg_safety` has one order of
three cents and drafts of two cents, of which two do not both fit.  One ticket
key and two refund keys bound the rows (a key creates one row).  `pg_two_orders` gives
one ticket key to two orders of one cent, with a second request that a stranger makes
on one order and no policy covers on the other; its one refund key is repeated, but cannot
meet two orders, for only one of them gets a ticket.  That case is the same guard
(`KeyUnused` in `Writable`) and is covered by the theorems, which hold for any keys.  Sessions are interchangeable and `pg_safety` uses that symmetry; `pg_two_orders`,
which checks liveness, does not.

**Fairness.**  PostgreSQL queues the sessions that wait for a row and serves each in
turn (strong fairness of `LockOrderForUpdate`), and a session executes its statements
to the end (weak fairness of `Server`).  Clients need not send anything and connections
need not break: `Begin` and `Disconnect` are not fair.

**Abstract specification: `RefundLedger`.**  One refund per key in atomic steps: propose,
authorise or decline, pay, lose track, settle.  `PgLedger` maps an operation's status to
the ledger's state and checks that the service implements it (`ImplementsLedger`, run
`pg_safety`): tickets, locks, versions and audit are invisible, and each commit is one
ledger step or none.

**Disagreements found.**  Each has a run that TLC refutes.

* `pg_closed_ticket_race`: `create_refund_draft` tests "closed" before the order lock
  and not after it (`pg_commands.py:271`), so a draft can be added to a ticket that was
  closed while it waited.
* `pg_ticket_audit`: the closing audit event of a qualified ticket carries the status
  before the qualification (`pg_commands.py:400`): open to closed, no legal transition.

A ticket none of whose operations was executed or rejected also goes from open straight
to closed, against the state machine in `models.py:75`; `TicketAuditLegal` speaks only of
tickets with a resolution, so that its counterexample is the stale event.

**Proved** (`PgCommandsProof`), for any sets of sessions, orders, requests, keys and
amounts, from the assumptions `SessionAssumption`, `PaidAssumption` and
`AmountAssumption` (the free lock is no session; amounts paid are numbers; refunds are
positive), and for the refinement `UnusedAssumption` (the mark of an unused key
is no refund): every safety property of the runs, and the refinement.

* `TypeCorrect`: `Spec => []TypeOK`.  The inductive invariant is `Structure`: `TypeOK`
  and `Referential` (commands name rows that exist, and each table has its audit).
* `CapacityInvariant`, `CapacityHolds`: `Spec => []RefundCapacity`.  The capacity is not
  inductive by itself, since a commit does not check it again.  `CapacityInv` adds that
  a session past the order lock holds it (`HoldsOrderLock`) and that a payment that was
  checked and not yet written still fits (`PaymentFits`).  A step of another session
  cannot pay for the same order in between, for both would hold its lock
  (`PayerHoldsLock`).  The sum of the executed refunds is the number of their cents,
  so that adding an operation adds at most its amount (`SumGrows`).
* `KeysCreateOnce`, `RetriesGetTheSameRow`: `OneRowPerKey` and `RetriesAgree`.  Together
  with "no client was told of a row that is not recorded" (`KeysInv`) they are inductive:
  the unique index (`KeyUnused` in `Writable`) is tested in the step that inserts.
* `OneDecision`, `AuditIsPath`, `TerminalStays`: `DecidedOnce`, `OperationAuditComplete`
  and `TerminalIsFinal` follow from one invariant, `OperationsInv`.  Its core is
  `ReadsHold`: what a session read is what the row says now, unless the version has moved
  on.  A commit whose version check succeeds has therefore read the current status
  (`StatusEffects`), so that it moves along `OPERATION_TRANSITIONS`, writes the right
  "before" and meets no earlier decision; every other write only raises the version
  (`VersionsAdvance`) and makes the reads stale rather than wrong.  That a row has a
  second check on its decisions (`FirstDecision`) is not used: the version is enough.
* `DraftsAreSafe`: `DraftsRespectOrder`.  `DraftsFit` carries the check of a draft to its
  commit; meanwhile nobody else makes an operation of the order executed or unknown,
  for that takes the order's lock (`OrderStandsStill`).
* `TicketsCloseOnce`: `ClosedOnceWithCause`, from `TicketsInv`: a session that closes has
  read the ticket open, unless its version has moved on, and holds a cause for the
  resolution, which stays because terminal operations are final (`CausesStay`).
* `LedgerImplemented`: `Spec => ImplementsLedger`.  A key has one operation (`KeysInv`), so
  that the ledger is a function of the table (`ViewOf`); a draft proposes
  (`DraftProposes`), a status written moves the refund of its key or is the submission,
  which the ledger does not see (`StatusMoves`); the cents the ledger counts are the image
  of the cents of the operations (`LedgerPays`).

## 3. In-memory domain service: `MemService`

**Correspondence.**  Each `Thread` runs one command on objects that all threads share.

| Action | Code |
| --- | --- |
| `Begin...(t, ...)` | the statements before the first lock; for `submit`, `approve`, `reject` the tests of version and status (`BeginDecision`) |
| `LockOrder(t)`, `LockKey(t)` | `with self._order_lock(...)`, `with self._idempotency.lock_for(...)`: create_refund nests the second in the first |
| `Check(t)`, `Replay(t)`, `Refuse(t)` | the rules under the locks: go on, return the first object of the key, or raise |
| `IterationFails(t)` | `_operations` grows while `t` iterates over it: RuntimeError |
| `CreateTicket(t)`, `CreateRefund(t)`, `CloseTicket(t)`, `CloseFails(t)` | the assignments of the command, and its end |
| `WriteStatus(t)`, `Book(t)`, `RecordStatus(t)` | the status (`_apply_op_transition`); the version and the sum of refunds after it returned; then `_record` |

`submit`, `approve` and `reject` go from `BeginDecision` to `WriteStatus` with no lock.
`check_operation_transition` gets the status as an argument, so a thread that is
preempted inside it writes on the strength of what it was told.  Assignments between two
calls are one step, since the interpreter switches threads only at calls and at loops.
Creation is one step although it consists of three calls: the order and key locks are
held and the new id has not been returned to anyone.  The placeholder `<pending>` never
outlives the lock of its key (commit, or `release` in the exception handler) and is
not a state.

Abstracted as in section 2; seeding is in the constants, and `restore_state` serves
tests and a recovery tool that runs alone.

**Properties.**  `mem_safety` (two threads decide on one operation): `RefundCapacity`,
`TicketHistoryLegal`.  They hold even though statuses are overwritten: two
executions of one operation are each checked against what is booked.  `mem_one_decider`
(two threads, two orders, keys that both create commands use, one thread that decides):
`BooksMatchOperations` (the sum is that of the executed operations but for those between
`WriteStatus` and `Book`, and there is none of those while the order's lock is free),
`AuditIsPath` (events may be appended out of order, but form one path), `OneObjectPerKey`,
`RetriesAgree`, `SomeThreadCanMove`, and `ImplementsLedger`: `MemLedger` maps the service to the
same `RefundLedger` as the PostgreSQL service.

**Bounds.**  Two threads: each race is between two.  `mem_safety`: three cents and drafts of
two, so two payments never fit, and one key for a single operation that both threads decide
on, execute and reconcile.  `mem_one_decider`: one cent for each of two orders and drafts of
one, so one payment fits and a second does not; a ticket key each, one of which is a refund
key as well.  Nothing else bounds a run: an operation gets finitely many decisions.

**Fairness.**  None is stated: `threading.Lock` promises no queue.  That some thread can
always go on is the invariant `SomeThreadCanMove`.

**Disagreements found**, refuted by TLC with two threads that decide:

* `mem_two_decisions`: of two decisions on the same version both succeed
  (`service.py:436`, `:448`), against `docs/DEFECTS_LOG.md:13` and the comment at
  `service.py:450`.
  The second may even be written after the operation was executed: it is approved or
  rejected again, while its refund stays booked, and can be executed once more (within
  the capacity: `RefundCapacity` holds).

**Proved** (`MemServiceProof`): every property the passing runs check, from
`ThreadAssumption`, `OrderAssumption`, `RefundAmountAssumption` and `UnusedAssumption`.
For any threads and any set of deciders:

* `TypeCorrect`; `CapacityInvariant` and `CapacityHolds`: a thread past the order's lock
  holds it, and a payment that was checked still fits.  `BookCapacity` is the case
  that books, where another thread about to book for the same order would hold the same
  lock.
* `NoCircularWait`, from `LockOwners`: the owner of a lock is past it and runs a command
  that takes it; so the owner of a key's lock waits for nothing.
* `KeysCreateOnce`, `RetriesGetTheSameObject`, from `KeysInv`: a key found unused under
  its lock is unused until the object is recorded (`RecordsOne`).
* `TicketsCloseOnce`, from `HistoryInv`: a ticket about to be closed is still open,
  whatever became of its operations, for the order's lock is held since the check.

Under `OneDecider` (`Decider` has at most one thread), which `mem_two_decisions` shows to
be needed:

* `StatusInv`: a status is still what it was checked to be when it is written.  Payments
  of an order exclude each other, and no payment starts from a status a decision starts
  from (`SourceOfChange`), although a decision takes no lock.
* `BooksMatch`, from `SumsInvariant`: the cents of the sum are those of the executed
  operations no thread is still about to book, and a thread about to book holds the lock
  of its order.  `AuditIsOnePath`, from `AuditInv`: recorded and pending events together are
  one path, and since transitions go up in rank (`Rank`) no event occurs twice.
* `LedgerImplemented`: the draft of `CreateRefund` proposes, a written status moves or,
  for submit, stutters.  `DraftsFit` (no unknown refund, and room, from check to write)
  and `LedgerPays` (the ledger counts what is booked) give the guards of the ledger.

## 4. Workflow thread, lease, ledger: `Workflow`

**Correspondence.**  One workflow thread, that is one key `(tenant_id, thread_id)`;
threads share nothing of what is modelled.  A `Worker` is a request-handling thread of a
process; the process (`Proc`) owns leases and keeps a ledger.

| Action | Code |
| --- | --- |
| `Start(w)`, `InvokeNew(w)` | `start`: claim the lease, read the thread; a new one gets `invoke(inputs)` |
| `Ask(w)`, `Resume(w)`, `RefuseClaim(w)` | `agent_clarify`, `agent_decision`: test a state read without the lease; then `resume` claims it and reads the thread again |
| `Parse` ... `Escalate` | one node each, with its route; a node that writes to the domain is one step per call, and `Save(w)` is its checkpoint |
| `Suspend`, `Advance` | an `interrupt`; a superstep of the graph |
| `NodeRaises(w)` | an exception that a node lets through: a closed ticket refuses the refund, or the database fails one of the node's calls |
| `LoopStop(w)`, `LoopStopUnwritten(w)` | `AgentLoopDetected` and `_loop_stop`, whose marker may fail to be written (`runner.py:504-512`) |
| `Recover(w)`, `RecoverClose(w)`, `Settle(w)` | `_recover_terminal_state` |
| `RecoverRaises(w)` | the database fails one of its calls: the view as it was, or "escalated" with an error (`runner.py:446-456`) |
| `Release(w)` | the `finally` clause of `start` and `resume` |
| `Expire`, `Crash(p)`, `DomainStep` | `lease_until` passes; a process dies, its ledger with it; approvers, SYSTEM and agents at the domain's own endpoints |

`ckpt` is the latest checkpoint: the pending node, the interrupt stored with it, the
view (`AgentState`) and who wrote it.  That an interrupt shows only on the checkpoint it
was written for, and that `invoke(inputs)` saves before it runs, is langgraph's doing
and is modelled from how the runner uses it.

Abstracted: what parsing and evidence find (any route their code can take), texts,
references, amounts, and the domain's rules, which are section 2's: here the operation
moves along `OperationTransitions`, and `close_ticket` keeps its own test.  A claim and the
read after it are one step: nothing but an expiry comes between them that matters.  The
generation of a lease is written and never read.  A remembered `create_ticket` equals what
the domain returns for the same key, so the ledger leaves it out; eviction is a miss at
the moment of use.

**Properties** (`wf_safety`).  `ViewTruthful`: no view says refunded, rejected or failed
before the domain does and the ticket is closed.  `ExclusiveUntilLapse`: what the lease
does promise.  `WaitingIsSubmitted`: a waiting thread has a submitted operation, also when
the ledger answered.  `StrandedOnlyByFault`: only a dead process or an exception leaves a
thread between two nodes, or a loop marker that could not be written.  `FinalStaysFinal`:
refunded, rejected and loop-stopped threads are not reopened by a stale request, as long
as runs do not overlap.  One thing does write over a refunded or rejected thread, and the
property names it: a recovery that the database fails, which marks it escalated, with an
error, until the next `start` recovers it again.

**Bounds.**  Two workers, of one process or two (both are initial states); the path from
parse to the end of a refund has seven nodes, so `MaxSteps = 7` lets it finish, and every
detour hits the limit.  Four requests (`MaxCalls`): start, a clarification, two decisions.
One fault (`MaxFaults`: a process that dies, an exception of a node or of the recovery, a
marker not written); `Starter` lets one worker serve `start`, any worker
`clarify` and `decision`.  Leases expire any time and any number of times.

**Proved** (`WorkflowProof`), for any workers, processes and bounds (`LimitAssumption`: a run
may take a step, and one fault may happen).  `Structure` is the types with the loop guard
(`WithinLimit`).  `TruthInv` says it of every place a result is kept before it shows: the runs in
flight (`RecordTrue`), the checkpoint, and each process's ledger (`LedgerTrue`: what it remembers the
domain has done); it holds because the domain only moves on (`Onward`).  From it follow
`ViewsAreTruthful` and `WaitsOnlyIfSubmitted`.  `LeaseInv` (until a lease lapses every run in
flight is under its process's live lease) gives `ExclusiveUntilLeaseLost`; `StrandInv` (without a
fault, a thread between two nodes is being worked on by the run that wrote its checkpoint) gives
`StrandedByFaultOnly`.  `AloneInv` describes the one run there is while runs do not overlap: what it
read is what the checkpoint has (`InStep`), and a final view stands only at the end of the graph
(`Orderly`); with it no step takes back an outcome but the failed recovery: `FinalThreadsStayFinal`, an action
property.

**Fairness.**  None: a thread legitimately waits for people for ever.

**Disagreements found.**

* `wf_single_advance`: `claim_thread` succeeds for the row's own owner
  (`src/repo/postgres.py:414`) and a whole process is one owner, so two requests for one
  thread run its graph at once, against `docs/DEFECTS_LOG.md:17`.  The first to finish
  releases the lease under the other.
* `wf_stranded`: a thread whose process died between two nodes has no interrupt;
  `agent_decision` answers 409 and `start` takes it for finished, against
  `docs/ARCHITECTURE.md:85-86`.

Also seen in the model, and no contradiction of a text: a thread that `start` finishes by
recovery keeps its lease until it expires, because `result.finished` was computed before;
a failed closing in the recovery marks the view escalated until the next `start`.  A
clarification whose test is stale resumes a pending approval, and acts on its decision
(section 7).

## 5. Tools and the orchestrations of agents: `ToolPool`, `EvidenceAgents`

**Correspondence.**  A `Run` is one execution of the node `gather_evidence` with either
orchestration; a `Call` is a tool called by a run.  All registries of a process share the
executor `_EXECUTOR`.

| Action | Code |
| --- | --- |
| `Invoke(c)` | `ToolRegistry.invoke`: arguments that miss the schema, or `submit` |
| `TakeCall`, `Return(c)` | a worker takes the oldest call, and returns or never does |
| `TimeOut(c)` | `future.result(timeout)` gives up; `cancel` reaches only a call no worker has taken |
| `Supervise(r)`, `Join(r)`, `Assemble(r)` | `build_supervisor_evidence`: two calls side by side, then the history |
| `Triage(r)` ... `Review(r)` | `FourRoleOrchestrator.run`: a role or a tool stage each, with the traces it adds |
| `RefuseIncomplete(r)`, `EvidenceFails`, `ResolutionFails` | the early returns, with the traces of the roles that are skipped |

What the executors do is their outcome: data, a `ToolCallError`, any other exception.

**Properties.**  `OneRecordPerCall`: timeouts against late returns.  `AgentsInOrder`: the
four traces and the escalation tell one story (`TracesTellTheRun`), no plan without an
order that was read, no citation of what was not answered (`ProceedsOnEvidence`).  `AgentRunsEnd`: hung tools in every worker
stop no run.

**Bounds.**  One worker and two runs, one of each kind: four calls can wait behind one
that hangs.  A run calls a tool once.

**Proved** (`EvidenceProof`), for any runs, any set of four-role runs and any number of
workers: `CallsAreRecordedOnce`, `AgentsStayInOrder`.  `CallInv` says that
an answer is never given twice (`Kept`); `AgentInv` adds what a run at each stage has been
answered (`RunInv`), and `TracesInv` that in front of its end a run has the ok traces of
the roles that are `Done`.  `Tell` holds of those traces with one failing entry and the
skipped ones behind it (`EndsAt`), whatever role failed.

**Seen in the model.**  The trace of a run that ends in the evidence stage names one tool
and the stage `get_order` (`src/agents/multiagent.py:637`) although after an injection all three
were called.  An error of the triage's content guard leaves the node, and so does one of
`compute_refund_plan` that is not the domain's (`multiagent.py:655-657`); every other one
escalates.  A history or policy call that timed out looks like an empty answer, in the
four-role run too.  The supervisor goes on after an injected request; the four roles do not.

**Left out.**  `invoke` first refuses an unknown tool, a role that the tool is not for, and an
explicit tenant that is not the caller's (`src/platform/tooling.py:127-143`).  The agents modelled
here use tools that are registered for their role and name no tenant, so they never meet these
branches.  A caller who meets one of the first two leaves no record, although the head of the
file says that every call is recorded (`tooling.py:6`).

## 6. Models, breaker, knowledge, policies

**`ModelGateway`.**  One task from `ModelGateway.__init__` to its reply: `Build`, `Route`,
`Check` (injection and budget), `Post` (one HTTP request with any outcome), `Exhausted`
(the assertion behind the retry loop), `Degrade`.  `GatewayInOrder` (`SentIsChecked`, `ReplyIsHonest`),
`TasksAnswered` (liveness: the loop ends).  Settings, prices and inputs are every
combination; `Retries` has a negative limit, zero and two.  A negative limit or a body
with fields of an unexpected type ends in an exception instead of the offline rules: the
property names both cases.  `GatewayInOrder` is proved (`ModelsProof`: `GatewayStaysInOrder`) for any
limit, prices and inputs; `GatewayInv` says what each step of the task has behind it.  An illegal new price
falls back to the older variable (`InputPrice`), though `src/models/config.py:16` says that a missing
or illegal price counts as none; a price that does count is always one that was configured.

**`Breaker`.**  `CircuitBreaker` under several threads, which has no lock.  `Look` is the test of
`_state` (`reliability.py:77`); the clock is read and judged in a later step (`Undue`, `HalfOpen`), when other
threads may have closed, opened or reset the breaker.  A late success may so be followed by
"half_open" with no failure counted: `BreakerConsistent` claims no count for half-open.  It does
claim that a closed breaker has fewer failures than the threshold, an open one as many, and
that one that is not closed has its time or is about to.  Only tests use this class
at present.  Three threads, threshold two, and up to five failures: late results arrive
in every state.  Proved (`ModelsProof`) for any threads and threshold.

**`KnowledgeStore`.**  `PolicyStore.register`, `search`, `validate_citation`:
`FoundStaysCitable`.  Names, ids and citations are sequences of characters, joined as the code
joins them (`src/rag/store.py:145`, `:84`) and parsed as it parses them.  With a colon in one's
tenant and another's policy two documents share the ids of their chunks, and the later
registration takes the other's place; a policy with an "@" cannot be cited.  The instance has
such a pair (`Documents`), and the property speaks of what was found in documents whose own
names are plain, whatever the names of the others: a plain id has no second reading.
Proved (`ThreadsProof`: `AnswersStayCitable`) for any documents: every chunk is a piece of a
registered, active document (`ChunksArePieces`), a registration takes away no chunk of a plain
document that was found (`HitsAreClean`), and a plain citation is read back to its document.

**`PolicyMatch`.**  `compute_refund_plan` of the PostgreSQL service: `ListPolicies`, one `Visit` for each row
the loop of `_effective_policy_rows` meets, in any order, and `Decide` (`match_policies`, `detect_conflict`);
over every set of two policy rows: two versions of one policy, or two policies.
`PoliciesAgree`: no order of the rows changes what is decided, which is what the newest version
that fits says (`NewestDecide`), and where the in-memory service refunds the claim as well it
refunds the same (`SameAmount`).  Proved (`PoliciesAlwaysAgree`) for any rows, tags, windows and ratios.
The two back ends may well disagree on *whether* to refund: memory takes all versions, so that
an older one with a longer window pays where PostgreSQL refuses, and two versions with
different ratios conflict where PostgreSQL pays; memory wants a tag in common, PostgreSQL
all tags of the policy covered.  And the newest version is sought among those whose tags the
claim covers, so one that was replaced by a version with other tags still decides, against the
docstring's "同 policy_id 只取 version 最大" (`src/domain/after_sales/pg_commands.py:117-118`).

## 7. Requests and threads: `ApiDesk`, `Intake`, `ThreadKeys`, `AuditIds`, `LeaseTable`

**`ApiDesk`.**  The endpoints that change an operation, those that run the workflow
(`agent_start`, `agent_clarify`, `agent_decision`) and the demo's reset, for the principals of
`scripts/run_api.py` and a second agent, over either back end.  `Admitted` is the role test and the
read in the caller's tenant; `Carry` the command, with any number of requests in between.
`AgentAdmitted` and `AgentResume` are the same for a thread: the test of what it waits for, and a `resume`
that goes on from wherever the thread is by then.  A ticket has one operation.  The domain is
the table `Becomes`.  `FourEyes`, `TenantsApart`.  An agent's answer that was admitted while the thread
had a question, and arrives after another agent has answered it and an approver has approved
the refund, has it executed, though the docstring of `agent_clarify` says that this
endpoint cannot change an operation's state (`src/api/app.py:363-365`, "不允许借澄清接口修改…操作状态").
`FourEyes` therefore lists who may set off an execution (`Executors`); that an agent drafted and
submitted, and an approver approved, holds on every path.
Proved (`ApiDeskProof`) for any principals and tickets: `Vetted` (a request that has
passed its read is on a ticket or thread of its own tenant, and its role allows it), `Founded` (each
status has the deeds that lead to it) and `Owned`.

**`Intake`.**  `extract_intent`, the route after it and `clarify`; a message is the set of its
keywords, by the lists they stand in.  Two keywords (`MaxCues`) make every conflict of
intents.  `IntakeInOrder` (`EvidenceHasItsInputs`, `NoNumberAskedTwice`), proved (`ThreadsProof`) for
messages of any number of keywords: `Remembered` says that an order number, once given, is
known, `Settled` ties each phase to what was parsed.  An answer *replaces* the
request: one that answers the question but has no keyword of an intent ("磕碰", or only an
order number) is classed unknown and escalated, against `src/agents/nodes.py:70` and
`tests/unit/agents/test_clarify.py:35` ("直到信息足够").  For the same reason a reason that was
told already is asked for again; only the order number is never asked for twice, and that is
all the property says.  A number in a later message is ignored when one
is known.

**`ThreadKeys`.**  `_cfg_for`, `_checkpoint_exists` and what `start` and `resume` do with the key,
after a release that kept checkpoints under `tenant:thread`.  Names are sequences of
characters: the four pairs are two that share the older key, and two that hold the newer
key's separator.  A probe may fail at any time.  `KeysLeadHome` (`OnlyItsOwn`, `FoundAgain`): a pair's key leads to a checkpoint of
its own or to none, to none only if it has none or the probe fails, and a pair has two only
after a failed probe.  That case is the run `keys_fail_closed`: a probe that fails while `start`
looks for an older checkpoint is taken for "there is none", and the thread is begun again
beside it, although the comment calls the probe fail-closed (`src/agents/runner.py:566`).
`_resolve_tenant` says "唯一已知"
and takes the most recent.  Proved (`PairsKeepTheirCheckpoints`) for any pairs and names.
`KeysTellPairsApart` is why: a length is digits (`DecimalAssumption`), so the first separator behind
it ends it, and it says where the name ends (`BlockIsRead`).  `KeyInv` then says that a key holds one
checkpoint, of a pair that has this key, and that only a failed probe makes a second one.
`TenantAssumption` is needed: the code trusts what it finds under a versioned key without
looking whose it is (`src/agents/runner.py:554-556`), and the older key of a tenant named
like the beginning of a versioned one, such as `v2|1|a|3|b` with thread `c`, *is* the versioned key
of another pair (`a`, `b:c`).  Tenants are named by whoever registers the tokens
(`src/api/deps.py:33-45`); requests cannot name one.

**`AuditIds`.**  `collect_audit_events` in two processes, a failed save and a restart;
threads are served by one process at a time, as long as no lease lapses under a run
(section 4); two runs at once may both collect an id.  `AuditIdsExact` (`IdsAreOwn`, `NothingForgotten`): ids are lost
only where a save has failed, and until that process restarts.  Proved (`ListsStayExact`) for any
processes, threads and logs; `OneCollects` says that what a process is about to save is the
thread's, not yet saved, and nobody else's.  That a set of ids can be sorted at all, and that its
sequence has each once (`OrderIsWhole`), is proved by counting the ids below each.

**`LeaseTable`.**  `claim_thread` and `release_thread` as both repositories have them, three
owners, four claims, leases that run out at any time.  `NewestClaimHolds`, proved
(`ThreadsProof`) like `NoTakeOver` for any owners, with `Timed` (an owner has a time).

## 8. `MemRepository`, and the run `platform`

**`MemRepository`.**  `unit_of_work` as snapshot and rollback, inserts, `try_execute_refund`, versioned writes
and the executed sum, seen from one order.  Nothing in the repository refuses a second
`insert_operation` of one id, which puts a draft in the place of what was there (`memory.py:101-103`), nor
a second `try_execute_refund`, which books the amount again (`:127-137`): the commands test before
they call.  The model does both, and keeps the operations so treated in a history (`irregular`).
`RepositoryConsistent`: the executed sum is never below that of the executed rows, so the capacity
test errs on the safe side, and equal to it while nothing was irregular; a row of a regular
operation whose version is the one a client read is the row it read.  `AllOrNothing`: a unit of
work is all there or not at all.  Two clients, two operations, rewritten once, one of them
irregular; a command may read, be overtaken and write.  The thread tables are not
among the containers the snapshot keeps (`memory.py:52-55`), though the docstring speaks of
all of them: leases have no rollback, and `LeaseTable` models them apart.  Both properties are proved
(`MemRepositoryProof`) for any clients, operations and amounts.  `RepoInv` says that the tables *and*
the snapshot behind a unit of work are sound (types, and the sum of the rows), and that a row a
client read is `Fresh`: no newer than the one in the tables and, at the same version, the same.
Rows that others read before a unit of work began are fresh in its snapshot too, which is why a
rollback, the one step that takes versions back, makes no stale row current.

**`MCPlatform`** is one instance for the modules of sections 5 to 8: each initial state
belongs to one `part`, the other parts rest, and only that part moves.  The parts share no
state in the code, so interleaving them would show nothing more; a property of a part
is checked on exactly the states that part reaches.  The actions of the parts are the
modules' own.

**Fairness** (`Fairness`), as far as the code gives it: a run's thread goes on, and the
timers of its calls fire, while a worker may hang for ever; `run_task` goes on.  Nothing else is fair.

## 9. Reach

Every invariant of a passing run, and every action property and refinement, is the
subject of a theorem.  Only model-checked: liveness (`CommandsEnd`, `AgentRunsEnd`, `TasksAnswered`),
for fairness and `ENABLED` are outside the prover.  The theorems of `MemServiceProof` that
speak of books and audit hold while one thread decides (section 3).  What they all rest on
beyond the modules are the named assumptions on constants; those that are more than
types are `LimitAssumption` (4), `DigitsAssumption` (6), `DecimalAssumption` and `TenantAssumption` (7).  The
disagreements with texts are counterexamples of TLC and need no proof.

Not modelled, each with its reason in `PROJECT.json`: platform helpers and diagnostics.
Left out of modelled parts: HTTP parsing, validation and error bodies; prompts, texts,
logging, redaction; the numerics of vectors; the agent lab's sandbox; the tickets,
approvals, audit rows and orders of the in-memory repository, which its snapshot keeps as it keeps
operations; `restore_state` and
`export_state` of the service, `with_order_lock` and `try_execute_refund` of the PostgreSQL
repository, all used by tests or tools that run alone; `retry_call`, which keeps no state;
`evals/` and `scripts/`, which run the system on fixed data and judge its output.

## 10. Plan

1. An abstract specification of the workflow, a thread whose outcome is decided once, that
   `Workflow` implements while runs do not overlap.
2. `PgClosedTicketRace` and `PgTicketAudit` show what two commands without a lock may do: the
   strongest statement about tickets that does hold, as a theorem.
3. The remaining tables of the in-memory repository, if commands are ever moved onto it.

The runs are kept few: a component has one run per question, its refinement is checked
in a run of its own only where it would slow the others down, and the small
components share one instance.
