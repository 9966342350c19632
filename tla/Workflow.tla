------------------------------- MODULE Workflow -------------------------------
(***************************************************************************)
(* One workflow thread (tenant_id, thread_id) of the after-sales agent:    *)
(* requests that start or resume it, its lease, its checkpoint, the graph's *)
(* nodes, the tool ledger of each process, and the ticket and operation it  *)
(* creates.  Threads share none of these with each other.                   *)
(***************************************************************************)
EXTENDS AfterSalesRules, Naturals, FiniteSets

CONSTANTS Worker,    \* the request-handling threads of all processes
          Proc,      \* the processes; each owns leases under its own owner_id
          Request,   \* request fingerprints
          MaxSteps,  \* the limit on executed nodes (max_steps)
          Starter,   \* a bound of the model: the workers that serve start
          MaxCalls,  \* a bound of the model: requests made
          MaxFaults, \* a bound of the model: crashes and exceptions
          Nobody     \* no owner, no fingerprint, no checkpoint writer

ASSUME NobodyAssumption == Nobody \notin Proc \cup Request \cup Worker
\* max_steps is raised to one; a bound of no faults would not count them
ASSUME LimitAssumption == MaxSteps \in Nat \ {0} /\ MaxCalls \in Nat /\ MaxFaults \in Nat \ {0}

VARIABLES
  home,     \* the process each worker belongs to; never changes
  lease,    \* the row of workflow_threads: fingerprint, owner, not expired
  ckpt,     \* the latest checkpoint: pending node, interrupt, view, writer
  ticket,   \* status of the thread's ticket
  op,       \* status of the thread's refund operation
  ledger,   \* ledger[p][tool]: the remembered result in process p
  run,      \* run[w]: the request worker w is handling
  lapsed,   \* history: a run in flight has lost its lease
  calls,    \* how many requests have been made
  overlap,  \* history: two runs were in flight at once
  faults    \* how often a crash or an exception has broken off a run or a part of it

facts == <<ticket, op>>
history == <<lapsed, overlap, faults, calls>>
vars == <<home, lease, ckpt, ticket, op, ledger, run, lapsed, overlap, faults, calls>>

Node == {"parse", "clarify", "gather_evidence", "plan", "create_ticket_draft",
         "request_approval", "apply_decision", "execute_operation",
         "settle_rejected", "escalate"}
Place == Node \cup {"end"}

NextAction == {"none", "draft_ready", "wait_approval", "execute_operation",
               "settle_rejected", "finished", "reconcile_required", "escalate", "escalated"}
Outcome == {"none", "refunded", "rejected", "failed", "escalated", "error",
            "operation_unknown", "already_processed"}

\* The state of a run as the checkpoint keeps it; "already_executed" and its
\* kind are one outcome, and error is the loop marker, another code, or none.
View == [ticket : BOOLEAN, op : BOOLEAN, next : NextAction, outcome : Outcome,
         error : {"none", "loop", "other"}, steps : 0 .. MaxSteps]

NewView == [ticket |-> FALSE, op |-> FALSE, next |-> "none", outcome |-> "none",
            error |-> "none", steps |-> 0]

Interrupt == {"none", "clarify", "approval"}
Checkpoint == [at : Place, intr : Interrupt, view : View, by : Worker \cup {Nobody}]
Absent == [at |-> "end", intr |-> "none", view |-> NewView, by |-> Nobody]
Exists == ckpt.by # Nobody

Lease == [fp : Request \cup {Nobody}, owner : Proc \cup {Nobody}, live : BOOLEAN]

\* Writes whose results the ledger remembers; operations are always read again.  A
\* remembered create_ticket is what the domain returns for the key, and left out.
Tool == {"create_refund", "submit", "execute", "close_ticket"}
EmptyLedger == [t \in Tool |-> "none"]

Phase == {"idle", "checked", "invoke", "node", "refund", "submit", "close",
          "save", "recover", "closing", "settle", "release"}
\* at: the node to run; resumed: the resume value is not used up; waiting: the
\* result that was built is waiting, which decides on the lease at the end
Run == [pc : Phase, at : Place, view : View, resumed : BOOLEAN,
        waiting : BOOLEAN]
Idle == [pc |-> "idle", at |-> "end", view |-> NewView,
         resumed |-> FALSE, waiting |-> FALSE]

BrokenOff == IF faults < MaxFaults THEN faults + 1 ELSE faults

\* the reply is built; only the lease remains to be seen to
Ended(waiting) == [Idle EXCEPT !.pc = "release", !.waiting = waiting]

InFlight(w) == run[w].pc \notin {"idle", "checked"}
Running == {w \in Worker : InFlight(w)}

Step(w, r) == run' = [run EXCEPT ![w] = r]
\* w is about to run the node, and the limit allows it
At(w, node) == run[w].pc = "node" /\ run[w].at = node /\ run[w].view.steps < MaxSteps

-----------------------------------------------------------------------------
(* The lease: claim_thread, release_thread, and its expiry *)

\* mutant: any process gets the lease
ClaimableByAll(p) == TRUE

Claimable(p) == \/ lease.owner \in {p, Nobody}
                \/ ~ lease.live

Claim(w, f) ==
  /\ Claimable(home[w])
  /\ lease' = [fp |-> f, owner |-> home[w], live |-> TRUE]
  /\ overlap' = (overlap \/ Running # {})
  /\ UNCHANGED <<lapsed, faults>>

\* The row is released for its owner only.  A run of the same process that is
\* still in flight goes on without it.
ReleaseLease(w) ==
  IF lease.owner = home[w]
  THEN /\ lease' = [lease EXCEPT !.owner = Nobody, !.live = FALSE]
       /\ lapsed' = (lapsed \/ Running # {w})
  ELSE UNCHANGED <<lease, lapsed>>

\* lease_until passes; a run does not renew its lease and does not notice.
Expire ==
  /\ lease.live
  /\ lease' = [lease EXCEPT !.live = FALSE]
  /\ lapsed' = (lapsed \/ Running # {})
  /\ UNCHANGED <<home, ckpt, facts, ledger, run, overlap, faults, calls>>

-----------------------------------------------------------------------------
(* The entries: start, clarify, decision *)

Counts == calls < MaxCalls /\ calls' = calls + 1

\* The lease, then the thread as it is: an existing one gets its current result, a
\* new one the graph.
Start(w) ==
  /\ w \in Starter
  /\ run[w].pc = "idle"
  /\ \E f \in Request :
       /\ lease.fp \in {Nobody, f}
       /\ Claim(w, f)
  /\ Step(w, IF Exists
             THEN [Idle EXCEPT !.pc = "recover", !.view = ckpt.view,
                               !.waiting = ckpt.intr # "none" /\ ckpt.view.error # "loop"]
             ELSE [Idle EXCEPT !.pc = "invoke"])
  /\ Counts
  /\ UNCHANGED <<home, ckpt, facts, ledger>>

\* invoke(inputs): the input is saved first, over whatever the thread has by then
InvokeNew(w) ==
  /\ run[w].pc = "invoke"
  /\ ckpt' = [at |-> "parse", intr |-> "none", view |-> ckpt.view, by |-> w]
  /\ Step(w, [run[w] EXCEPT !.pc = "node", !.at = "parse", !.view = ckpt.view])
  /\ UNCHANGED <<home, lease, facts, ledger, history>>

\* What agent_clarify and agent_decision require of the state they read, before
\* the lease is taken.
Resumable(call) ==
  \/ /\ ckpt.intr = (IF call = "clarify" THEN "clarify" ELSE "approval")
     /\ ckpt.view.error # "loop"
  \/ call = "decision" /\ ckpt.view.op /\ ckpt.view.next \in {"reconcile_required", "finished"}

Ask(w) ==
  /\ run[w].pc = "idle"
  /\ Exists
  /\ \E call \in {"clarify", "decision"} : Resumable(call)
  /\ Step(w, [Idle EXCEPT !.pc = "checked"])
  /\ Counts
  /\ UNCHANGED <<home, lease, ckpt, facts, ledger, lapsed, overlap, faults>>

\* A settled thread is only recovered; any other continues at its pending node.
Resume(w) ==
  /\ run[w].pc = "checked"
  /\ Claim(w, lease.fp)
  /\ LET settled == ckpt.intr = "none" /\ ckpt.view.next \in {"reconcile_required", "finished"}
     IN Step(w, IF settled \/ ckpt.at = "end"
                THEN [Idle EXCEPT !.pc = "recover", !.view = ckpt.view]
                ELSE [Idle EXCEPT !.pc = "node", !.at = ckpt.at, !.view = ckpt.view,
                                  !.resumed = TRUE])
  /\ UNCHANGED <<home, ckpt, facts, ledger, calls>>

RefuseClaim(w) ==
  /\ run[w].pc = "checked"
  /\ ~ Claimable(home[w])
  /\ Step(w, Idle)
  /\ UNCHANGED <<home, lease, ckpt, facts, ledger, history>>

-----------------------------------------------------------------------------
(* The graph: a node's update, its checkpoint, its successor *)

Counted(v) == [v EXCEPT !.steps = v.steps + 1]

After(to) == IF to = "end" THEN "recover" ELSE "node"

\* a node without domain writes: its body and the checkpoint after it
Advance(w, v, to) ==
  /\ ckpt' = [at |-> to, intr |-> "none", view |-> Counted(v), by |-> w]
  /\ Step(w, [run[w] EXCEPT !.pc = After(to), !.at = to, !.view = Counted(v),
                            !.resumed = FALSE])

\* a node with domain writes: its update is ready, the checkpoint is a later step
Ready(w, v, to) ==
  Step(w, [run[w] EXCEPT !.pc = "save", !.at = to, !.view = Counted(v), !.resumed = FALSE])

Save(w) ==
  /\ run[w].pc = "save"
  /\ ckpt' = [at |-> run[w].at, intr |-> "none", view |-> run[w].view, by |-> w]
  /\ Step(w, [run[w] EXCEPT !.pc = After(run[w].at)])
  /\ UNCHANGED <<home, lease, facts, ledger, history>>

\* interrupt(): kept with the checkpoint the run wrote, so it shows only while that
\* is the latest; nothing else of the node is kept
Suspend(w, intr) ==
  /\ ckpt' = IF ckpt.by = w THEN [ckpt EXCEPT !.intr = intr] ELSE ckpt
  /\ Step(w, [Idle EXCEPT !.pc = "recover", !.view = run[w].view, !.waiting = TRUE])

Quietly == UNCHANGED <<home, lease, facts, ledger, history>>

\* extract_intent and route_after_parse
Parse(w) ==
  /\ At(w, "parse")
  /\ \E to \in {"clarify", "gather_evidence", "escalate"} : Advance(w, run[w].view, to)
  /\ Quietly

Clarify(w) ==
  /\ At(w, "clarify")
  /\ IF run[w].resumed THEN Advance(w, run[w].view, "parse") ELSE Suspend(w, "clarify")
  /\ Quietly

Escalating(v, outcome) ==
  [v EXCEPT !.error = "other", !.outcome = outcome, !.next = "escalate"]

\* order, history, logistics and policy evidence; a failure is escalated
GatherEvidence(w) ==
  /\ At(w, "gather_evidence")
  /\ \/ run[w].view.error = "none" /\ Advance(w, run[w].view, "plan")
     \/ Advance(w, Escalating(run[w].view, "escalated"), "escalate")
  /\ Quietly

Plan(w) ==
  /\ At(w, "plan")
  /\ \/ /\ run[w].view.error = "none"
        /\ Advance(w, [run[w].view EXCEPT !.next = "draft_ready"], "create_ticket_draft")
     \/ Advance(w, Escalating(run[w].view, "escalated"), "escalate")
  /\ Quietly

Escalate(w) ==
  /\ At(w, "escalate")
  /\ Advance(w, [run[w].view EXCEPT !.outcome = "escalated", !.next = "escalated"], "end")
  /\ Quietly

\* a resume, whatever it carries, only has the decision read again
RequestApproval(w) ==
  /\ At(w, "request_approval")
  /\ IF run[w].resumed
     THEN Advance(w, [run[w].view EXCEPT !.next = "wait_approval"], "apply_decision")
     ELSE Suspend(w, "approval")
  /\ Quietly

\* the operation is read from the domain, never from the resume or the ledger
DecidedStatus(w) == op

ApplyDecision(w) ==
  /\ At(w, "apply_decision")
  /\ LET v == run[w].view
         st == DecidedStatus(w)
         finish(outcome, next) ==
           Advance(w, [v EXCEPT !.outcome = outcome, !.next = next], "end")
     IN
     CASE st = "approved" ->
            Advance(w, [v EXCEPT !.next = "execute_operation"], "execute_operation")
       [] st = "rejected" ->
            Advance(w, [v EXCEPT !.next = "settle_rejected"], "settle_rejected")
       [] st = "executed" -> finish("already_processed", "finished")
       [] st = "failed" -> finish("failed", "finished")
       [] st = "unknown" -> finish("operation_unknown", "reconcile_required")
       [] OTHER -> Advance(w, [v EXCEPT !.next = "wait_approval"], "request_approval")
  /\ Quietly

-----------------------------------------------------------------------------
(* Domain calls through the gateway, deduplicated by the ledger *)

\* A call finds the first result, or it misses: there is none, or calls of other
\* threads have pushed it out of a ledger of 512.
Hit(w, tool) == ledger[home[w]][tool] # "none" /\ UNCHANGED ledger
Miss(w, tool, result) == ledger' = [ledger EXCEPT ![home[w]][tool] = result]
Cached(w, tool) == ledger[home[w]][tool]

\* create_ticket with the thread's key: the domain returns the first ticket again
CreateTicket(w) ==
  /\ At(w, "create_ticket_draft")
  /\ ticket' = IF ticket = "none" THEN "open" ELSE ticket
  /\ Step(w, [run[w] EXCEPT !.pc = "refund", !.view.ticket = TRUE])
  /\ UNCHANGED <<home, lease, ckpt, op, ledger, history>>

\* create_refund_draft refuses a closed ticket before it looks for the key
CreateRefund(w) ==
  /\ run[w].pc = "refund"
  /\ \/ /\ \/ run[w].view.op /\ UNCHANGED ledger
           \/ Hit(w, "create_refund")
        /\ UNCHANGED op
     \/ /\ ~ run[w].view.op /\ ticket # "closed"
        /\ op' = IF op = "none" THEN "draft" ELSE op
        /\ Miss(w, "create_refund", "ok")
  /\ Step(w, [run[w] EXCEPT !.pc = "submit", !.view.op = TRUE])
  /\ UNCHANGED <<home, lease, ckpt, ticket, history>>

\* submit in the gateway: a draft is submitted, any other status returned as it is
Submitted == IF op = "draft" THEN "pending_approval" ELSE op

\* pending approval: wait; anything else was settled before: finish
AfterSubmit(w, status) ==
  LET v == run[w].view IN
  IF status = "pending_approval"
  THEN Ready(w, [v EXCEPT !.next = "wait_approval"], "request_approval")
  ELSE Ready(w, [v EXCEPT !.next = "finished",
                          !.outcome = IF status = "unknown" THEN "operation_unknown"
                                      ELSE "already_processed"], "end")

Submit(w) ==
  /\ run[w].pc = "submit"
  /\ \/ Hit(w, "submit") /\ UNCHANGED op /\ AfterSubmit(w, Cached(w, "submit"))
     \/ Miss(w, "submit", Submitted) /\ op' = Submitted /\ AfterSubmit(w, Submitted)
  /\ UNCHANGED <<home, lease, ckpt, ticket, history>>

\* the nodes that call the domain, and catch no more than its own refusals
Calling == {"gather_evidence", "plan", "create_ticket_draft", "apply_decision",
            "execute_operation", "settle_rejected"}

\* A closed ticket takes no draft; else it is the database, under a call of the node, the
\* reads around it, or the checkpoint.
MayRaise(w) ==
  \/ run[w].pc = "refund" /\ ~ run[w].view.op /\ ticket = "closed"
  \/ /\ faults < MaxFaults
     /\ run[w].pc \in {"refund", "submit", "close", "save"} \/ \E node \in Calling : At(w, node)

\* mutant: the ledger remembers a call before it has returned
NodeRaisesRemembered(w) ==
  /\ MayRaise(w)
  /\ faults' = BrokenOff
  /\ ledger' = [ledger EXCEPT ![home[w]] =
                  [@ EXCEPT !["create_refund"] = "ok", !["submit"] = "pending_approval"]]
  /\ Step(w, Ended(FALSE))
  /\ UNCHANGED <<home, lease, ckpt, facts, lapsed, overlap, calls>>

\* The node does not catch it: the run ends, its node stays pending.
NodeRaises(w) ==
  /\ MayRaise(w)
  /\ faults' = BrokenOff
  /\ Step(w, Ended(FALSE))
  /\ UNCHANGED <<home, lease, ckpt, facts, ledger, lapsed, overlap, calls>>

\* execute: the remembered result, or the domain's answer.  It refuses an operation
\* that is not approved, and may refuse one that is (capacity).
Execute(w) ==
  /\ At(w, "execute_operation")
  /\ LET v == run[w].view
         proceed(result) ==
           IF result = "unknown"
           THEN Ready(w, [v EXCEPT !.outcome = "operation_unknown",
                                   !.next = "reconcile_required"], "end")
           ELSE Step(w, [run[w] EXCEPT !.pc = "close"])
     IN
     \/ Hit(w, "execute") /\ UNCHANGED op /\ proceed(Cached(w, "execute"))
     \/ /\ op = "approved"
        /\ \E result \in {"executed", "unknown"} :
             op' = result /\ Miss(w, "execute", result) /\ proceed(result)
     \/ Ready(w, Escalating(v, "error"), "end") /\ UNCHANGED <<op, ledger>>
  /\ UNCHANGED <<home, lease, ckpt, ticket, history>>

\* close_ticket of the domain: open, and no operation undecided
Closable == ticket = "open" /\ op \in TerminalStatus \cup {"none"}

\* the close call of execute_operation and of settle_rejected
Close(w) ==
  /\ run[w].pc = "close" \/ At(w, "settle_rejected")
  /\ LET v == run[w].view
         outcome == IF run[w].pc = "close" THEN "refunded" ELSE "rejected"
         done == Ready(w, [v EXCEPT !.outcome = outcome, !.next = "finished"], "end")
     IN
     \/ Hit(w, "close_ticket") /\ UNCHANGED ticket /\ done
     \/ Closable /\ ticket' = "closed" /\ Miss(w, "close_ticket", "ok") /\ done
     \/ /\ ~ Closable /\ UNCHANGED <<ticket, ledger>>
        /\ Ready(w, Escalating(v, "error"), "end")
  /\ UNCHANGED <<home, lease, ckpt, op, history>>

LoopMarker(v) == [v EXCEPT !.outcome = "escalated", !.next = "escalated", !.error = "loop"]

\* mutant: the marker is in the reply only
LoopStopUnsaved(w) ==
  /\ run[w].pc = "node" /\ run[w].view.steps = MaxSteps
  /\ Step(w, Ended(FALSE))
  /\ UNCHANGED ckpt
  /\ Quietly

\* The next node would be one too many: its body does not run, and the marker is
\* written to the checkpoint as the node "escalate".
LoopStop(w) ==
  /\ run[w].pc = "node" /\ run[w].view.steps = MaxSteps
  /\ ckpt' = [at |-> "end", intr |-> "none", view |-> LoopMarker(ckpt.view), by |-> w]
  /\ Step(w, Ended(FALSE))
  /\ Quietly

\* a marker that cannot be written is only logged
LoopStopUnwritten(w) ==
  /\ run[w].pc = "node" /\ run[w].view.steps = MaxSteps
  /\ faults < MaxFaults /\ faults' = BrokenOff
  /\ Step(w, Ended(FALSE))
  /\ UNCHANGED <<home, lease, ckpt, facts, ledger, lapsed, overlap, calls>>

-----------------------------------------------------------------------------
(* Recovery of a settled operation, and the end of the request *)

SettledStatus == {"executed", "rejected", "failed"}

\* mutant: the loop marker does not stop the recovery
RecoverableAlways(v) == v.ticket /\ v.op /\ op \in SettledStatus

\* Is there an operation whose outcome the view does not have yet?
Recoverable(v) == v.error # "loop" /\ v.ticket /\ v.op /\ op \in SettledStatus

Settled(v, st) ==
  [v EXCEPT !.outcome = CASE st = "executed" -> "refunded"
                          [] st = "rejected" -> "rejected"
                          [] OTHER -> "failed",
            !.next = "finished", !.error = "none"]

\* mutant: a rejected operation's ticket stays open too
NeedsClosingIfExecuted == op = "executed" /\ ticket # "closed"

\* a failed operation leaves its ticket open for manual handling
NeedsClosing == op \in {"executed", "rejected"} /\ ticket # "closed"

Recover(w) ==
  /\ run[w].pc = "recover"
  /\ LET v == run[w].view IN
     Step(w, CASE ~ Recoverable(v) -> Ended(run[w].waiting)
               [] Recoverable(v) /\ NeedsClosing -> [run[w] EXCEPT !.pc = "closing"]
               [] OTHER -> [run[w] EXCEPT !.pc = "settle", !.view = Settled(v, op)])
  /\ UNCHANGED <<home, lease, ckpt, facts, ledger, history>>

Unfinished(v) ==
  [v EXCEPT !.error = "other", !.outcome = "escalated", !.next = "escalated"]

\* the domain's close_ticket, outside a node and hence without the ledger; it fails
\* if someone closed the ticket since it was read
RecoverClose(w) ==
  /\ run[w].pc = "closing"
  /\ LET v == run[w].view IN
     IF Closable
     THEN /\ ticket' = "closed"
          /\ Step(w, [run[w] EXCEPT !.pc = "settle", !.view = Settled(v, op)])
     ELSE /\ UNCHANGED ticket
          /\ Step(w, [run[w] EXCEPT !.pc = "settle", !.view = Unfinished(v)])
  /\ UNCHANGED <<home, lease, ckpt, op, ledger, history>>

\* The recovery is failed by the database.  If it is the operation that cannot be read, or
\* the new view that cannot be written, the old one stays; between the two, in the reads,
\* in the close or after it, any view is escalated, also one that says refunded or rejected.
RecoverRaises(w) ==
  /\ faults < MaxFaults /\ faults' = BrokenOff
  /\ \/ /\ run[w].pc \in {"recover", "settle"} /\ Step(w, Ended(run[w].waiting))
        /\ UNCHANGED ticket
     \/ /\ run[w].pc = "closing" \/ (run[w].pc = "recover" /\ Recoverable(run[w].view))
        /\ Step(w, [run[w] EXCEPT !.pc = "settle", !.view = Unfinished(run[w].view)])
        /\ \/ UNCHANGED ticket
           \/ run[w].pc = "closing" /\ Closable /\ ticket' = "closed"
  /\ UNCHANGED <<home, lease, ckpt, op, ledger, lapsed, overlap, calls>>

\* update_state: the recovered view is the thread's last checkpoint
Settle(w) ==
  /\ run[w].pc = "settle"
  /\ ckpt' = [at |-> "end", intr |-> "none", view |-> run[w].view, by |-> w]
  /\ Step(w, Ended(run[w].waiting))
  /\ UNCHANGED <<home, lease, facts, ledger, history>>

\* The finally clause.  "waiting" is what the graph's result said, also when the
\* recovery has finished the thread since.
Release(w) ==
  /\ run[w].pc = "release"
  /\ IF run[w].waiting THEN UNCHANGED <<lease, lapsed>> ELSE ReleaseLease(w)
  /\ Step(w, Idle)
  /\ UNCHANGED <<home, ckpt, facts, ledger, overlap, faults, calls>>

-----------------------------------------------------------------------------
(* Everything else that happens to a thread *)

\* A process dies: its runs and its ledger are gone, its lease stays.
Crash(p) ==
  LET dead == {w \in Worker : home[w] = p /\ run[w].pc # "idle"} IN
  /\ dead # {} \/ ledger[p] # EmptyLedger
  /\ run' = [w \in Worker |-> IF w \in dead THEN Idle ELSE run[w]]
  /\ ledger' = [ledger EXCEPT ![p] = EmptyLedger]
  /\ dead # {} => faults < MaxFaults
  /\ faults' = IF dead = {} THEN faults ELSE BrokenOff
  /\ UNCHANGED <<home, lease, ckpt, facts, lapsed, overlap, calls>>

\* Approvers and SYSTEM decide, execute and reconcile through the domain's own
\* endpoints, and agents close tickets there.
DomainStep ==
  /\ \/ /\ \E t \in OperationTransitions : op = t[1] /\ op' = t[2]
        /\ UNCHANGED ticket
     \/ /\ Closable
        /\ ticket' = "closed"
        /\ UNCHANGED op
  /\ UNCHANGED <<home, lease, ckpt, ledger, run, history>>

Init ==
  /\ home \in [Worker -> Proc]
  /\ lease = [fp |-> Nobody, owner |-> Nobody, live |-> FALSE]
  /\ ckpt = Absent
  /\ ticket = "none"
  /\ op = "none"
  /\ ledger = [p \in Proc |-> EmptyLedger]
  /\ run = [w \in Worker |-> Idle]
  /\ lapsed = FALSE /\ overlap = FALSE /\ faults = 0 /\ calls = 0

Entry(w) ==
  \/ Start(w) \/ InvokeNew(w) \/ Ask(w) \/ Resume(w) \/ RefuseClaim(w)

NodeStep(w) ==
  \/ Parse(w) \/ Clarify(w) \/ GatherEvidence(w) \/ Plan(w) \/ Escalate(w)
  \/ RequestApproval(w) \/ ApplyDecision(w) \/ CreateTicket(w) \/ CreateRefund(w)
  \/ Submit(w) \/ NodeRaises(w) \/ Execute(w) \/ Close(w) \/ Save(w) \/ LoopStop(w)
  \/ LoopStopUnwritten(w)

Ending(w) ==
  Recover(w) \/ RecoverClose(w) \/ RecoverRaises(w) \/ Settle(w) \/ Release(w)

Next ==
  \/ \E w \in Worker : Entry(w) \/ NodeStep(w) \/ Ending(w)
  \/ \E p \in Proc : Crash(p)
  \/ Expire
  \/ DomainStep

Spec == Init /\ [][Next]_vars

-----------------------------------------------------------------------------
(* Properties *)

\* Everything keeps its type; in particular no run executes more nodes than the
\* limit, however often the thread is resumed.
TypeOK ==
  /\ home \in [Worker -> Proc]
  /\ lease \in Lease
  /\ ckpt \in Checkpoint
  /\ ticket \in {"none", "open", "closed"}
  /\ op \in OperationStatus \cup {"none"}
  /\ ledger \in [Proc -> [Tool -> {"none", "ok"} \cup OperationStatus]]
  /\ run \in [Worker -> Run]
  /\ lapsed \in BOOLEAN /\ overlap \in BOOLEAN /\ faults \in 0 .. MaxFaults /\ calls \in 0 .. MaxCalls

\* The checkpoint is a view, the domain the truth (execute_operation,
\* settle_rejected, _recover_terminal_state): no view says refunded, rejected or
\* failed before it is so and the ticket closed, whatever results were remembered,
\* runs overlapped or processes died in between.
TellsTheTruth(v) ==
  /\ v.outcome = "refunded" => op = "executed" /\ ticket = "closed"
  /\ v.outcome = "rejected" => op = "rejected" /\ ticket = "closed"
  /\ v.outcome = "failed" => op = "failed"

ViewTruthful ==
  /\ TypeOK
  /\ TellsTheTruth(ckpt.view)
  /\ \A w \in Worker : TellsTheTruth(run[w].view)

\* Lease (claim_thread, release_thread): two processes advance a thread at the same
\* time only after one of them has lost its lease while it ran.
ExclusiveUntilLapse ==
  \A v, w \in Running : home[v] # home[w] => lapsed

\* A thread that waits for an approval, or acts on one, has a submitted operation
\* (create_ticket_draft), also when the calls came from the ledger's memory.
WaitingIsSubmitted ==
  ckpt.at \in {"request_approval", "apply_decision", "execute_operation", "settle_rejected"}
    => ticket # "none" /\ op \notin {"none", "draft"}

\* Nobody runs the thread, and it is neither finished nor waiting for anyone.
Stranded == Exists /\ Running = {} /\ ckpt.at # "end" /\ ckpt.intr = "none"

\* A thread is left between two nodes only by a fault: a process that died, an exception
\* that a node lets through, or a loop marker that could not be written.
StrandedOnlyByFault == Stranded => faults > 0

\* While runs do not overlap, a thread that is refunded, rejected or stopped by the
\* loop guard stays so, and no run writes anything for it any more (_loop_stop:
\* "no new domain writes", _recover_terminal_state).  One thing overwrites a refunded or
\* rejected thread: a recovery that the database fails, which has it escalated.
Final(v) == v.outcome \in {"refunded", "rejected"} \/ v.error = "loop"

FinalStaysFinal ==
  [][~ overlap' /\ Final(ckpt.view) =>
       /\ \/ /\ ckpt'.view.outcome = ckpt.view.outcome
             /\ ckpt'.view.error = ckpt.view.error
          \/ /\ ckpt.view.error # "loop" /\ faults > 0
             /\ ckpt'.view = Unfinished(ckpt.view)
       /\ run' # run => UNCHANGED facts]_vars

\* "One thread is advanced by one run at a time" (workflow_threads lease).  The lease
\* is claimed again by its own owner, and all requests of a process are one owner:
\* this does not hold.
SingleAdvance == Cardinality(Running) <= 1

\* After a crash and the lease's expiry another instance resumes the thread with a
\* decision.  A thread whose process died between two nodes has no interrupt, and the
\* endpoint refuses it although its operation is approved: this does not hold.
ApprovedIsResumable ==
  op = "approved" /\ Running = {} /\ ckpt.at # "end" => Resumable("decision")
=============================================================================
