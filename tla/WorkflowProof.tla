---------------------------- MODULE WorkflowProof ----------------------------
(***************************************************************************)
(* Workflow, for any workers, processes, requests, limits and numbers of    *)
(* calls and faults.                                                        *)
(***************************************************************************)
EXTENDS Workflow, TLAPS

-----------------------------------------------------------------------------
(* Types *)

\* A node that has begun its calls is one the limit allowed.
WithinLimit ==
  \A w \in Worker : run[w].pc \in {"refund", "submit", "close"} => run[w].view.steps < MaxSteps

Structure == TypeOK /\ WithinLimit

\* The actor's record is the only one an action of a worker changes.
LEMMA StepType ==
  ASSUME Structure, NEW w \in Worker, NEW r \in Run, Step(w, r),
         r.pc \in {"refund", "submit", "close"} => r.view.steps < MaxSteps
  PROVE  run' \in [Worker -> Run] /\ WithinLimit'
  BY DEF Structure, TypeOK, Step, WithinLimit

LEMMA CountedType ==
  ASSUME NEW v \in View, v.steps < MaxSteps
  PROVE  Counted(v) \in View
  BY LimitAssumption DEF View, Counted

LEMMA NewViewType == NewView \in View
  BY LimitAssumption DEF NewView, View, NextAction, Outcome

LEMMA IdleType == Idle \in Run /\ \A waiting \in BOOLEAN : Ended(waiting) \in Run
  BY NewViewType DEF Idle, Ended, Run, Phase, Place

LEMMA AdvanceType ==
  ASSUME Structure, NEW w \in Worker, NEW v \in View, v.steps < MaxSteps,
         NEW to \in Place, Advance(w, v, to)
  PROVE  ckpt' \in Checkpoint /\ run' \in [Worker -> Run] /\ WithinLimit'
  <1>1. Counted(v) \in View
    BY CountedType
  <1>2. ckpt' \in Checkpoint
    BY <1>1 DEF Advance, Checkpoint, Interrupt
  <1> DEFINE r == [run[w] EXCEPT !.pc = After(to), !.at = to, !.view = Counted(v), !.resumed = FALSE]
  <1>3. r \in Run /\ r.pc \in {"recover", "node"}
    BY <1>1 DEF Structure, TypeOK, Run, After, Phase
  <1>4. Step(w, r)
    BY DEF Advance
  <1> HIDE DEF r
  <1> QED
    BY <1>2, <1>3, <1>4, StepType

LEMMA ReadyType ==
  ASSUME Structure, NEW w \in Worker, NEW v \in View, v.steps < MaxSteps,
         NEW to \in Place, Ready(w, v, to)
  PROVE  run' \in [Worker -> Run] /\ WithinLimit'
  <1>1. Counted(v) \in View
    BY CountedType
  <1> DEFINE r == [run[w] EXCEPT !.pc = "save", !.at = to, !.view = Counted(v), !.resumed = FALSE]
  <1>3. r \in Run /\ r.pc = "save"
    BY <1>1 DEF Structure, TypeOK, Run, Phase
  <1>4. Step(w, r)
    BY DEF Ready
  <1> HIDE DEF r
  <1> QED
    BY <1>3, <1>4, StepType

LEMMA SuspendType ==
  ASSUME Structure, NEW w \in Worker, NEW intr \in Interrupt, Suspend(w, intr)
  PROVE  ckpt' \in Checkpoint /\ run' \in [Worker -> Run] /\ WithinLimit'
  <1>1. ckpt' \in Checkpoint
    BY DEF Suspend, Checkpoint, Structure, TypeOK
  <1> DEFINE r == [Idle EXCEPT !.pc = "recover", !.view = run[w].view, !.waiting = TRUE]
  <1>2. r \in Run /\ r.pc = "recover"
    BY IdleType DEF Structure, TypeOK, Run, Phase
  <1>3. Step(w, r)
    BY DEF Suspend
  <1> HIDE DEF r
  <1> QED
    BY <1>1, <1>2, <1>3, StepType

\* The views that nodes make of a view.
LEMMA ViewUpdates ==
  ASSUME NEW v \in View
  PROVE  /\ \A next \in NextAction : [v EXCEPT !.next = next] \in View
         /\ \A outcome \in Outcome, next \in NextAction :
              /\ [v EXCEPT !.outcome = outcome, !.next = next] \in View
              /\ [v EXCEPT !.next = next, !.outcome = outcome] \in View
         /\ \A outcome \in Outcome : Escalating(v, outcome) \in View
         /\ LoopMarker(v) \in View
         /\ \A st : Settled(v, st) \in View
         /\ Unfinished(v) \in View
  BY DEF View, Escalating, LoopMarker, Settled, Unfinished, NextAction, Outcome

\* A run broken off by an exception, before a node's update or a marker is written.
BreaksOff(w) ==
  /\ faults' = BrokenOff
  /\ Step(w, Ended(FALSE))
  /\ UNCHANGED <<home, lease, ckpt, facts, ledger, lapsed, overlap, calls>>

LEMMA RaisesBreakOff ==
  ASSUME NEW w \in Worker, NodeRaises(w) \/ LoopStopUnwritten(w)
  PROVE  BreaksOff(w) /\ run[w].pc \in {"node", "refund", "submit", "close", "save"}
  BY DEF BreaksOff, NodeRaises, MayRaise, LoopStopUnwritten, At

LEMMA FaultsType ==
  ASSUME TypeOK
  PROVE  BrokenOff \in 1 .. MaxFaults
  BY LimitAssumption DEF BrokenOff, TypeOK

LEMMA EscalatingType ==
  ASSUME NEW v \in View, NEW outcome \in Outcome
  PROVE  Escalating(v, outcome) \in View /\ Escalating(v, outcome).steps = v.steps
  BY DEF View, Escalating, NextAction, Outcome

LEMMA MissType ==
  ASSUME TypeOK, NEW w, NEW tool, NEW result \in {"ok"} \cup OperationStatus,
         Miss(w, tool, result)
  PROVE  ledger' \in [Proc -> [Tool -> {"none", "ok"} \cup OperationStatus]]
  BY DEF Miss, TypeOK

-----------------------------------------------------------------------------
LEMMA ClaimType ==
  ASSUME TypeOK, NEW w \in Worker, NEW f \in Request \cup {Nobody}, Claim(w, f)
  PROVE  lease' \in Lease /\ overlap' \in BOOLEAN /\ lapsed' = lapsed /\ faults' = faults
  BY DEF Claim, TypeOK, Lease

LEMMA CountsType ==
  ASSUME TypeOK, Counts
  PROVE  calls' \in 0 .. MaxCalls
  BY LimitAssumption DEF Counts, TypeOK

LEMMA EntryType ==
  ASSUME Structure, NEW w \in Worker, Entry(w)
  PROVE  Structure'
  <1> USE DEF Structure
  <1>1. CASE Start(w)
    <2>1. PICK f \in Request : Claim(w, f)
      BY <1>1 DEF Start
    <2>2. /\ UNCHANGED <<home, ckpt, facts, ledger>> /\ Counts
          /\ Step(w, IF Exists
             THEN [Idle EXCEPT !.pc = "recover", !.view = ckpt.view,
                               !.waiting = ckpt.intr # "none" /\ ckpt.view.error # "loop"]
             ELSE [Idle EXCEPT !.pc = "invoke"])
      BY <1>1 DEF Start
    <2> DEFINE old == [Idle EXCEPT !.pc = "recover", !.view = ckpt.view,
                               !.waiting = ckpt.intr # "none" /\ ckpt.view.error # "loop"]
               new == [Idle EXCEPT !.pc = "invoke"]
    <2>3. old \in Run /\ old.pc = "recover" /\ new \in Run /\ new.pc = "invoke"
      BY IdleType DEF TypeOK, Run, Phase, Checkpoint
    <2>4. Step(w, old) \/ Step(w, new)
      BY <2>2 DEF Step
    <2> HIDE DEF old, new
    <2>5. run' \in [Worker -> Run] /\ WithinLimit'
      BY <2>3, <2>4, StepType
    <2> QED
      BY <2>1, <2>2, <2>5, ClaimType, CountsType DEF TypeOK, facts
  <1>2. CASE InvokeNew(w)
    <2> DEFINE r == [run[w] EXCEPT !.pc = "node", !.at = "parse", !.view = ckpt.view]
    <2>1. r \in Run /\ r.pc = "node"
      BY DEF TypeOK, Run, Checkpoint, Phase, Place, Node
    <2>2. Step(w, r)
      BY <1>2 DEF InvokeNew
    <2> HIDE DEF r
    <2>3. ckpt' \in Checkpoint
      BY <1>2 DEF InvokeNew, Checkpoint, TypeOK, Place, Node, Interrupt
    <2> QED
      BY <1>2, <2>1, <2>2, <2>3, StepType DEF InvokeNew, TypeOK, facts, history
  <1>3. CASE Ask(w)
    <2> DEFINE r == [Idle EXCEPT !.pc = "checked"]
    <2>1. r \in Run /\ r.pc = "checked"
      BY IdleType DEF Run, Phase
    <2>2. Step(w, r)
      BY <1>3 DEF Ask
    <2> HIDE DEF r
    <2> QED
      BY <1>3, <2>1, <2>2, StepType, CountsType DEF Ask, TypeOK, facts
  <1>4. CASE Resume(w)
    <2>1. Claim(w, lease.fp) /\ UNCHANGED <<home, ckpt, facts, ledger, calls>>
      BY <1>4 DEF Resume
    <2> DEFINE over == [Idle EXCEPT !.pc = "recover", !.view = ckpt.view]
               pending == [Idle EXCEPT !.pc = "node", !.at = ckpt.at, !.view = ckpt.view,
                                       !.resumed = TRUE]
    <2>2. over \in Run /\ over.pc = "recover" /\ pending \in Run /\ pending.pc = "node"
      BY IdleType DEF TypeOK, Run, Phase, Checkpoint
    <2>3. Step(w, over) \/ Step(w, pending)
      BY <1>4 DEF Resume, Step
    <2> HIDE DEF over, pending
    <2>4. run' \in [Worker -> Run] /\ WithinLimit'
      BY <2>2, <2>3, StepType
    <2> QED
      BY <2>1, <2>4, ClaimType DEF TypeOK, facts, Lease
  <1>5. CASE RefuseClaim(w)
    BY <1>5, StepType, IdleType DEF RefuseClaim, TypeOK, facts, history, Idle
  <1> QED
    BY <1>1, <1>2, <1>3, <1>4, <1>5 DEF Entry

LEMMA NodeType ==
  ASSUME Structure, NEW w \in Worker, NodeStep(w)
  PROVE  Structure'
  <1> USE DEF Structure
  <1>v. run[w] \in Run /\ run[w].view \in View /\ run[w].at \in Place
    BY DEF TypeOK, Run
  <1>q. Quietly => /\ home' \in [Worker -> Proc] /\ lease' \in Lease
                   /\ ticket' \in {"none", "open", "closed"}
                   /\ op' \in OperationStatus \cup {"none"}
                   /\ ledger' \in [Proc -> [Tool -> {"none", "ok"} \cup OperationStatus]]
                   /\ lapsed' \in BOOLEAN /\ overlap' \in BOOLEAN
                   /\ faults' \in 0 .. MaxFaults /\ calls' \in 0 .. MaxCalls
    BY DEF Quietly, TypeOK, facts, history
  <1>a. ASSUME NEW v \in View, NEW to \in Place, Advance(w, v, to), Quietly, v.steps < MaxSteps
        PROVE  Structure'
    BY <1>q, <1>a, AdvanceType DEF TypeOK
  <1>s. ASSUME NEW intr \in Interrupt, Suspend(w, intr), Quietly
        PROVE  Structure'
    BY <1>q, <1>s, SuspendType DEF TypeOK
  <1> USE DEF Place, Node
  <1>1. CASE Parse(w)
    BY <1>1, <1>v, <1>a DEF Parse, At
  <1>2. CASE Clarify(w)
    BY <1>2, <1>v, <1>a, <1>s DEF Clarify, At, Interrupt
  <1>3. CASE GatherEvidence(w)
    <2> DEFINE v == Escalating(run[w].view, "escalated")
    <2>1. v \in View /\ v.steps = run[w].view.steps
      BY <1>v, EscalatingType DEF Outcome
    <2>2. /\ Quietly /\ run[w].view.steps < MaxSteps
          /\ Advance(w, run[w].view, "plan") \/ Advance(w, v, "escalate")
      BY <1>3 DEF GatherEvidence, At
    <2> HIDE DEF v
    <2> QED
      BY <1>v, <1>a, <2>1, <2>2
  <1>4. CASE Plan(w)
    <2> DEFINE v == Escalating(run[w].view, "escalated")
               u == [run[w].view EXCEPT !.next = "draft_ready"]
    <2>1. v \in View /\ v.steps = run[w].view.steps
      BY <1>v, EscalatingType DEF Outcome
    <2>2. u \in View /\ u.steps = run[w].view.steps
      BY <1>v DEF View, NextAction
    <2>3. /\ Quietly /\ run[w].view.steps < MaxSteps
          /\ Advance(w, u, "create_ticket_draft") \/ Advance(w, v, "escalate")
      BY <1>4 DEF Plan, At
    <2> HIDE DEF v, u
    <2> QED
      BY <1>a, <2>1, <2>2, <2>3
  <1>5. CASE Escalate(w)
    <2> DEFINE v == [run[w].view EXCEPT !.outcome = "escalated", !.next = "escalated"]
    <2>1. v \in View /\ v.steps = run[w].view.steps
      BY <1>v DEF View, NextAction, Outcome
    <2>2. Advance(w, v, "end") /\ Quietly /\ run[w].view.steps < MaxSteps
      BY <1>5 DEF Escalate, At
    <2> HIDE DEF v
    <2> QED
      BY <1>a, <2>1, <2>2
  <1>6. CASE RequestApproval(w)
    <2>1. /\ [run[w].view EXCEPT !.next = "wait_approval"] \in View
          /\ [run[w].view EXCEPT !.next = "wait_approval"].steps = run[w].view.steps
      BY <1>v DEF View, NextAction
    <2> QED
      BY <1>6, <1>v, <1>a, <1>s, <2>1 DEF RequestApproval, At, Interrupt
  <1>7. CASE ApplyDecision(w)
    <2> DEFINE next(n) == [run[w].view EXCEPT !.next = n]
               done(outcome, n) == [run[w].view EXCEPT !.outcome = outcome, !.next = n]
    <2>1. /\ \A n \in NextAction : next(n) \in View /\ next(n).steps = run[w].view.steps
          /\ \A outcome \in Outcome, n \in NextAction :
               done(outcome, n) \in View /\ done(outcome, n).steps = run[w].view.steps
      BY <1>v DEF View
    <2>2. Quietly /\ run[w].view.steps < MaxSteps
      BY <1>7 DEF ApplyDecision, At
    <2>3. \/ \E n \in NextAction, to \in Place : Advance(w, next(n), to)
          \/ \E outcome \in Outcome, n \in NextAction : Advance(w, done(outcome, n), "end")
      BY <1>7 DEF ApplyDecision, NextAction, Outcome
    <2> HIDE DEF next, done
    <2> QED
      BY <1>a, <2>1, <2>2, <2>3
  <1>8. CASE CreateTicket(w)
    <2> DEFINE r == [run[w] EXCEPT !.pc = "refund", !.view.ticket = TRUE]
    <2>1. r \in Run /\ r.view.steps = run[w].view.steps
      BY <1>v DEF Run, View, Phase
    <2>2. Step(w, r) /\ run[w].view.steps < MaxSteps
      BY <1>8 DEF CreateTicket, At
    <2> HIDE DEF r
    <2>3. run' \in [Worker -> Run] /\ WithinLimit'
      BY <2>1, <2>2, StepType
    <2> QED
      BY <1>8, <2>3 DEF CreateTicket, TypeOK, facts, history
  <1>9. CASE CreateRefund(w)
    <2> DEFINE r == [run[w] EXCEPT !.pc = "submit", !.view.op = TRUE]
    <2>1. r \in Run /\ r.view.steps = run[w].view.steps
      BY <1>v DEF Run, View, Phase
    <2>2. Step(w, r) /\ run[w].view.steps < MaxSteps
      BY <1>9 DEF CreateRefund, WithinLimit
    <2> HIDE DEF r
    <2>3. run' \in [Worker -> Run] /\ WithinLimit'
      BY <2>1, <2>2, StepType
    <2>4. op' \in OperationStatus \cup {"none"}
          /\ ledger' \in [Proc -> [Tool -> {"none", "ok"} \cup OperationStatus]]
      BY <1>9, MissType DEF CreateRefund, Hit, TypeOK, OperationStatus
    <2> QED
      BY <1>9, <2>3, <2>4 DEF CreateRefund, TypeOK, history
  <1>10. CASE Submit(w)
    <2>0. run[w].view.steps < MaxSteps
      BY <1>10 DEF Submit, WithinLimit
    <2>1. ASSUME NEW status, AfterSubmit(w, status)
          PROVE  run' \in [Worker -> Run] /\ WithinLimit'
      <3> DEFINE wait == [run[w].view EXCEPT !.next = "wait_approval"]
                 over(outcome) == [run[w].view EXCEPT !.next = "finished", !.outcome = outcome]
      <3>1. /\ wait \in View /\ wait.steps = run[w].view.steps
            /\ \A outcome \in Outcome :
                 over(outcome) \in View /\ over(outcome).steps = run[w].view.steps
        BY <1>v DEF View, NextAction
      <3>2. \/ Ready(w, wait, "request_approval")
            \/ \E outcome \in Outcome : Ready(w, over(outcome), "end")
        BY <2>1 DEF AfterSubmit, Outcome
      <3> HIDE DEF wait, over
      <3> QED
        BY <2>0, <3>1, <3>2, ReadyType
    <2>2. run' \in [Worker -> Run] /\ WithinLimit'
      BY <1>10, <2>1 DEF Submit
    <2>3. op' \in OperationStatus \cup {"none"}
          /\ ledger' \in [Proc -> [Tool -> {"none", "ok"} \cup OperationStatus]]
      <3>1. Submitted \in OperationStatus \cup {"none"}
        BY DEF Submitted, TypeOK, OperationStatus
      <3>2. CASE Hit(w, "submit") /\ UNCHANGED op
        BY <3>2 DEF Hit, TypeOK
      <3>3. CASE Miss(w, "submit", Submitted) /\ op' = Submitted
        BY <3>1, <3>3 DEF Miss, TypeOK
      <3> QED
        BY <1>10, <3>2, <3>3 DEF Submit
    <2> QED
      BY <1>10, <2>2, <2>3 DEF Submit, TypeOK, history
  <1>11. CASE NodeRaises(w) \/ LoopStopUnwritten(w)
    <2>0. BreaksOff(w)
      BY <1>11, RaisesBreakOff
    <2>1. Step(w, Ended(FALSE)) /\ Ended(FALSE) \in Run /\ Ended(FALSE).pc = "release"
      BY <2>0, IdleType DEF BreaksOff, Ended, Idle
    <2>2. faults' \in 0 .. MaxFaults
      BY <2>0, FaultsType DEF BreaksOff
    <2>3. run' \in [Worker -> Run] /\ WithinLimit'
      BY <2>1, StepType
    <2> QED
      BY <2>0, <2>2, <2>3 DEF BreaksOff, TypeOK, facts
  <1>12. CASE Execute(w)
    <2> DEFINE unknown == [run[w].view EXCEPT !.outcome = "operation_unknown",
                                              !.next = "reconcile_required"]
               error == Escalating(run[w].view, "error")
               r == [run[w] EXCEPT !.pc = "close"]
    <2>1. /\ unknown \in View /\ unknown.steps = run[w].view.steps
          /\ error \in View /\ error.steps = run[w].view.steps
          /\ r \in Run /\ r.view = run[w].view
      BY <1>v DEF View, NextAction, Outcome, Escalating, Run, Phase
    <2>2. run[w].view.steps < MaxSteps
      BY <1>12 DEF Execute, At
    <2>3. Ready(w, unknown, "end") \/ Ready(w, error, "end") \/ Step(w, r)
      BY <1>12 DEF Execute
    <2>4. op' \in OperationStatus \cup {"none"}
          /\ ledger' \in [Proc -> [Tool -> {"none", "ok"} \cup OperationStatus]]
      BY <1>12 DEF Execute, Hit, Miss, TypeOK, OperationStatus
    <2> HIDE DEF unknown, error, r
    <2>5. run' \in [Worker -> Run] /\ WithinLimit'
      BY <2>1, <2>2, <2>3, StepType, ReadyType
    <2> QED
      BY <1>12, <2>4, <2>5 DEF Execute, TypeOK, history
  <1>13. CASE Close(w)
    <2> DEFINE over(outcome) == [run[w].view EXCEPT !.outcome = outcome, !.next = "finished"]
               error == Escalating(run[w].view, "error")
    <2>1. /\ \A outcome \in Outcome :
               over(outcome) \in View /\ over(outcome).steps = run[w].view.steps
          /\ error \in View /\ error.steps = run[w].view.steps
      BY <1>v DEF View, NextAction, Outcome, Escalating
    <2>2. run[w].view.steps < MaxSteps
      BY <1>13 DEF Close, At, WithinLimit
    <2>3. (\E outcome \in Outcome : Ready(w, over(outcome), "end")) \/ Ready(w, error, "end")
      BY <1>13 DEF Close, Outcome
    <2>4. ticket' \in {"none", "open", "closed"}
          /\ ledger' \in [Proc -> [Tool -> {"none", "ok"} \cup OperationStatus]]
      BY <1>13 DEF Close, Hit, Miss, TypeOK
    <2> HIDE DEF over, error
    <2>5. run' \in [Worker -> Run] /\ WithinLimit'
      BY <2>1, <2>2, <2>3, ReadyType
    <2> QED
      BY <1>13, <2>4, <2>5 DEF Close, TypeOK, history
  <1>14. CASE Save(w)
    <2> DEFINE r == [run[w] EXCEPT !.pc = After(run[w].at)]
    <2>1. r \in Run /\ r.pc \in {"recover", "node"}
      BY <1>v DEF Run, After, Phase
    <2>2. Step(w, r)
      BY <1>14 DEF Save
    <2> HIDE DEF r
    <2>3. ckpt' \in Checkpoint
      BY <1>14, <1>v DEF Save, Checkpoint, Interrupt
    <2>4. run' \in [Worker -> Run] /\ WithinLimit'
      BY <2>1, <2>2, StepType
    <2> QED
      BY <1>14, <2>3, <2>4 DEF Save, TypeOK, facts, history
  <1>15. CASE LoopStop(w)
    <2>1. Step(w, Ended(FALSE)) /\ Ended(FALSE) \in Run /\ Ended(FALSE).pc = "release"
      BY <1>15, IdleType DEF LoopStop, Ended, Idle
    <2>2. ckpt.view \in View
      BY DEF TypeOK, Checkpoint
    <2>3. ckpt' \in Checkpoint
      BY <1>15, <2>2, ViewUpdates DEF LoopStop, Checkpoint, Interrupt
    <2>4. run' \in [Worker -> Run] /\ WithinLimit'
      BY <2>1, StepType
    <2> QED
      BY <1>15, <1>q, <2>3, <2>4 DEF LoopStop, TypeOK
  <1> QED
    BY <1>1, <1>2, <1>3, <1>4, <1>5, <1>6, <1>7, <1>8, <1>9, <1>10, <1>11, <1>12, <1>13,
       <1>14, <1>15 DEF NodeStep

LEMMA EndingType ==
  ASSUME Structure, NEW w \in Worker, Ending(w)
  PROVE  Structure'
  <1> USE DEF Structure
  <1>v. run[w] \in Run /\ run[w].view \in View /\ run[w].waiting \in BOOLEAN
    BY DEF TypeOK, Run
  <1>e. \A waiting \in BOOLEAN : Ended(waiting) \in Run /\ Ended(waiting).pc = "release"
    BY IdleType DEF Ended, Idle
  <1>1. CASE Recover(w)
    <2> DEFINE closing == [run[w] EXCEPT !.pc = "closing"]
               settle == [run[w] EXCEPT !.pc = "settle", !.view = Settled(run[w].view, op)]
    <2>1. /\ closing \in Run /\ closing.pc = "closing"
          /\ settle \in Run /\ settle.pc = "settle"
      BY <1>v, ViewUpdates DEF Run, Phase
    <2>2. Step(w, Ended(run[w].waiting)) \/ Step(w, closing) \/ Step(w, settle)
      BY <1>1 DEF Recover
    <2> HIDE DEF closing, settle
    <2>3. run' \in [Worker -> Run] /\ WithinLimit'
      BY <1>v, <1>e, <2>1, <2>2, StepType
    <2> QED
      BY <1>1, <2>3 DEF Recover, TypeOK, facts, history
  <1>2. CASE RecoverClose(w)
    <2> DEFINE settle == [run[w] EXCEPT !.pc = "settle", !.view = Settled(run[w].view, op)]
               error == [run[w] EXCEPT !.pc = "settle", !.view = Unfinished(run[w].view)]
    <2>1. /\ settle \in Run /\ settle.pc = "settle"
          /\ error \in Run /\ error.pc = "settle"
      BY <1>v, ViewUpdates DEF Run, Phase
    <2>2. Step(w, settle) \/ Step(w, error)
      BY <1>2 DEF RecoverClose
    <2> HIDE DEF settle, error
    <2>3. run' \in [Worker -> Run] /\ WithinLimit'
      BY <2>1, <2>2, StepType
    <2> QED
      BY <1>2, <2>3 DEF RecoverClose, TypeOK, history
  <1>3. CASE Settle(w)
    <2>1. ckpt' \in Checkpoint
      BY <1>3, <1>v DEF Settle, Checkpoint, Interrupt, Place
    <2>2. run' \in [Worker -> Run] /\ WithinLimit'
      BY <1>3, <1>v, <1>e, StepType DEF Settle
    <2> QED
      BY <1>3, <2>1, <2>2 DEF Settle, TypeOK, facts, history
  <1>4. CASE Release(w)
    <2>1. run' \in [Worker -> Run] /\ WithinLimit'
      BY <1>4, IdleType, StepType DEF Release, Idle
    <2>2. lease' \in Lease /\ lapsed' \in BOOLEAN
      BY <1>4 DEF Release, ReleaseLease, TypeOK, Lease
    <2> QED
      BY <1>4, <2>1, <2>2 DEF Release, TypeOK, facts
  <1>5. CASE RecoverRaises(w)
    <2> DEFINE error == [run[w] EXCEPT !.pc = "settle", !.view = Unfinished(run[w].view)]
    <2>1. error \in Run /\ error.pc = "settle"
      BY <1>v, ViewUpdates DEF Run, Phase
    <2>2. Step(w, Ended(run[w].waiting)) \/ Step(w, error)
      BY <1>5 DEF RecoverRaises
    <2> HIDE DEF error
    <2>3. run' \in [Worker -> Run] /\ WithinLimit'
      BY <1>v, <1>e, <2>1, <2>2, StepType
    <2>4. faults' \in 0 .. MaxFaults
      BY <1>5, FaultsType DEF RecoverRaises
    <2>5. ticket' \in {"none", "open", "closed"}
      BY <1>5 DEF RecoverRaises, TypeOK
    <2> QED
      BY <1>5, <2>3, <2>4, <2>5 DEF RecoverRaises, TypeOK
  <1> QED
    BY <1>1, <1>2, <1>3, <1>4, <1>5 DEF Ending

LEMMA OtherType ==
  ASSUME Structure, (\E p \in Proc : Crash(p)) \/ Expire \/ DomainStep
  PROVE  Structure'
  <1> USE DEF Structure
  <1>1. ASSUME NEW p \in Proc, Crash(p) PROVE Structure'
    <2>1. /\ run' \in [Worker -> Run]
          /\ \A w \in Worker : run'[w] = run[w] \/ run'[w] = Idle
      BY <1>1, IdleType DEF Crash, TypeOK
    <2>2. WithinLimit'
      BY <2>1 DEF WithinLimit, Idle
    <2>3. ledger' \in [Proc -> [Tool -> {"none", "ok"} \cup OperationStatus]]
      BY <1>1 DEF Crash, TypeOK, EmptyLedger
    <2>4. faults' \in 0 .. MaxFaults
      BY <1>1, LimitAssumption DEF Crash, BrokenOff, TypeOK
    <2> QED
      BY <1>1, <2>1, <2>2, <2>3, <2>4 DEF Crash, TypeOK, facts
  <1>2. CASE Expire
    BY <1>2 DEF Expire, TypeOK, Lease, facts, WithinLimit
  <1>3. CASE DomainStep
    BY <1>3 DEF DomainStep, TypeOK, OperationTransitions, OperationStatus, history, WithinLimit
  <1> QED
    BY <1>1, <1>2, <1>3

LEMMA StructureInit == Init => Structure
  <1> SUFFICES ASSUME Init PROVE Structure
    OBVIOUS
  <1>1. run \in [Worker -> Run] /\ ckpt \in Checkpoint /\ lease \in Lease
    BY IdleType, NewViewType DEF Init, Absent, Checkpoint, Place, Interrupt, Lease
  <1>2. WithinLimit
    BY DEF Init, Idle, WithinLimit
  <1>3. ledger \in [Proc -> [Tool -> {"none", "ok"} \cup OperationStatus]]
    BY DEF Init, EmptyLedger
  <1>4. 0 \in 0 .. MaxFaults /\ 0 \in 0 .. MaxCalls
    BY LimitAssumption
  <1> QED
    BY <1>1, <1>2, <1>3, <1>4 DEF Init, Structure, TypeOK

LEMMA StructureStep ==
  ASSUME Structure, [Next]_vars
  PROVE  Structure'
  <1>1. CASE UNCHANGED vars
    BY <1>1 DEF vars, Structure, TypeOK, WithinLimit
  <1> QED
    BY <1>1, EntryType, NodeType, EndingType, OtherType DEF Next

LEMMA StructureInvariant == Spec => []Structure
  <1>1. QED
    BY StructureInit, StructureStep, PTL DEF Spec

-----------------------------------------------------------------------------
(* What the domain has decided is final, and what a view, a remembered result *)
(* or a place in the graph says of it stays true                              *)

HasSubmitted == ticket # "none" /\ op \notin {"none", "draft"}

DecisionPlace == {"request_approval", "apply_decision", "execute_operation", "settle_rejected"}

PlaceTrue(at) ==
  /\ at \in DecisionPlace => HasSubmitted
  /\ at = "settle_rejected" => op = "rejected"

ViewTrue(v) == TellsTheTruth(v) /\ (v.op => op # "none")

RecordTrue(r) ==
  /\ ViewTrue(r.view) /\ PlaceTrue(r.at)
  /\ r.pc = "refund" => ticket # "none"
  /\ r.pc = "submit" => ticket # "none" /\ op # "none"
  /\ r.pc = "close" => op = "executed"
  /\ r.pc = "closing" => op \in {"executed", "rejected"}

RunsTrue == \A w \in Worker : RecordTrue(run[w])

CheckpointTrue == ViewTrue(ckpt.view) /\ PlaceTrue(ckpt.at)

LedgerTrue ==
  \A p \in Proc :
    /\ ledger[p]["create_refund"] # "none" => op # "none"
    /\ ledger[p]["submit"] # "none" => op \notin {"none", "draft"}
    /\ ledger[p]["execute"] \in {"none", "executed", "unknown"}
    /\ ledger[p]["execute"] = "executed" => op = "executed"
    /\ ledger[p]["close_ticket"] # "none" => ticket = "closed"

TruthInv == RunsTrue /\ CheckpointTrue /\ LedgerTrue

\* A ticket is opened and closed once, and the settled statuses are final.
Onward ==
  /\ ticket # "none" => ticket' # "none"
  /\ ticket = "closed" => ticket' = "closed"
  /\ op # "none" => op' # "none"
  /\ op \notin {"none", "draft"} => op' \notin {"none", "draft"}
  /\ \A st \in SettledStatus : op = st => op' = st

LEMMA NextOnward ==
  ASSUME Structure, Next
  PROVE  Onward
  <1> USE DEF Onward, SettledStatus
  <1>1. ASSUME NEW w \in Worker, Entry(w) \/ Ending(w)
        PROVE  Onward
    BY <1>1 DEF Entry, Ending, Start, InvokeNew, Ask, Resume, RefuseClaim, Recover,
                RecoverClose, RecoverRaises, Closable, Settle, Release, facts
  <1>2. ASSUME NEW w \in Worker, NodeStep(w)
        PROVE  Onward
    <2>1. CASE CreateTicket(w) \/ CreateRefund(w) \/ Submit(w)
      BY <2>1 DEF CreateTicket, CreateRefund, Submit, Submitted
    <2>2. CASE Execute(w) \/ Close(w)
      BY <2>2 DEF Execute, Close, Closable
    <2>3. CASE UNCHANGED facts
      BY <2>3 DEF facts
    <2> QED
      BY <1>2, <2>1, <2>2, <2>3 DEF NodeStep, Parse, Clarify, GatherEvidence, Plan, Escalate,
         RequestApproval, ApplyDecision, NodeRaises, Save, LoopStop, LoopStopUnwritten, Quietly
  <1>3. CASE (\E p \in Proc : Crash(p)) \/ Expire
    BY <1>3 DEF Crash, Expire, facts
  <1>4. CASE DomainStep
    BY <1>4 DEF DomainStep, OperationTransitions, Closable
  <1> QED
    BY <1>1, <1>2, <1>3, <1>4 DEF Next

LEMMA TruthOnward ==
  ASSUME Onward
  PROVE  /\ \A v : ViewTrue(v) => ViewTrue(v)'
         /\ \A at : PlaceTrue(at) => PlaceTrue(at)'
         /\ \A r : RecordTrue(r) => RecordTrue(r)'
         /\ ledger' = ledger /\ LedgerTrue => LedgerTrue'
         /\ ckpt' = ckpt /\ CheckpointTrue => CheckpointTrue'
  <1>1. \A v : ViewTrue(v) => ViewTrue(v)'
    BY DEF Onward, ViewTrue, TellsTheTruth, SettledStatus
  <1>2. \A at : PlaceTrue(at) => PlaceTrue(at)'
    BY DEF Onward, PlaceTrue, HasSubmitted, SettledStatus
  <1>3. \A r : RecordTrue(r) => RecordTrue(r)'
    BY <1>1, <1>2 DEF Onward, RecordTrue, SettledStatus
  <1>4. ledger' = ledger /\ LedgerTrue => LedgerTrue'
    BY DEF Onward, LedgerTrue, SettledStatus
  <1>5. ckpt' = ckpt /\ CheckpointTrue => CheckpointTrue'
    BY <1>1, <1>2 DEF CheckpointTrue
  <1> QED
    BY <1>1, <1>2, <1>3, <1>4, <1>5

\* It is enough to look at the record of the worker that acts.
LEMMA ActorTrue ==
  ASSUME Structure, TruthInv, Onward, NEW w \in Worker, NEW r, Step(w, r), RecordTrue(r)'
  PROVE  RunsTrue'
  <1>1. \A u \in Worker : run'[u] = IF u = w THEN r ELSE run[u]
    BY DEF Step, Structure, TypeOK
  <1> SUFFICES ASSUME NEW u \in Worker PROVE RecordTrue(run[u])'
    BY DEF RunsTrue
  <1>2. PICK s : s = run'[u]
    OBVIOUS
  <1>3. RecordTrue(s)'
    BY <1>1, <1>2, TruthOnward DEF TruthInv, RunsTrue
  <1> QED
    BY <1>2, <1>3 DEF RecordTrue

LEMMA CountedTrue ==
  ASSUME NEW v \in View
  PROVE  /\ ViewTrue(v) => ViewTrue(Counted(v))
         /\ Counted(v).outcome = v.outcome /\ Counted(v).op = v.op
  BY DEF View, Counted, ViewTrue, TellsTheTruth

LEMMA AdvanceTrue ==
  ASSUME Structure, TruthInv, Onward, NEW w \in Worker, NEW v \in View, NEW to \in Place,
         Advance(w, v, to), ViewTrue(v), PlaceTrue(to), UNCHANGED ledger
  PROVE  TruthInv'
  <1>1. PICK c : c = Counted(v)
    OBVIOUS
  <1>2. ViewTrue(c)' /\ PlaceTrue(to)'
    BY <1>1, CountedTrue, TruthOnward
  <1>3. CheckpointTrue'
    BY <1>1, <1>2 DEF CheckpointTrue, Advance
  <1>4. PICK r : r = [run[w] EXCEPT !.pc = After(to), !.at = to, !.view = c, !.resumed = FALSE]
    OBVIOUS
  <1>5. r.view = c /\ r.at = to /\ r.pc \in {"recover", "node"}
    BY <1>4 DEF Structure, TypeOK, Run, After
  <1>6. RecordTrue(r)'
    BY <1>2, <1>5 DEF RecordTrue
  <1>7. Step(w, r)
    BY <1>1, <1>4 DEF Advance
  <1>8. RunsTrue'
    BY <1>6, <1>7, ActorTrue
  <1>9. LedgerTrue'
    BY TruthOnward DEF TruthInv
  <1> QED
    BY <1>3, <1>8, <1>9 DEF TruthInv

LEMMA ReadyTrue ==
  ASSUME Structure, TruthInv, Onward, NEW w \in Worker, NEW v \in View, NEW to \in Place,
         Ready(w, v, to), ViewTrue(v)', PlaceTrue(to)'
  PROVE  RunsTrue'
  <1>1. PICK c : c = Counted(v)
    OBVIOUS
  <1>2. ViewTrue(c)'
    BY <1>1, CountedTrue DEF ViewTrue, TellsTheTruth
  <1>4. PICK r : r = [run[w] EXCEPT !.pc = "save", !.at = to, !.view = c, !.resumed = FALSE]
    OBVIOUS
  <1>5. r.view = c /\ r.at = to /\ r.pc = "save"
    BY <1>4 DEF Structure, TypeOK, Run
  <1>6. RecordTrue(r)'
    BY <1>2, <1>5 DEF RecordTrue
  <1>7. Step(w, r)
    BY <1>1, <1>4 DEF Ready
  <1> QED
    BY <1>6, <1>7, ActorTrue

LEMMA SuspendTrue ==
  ASSUME Structure, TruthInv, Onward, NEW w \in Worker, NEW intr, Suspend(w, intr),
         UNCHANGED ledger
  PROVE  TruthInv'
  <1>1. PICK r : r = [Idle EXCEPT !.pc = "recover", !.view = run[w].view, !.waiting = TRUE]
    OBVIOUS
  <1>2. r.pc = "recover" /\ r.at = "end" /\ r.view = run[w].view
    BY <1>1 DEF Idle
  <1>3. RecordTrue(r)
    BY <1>2 DEF TruthInv, RunsTrue, RecordTrue, PlaceTrue, DecisionPlace
  <1>4. Step(w, r)
    BY <1>1 DEF Suspend
  <1>5. RunsTrue'
    BY <1>3, <1>4, ActorTrue, TruthOnward
  <1>6. CheckpointTrue
    BY DEF TruthInv
  <1>7. ckpt'.view = ckpt.view /\ ckpt'.at = ckpt.at
    BY DEF Suspend, Structure, TypeOK, Checkpoint
  <1>8. PICK v, at : v = ckpt.view /\ at = ckpt.at
    OBVIOUS
  <1>9. ViewTrue(v)' /\ PlaceTrue(at)'
    BY <1>6, <1>8, TruthOnward DEF CheckpointTrue
  <1>10. CheckpointTrue'
    BY <1>7, <1>8, <1>9 DEF CheckpointTrue
  <1> QED
    BY <1>5, <1>10, TruthOnward DEF TruthInv

LEMMA EntryTrue ==
  ASSUME Structure, TruthInv, Onward, NEW w \in Worker, Entry(w)
  PROVE  TruthInv'
  <1>c. ViewTrue(ckpt.view) /\ PlaceTrue(ckpt.at) /\ ViewTrue(NewView) /\ PlaceTrue("end")
        /\ PlaceTrue("parse")
    BY DEF TruthInv, CheckpointTrue, ViewTrue, TellsTheTruth, NewView, PlaceTrue, DecisionPlace
  <1>l. UNCHANGED ledger => LedgerTrue'
    BY TruthOnward DEF TruthInv
  <1>k. UNCHANGED ckpt => CheckpointTrue'
    BY TruthOnward DEF TruthInv
  <1>r. ASSUME NEW r, Step(w, r), ViewTrue(r.view), PlaceTrue(r.at),
               r.pc \notin {"refund", "submit", "close", "closing"}
        PROVE  RunsTrue'
    <2>1. RecordTrue(r)
      BY <1>r DEF RecordTrue
    <2> QED
      BY <1>r, <2>1, ActorTrue, TruthOnward
  <1>1. CASE Start(w)
    <2>1. PICK r : r = IF Exists
             THEN [Idle EXCEPT !.pc = "recover", !.view = ckpt.view,
                               !.waiting = ckpt.intr # "none" /\ ckpt.view.error # "loop"]
             ELSE [Idle EXCEPT !.pc = "invoke"]
      OBVIOUS
    <2>2. r.at = "end" /\ r.view \in {ckpt.view, NewView} /\ r.pc \in {"recover", "invoke"}
      BY <2>1 DEF Idle
    <2>3. Step(w, r)
      BY <1>1, <2>1 DEF Start
    <2> QED
      BY <1>1, <1>c, <1>l, <1>k, <1>r, <2>2, <2>3 DEF Start, TruthInv
  <1>2. CASE InvokeNew(w)
    <2>1. PICK r : r = [run[w] EXCEPT !.pc = "node", !.at = "parse", !.view = ckpt.view]
      OBVIOUS
    <2>2. r.at = "parse" /\ r.view = ckpt.view /\ r.pc = "node"
      BY <2>1 DEF Structure, TypeOK, Run
    <2>3. Step(w, r)
      BY <1>2, <2>1 DEF InvokeNew
    <2>4. ckpt'.view = ckpt.view /\ ckpt'.at = "parse"
      BY <1>2 DEF InvokeNew
    <2>5. PICK v, at : v = ckpt.view /\ at = "parse"
      OBVIOUS
    <2>6. ViewTrue(v)' /\ PlaceTrue(at)'
      BY <1>c, <2>5, TruthOnward
    <2>7. CheckpointTrue'
      BY <2>4, <2>5, <2>6 DEF CheckpointTrue
    <2> QED
      BY <1>2, <1>c, <1>l, <1>r, <2>2, <2>3, <2>7 DEF InvokeNew, TruthInv
  <1>3. CASE Ask(w)
    <2>1. PICK r : r = [Idle EXCEPT !.pc = "checked"]
      OBVIOUS
    <2>2. r.at = "end" /\ r.view = NewView /\ r.pc = "checked"
      BY <2>1 DEF Idle
    <2>3. Step(w, r)
      BY <1>3, <2>1 DEF Ask
    <2> QED
      BY <1>3, <1>c, <1>l, <1>k, <1>r, <2>2, <2>3 DEF Ask, TruthInv
  <1>4. CASE Resume(w)
    <2> DEFINE over == [Idle EXCEPT !.pc = "recover", !.view = ckpt.view]
               pending == [Idle EXCEPT !.pc = "node", !.at = ckpt.at, !.view = ckpt.view,
                                       !.resumed = TRUE]
    <2>1. PICK o, p : o = over /\ p = pending
      OBVIOUS
    <2>2. /\ o.at = "end" /\ o.view = ckpt.view /\ o.pc = "recover"
          /\ p.at = ckpt.at /\ p.view = ckpt.view /\ p.pc = "node"
      BY <2>1 DEF Idle
    <2>3. Step(w, over) \/ Step(w, pending)
      BY <1>4 DEF Resume, Step
    <2>4. Step(w, o) \/ Step(w, p)
      BY <2>1, <2>3
    <2> HIDE DEF over, pending
    <2> QED
      BY <1>4, <1>c, <1>l, <1>k, <1>r, <2>2, <2>4 DEF Resume, TruthInv
  <1>5. CASE RefuseClaim(w)
    <2>1. PICK r : r = Idle
      OBVIOUS
    <2>2. r.at = "end" /\ r.view = NewView /\ r.pc = "idle"
      BY <2>1 DEF Idle
    <2> QED
      BY <1>5, <1>c, <1>l, <1>k, <1>r, <2>1, <2>2 DEF RefuseClaim, TruthInv
  <1> QED
    BY <1>1, <1>2, <1>3, <1>4, <1>5 DEF Entry

\* The updates that claim nothing of the domain.
LEMMA UpdatesTrue ==
  ASSUME NEW v \in View, ViewTrue(v)
  PROVE  /\ \A next : ViewTrue([v EXCEPT !.next = next])
         /\ \A outcome, next : outcome \notin {"refunded", "rejected", "failed"} =>
              /\ ViewTrue([v EXCEPT !.outcome = outcome, !.next = next])
              /\ ViewTrue([v EXCEPT !.next = next, !.outcome = outcome])
              /\ ViewTrue(Escalating(v, outcome))
         /\ ViewTrue(LoopMarker(v))
         /\ ViewTrue(Unfinished(v))
  BY DEF View, ViewTrue, TellsTheTruth, Escalating, LoopMarker, Unfinished

\* The nodes without domain writes.
LEMMA QuietNodeTrue ==
  ASSUME Structure, TruthInv, Onward, NEW w \in Worker,
         \/ Parse(w) \/ Clarify(w) \/ GatherEvidence(w) \/ Plan(w) \/ Escalate(w)
         \/ RequestApproval(w) \/ ApplyDecision(w)
  PROVE  TruthInv'
  <1>v. run[w].view \in View /\ ViewTrue(run[w].view) /\ PlaceTrue(run[w].at)
    BY DEF Structure, TypeOK, Run, TruthInv, RunsTrue, RecordTrue
  <1>q. Quietly
    BY DEF Parse, Clarify, GatherEvidence, Plan, Escalate, RequestApproval, ApplyDecision
  <1>l. UNCHANGED ledger
    BY <1>q DEF Quietly
  <1>a. ASSUME NEW v \in View, NEW to \in Place, Advance(w, v, to), ViewTrue(v), PlaceTrue(to)
        PROVE  TruthInv'
    BY <1>l, <1>a, AdvanceTrue
  <1>s. ASSUME NEW intr, Suspend(w, intr)
        PROVE  TruthInv'
    BY <1>l, <1>s, SuspendTrue
  <1>p. \A at \in Place \ DecisionPlace : PlaceTrue(at)
    BY DEF PlaceTrue, DecisionPlace
  <1> USE DEF Place, Node
  <1>1. CASE Parse(w)
    BY <1>1, <1>v, <1>p, <1>a DEF Parse, DecisionPlace
  <1>2. CASE Clarify(w)
    BY <1>2, <1>v, <1>p, <1>a, <1>s DEF Clarify, DecisionPlace
  <1>3. CASE GatherEvidence(w)
    <2> DEFINE v == Escalating(run[w].view, "escalated")
    <2>1. v \in View /\ ViewTrue(v)
      BY <1>v, EscalatingType, UpdatesTrue DEF Outcome
    <2>2. Advance(w, run[w].view, "plan") \/ Advance(w, v, "escalate")
      BY <1>3 DEF GatherEvidence
    <2> HIDE DEF v
    <2> QED
      BY <1>v, <1>p, <1>a, <2>1, <2>2 DEF DecisionPlace
  <1>4. CASE Plan(w)
    <2> DEFINE v == Escalating(run[w].view, "escalated")
               u == [run[w].view EXCEPT !.next = "draft_ready"]
    <2>1. v \in View /\ ViewTrue(v)
      BY <1>v, EscalatingType, UpdatesTrue DEF Outcome
    <2>2. u \in View /\ ViewTrue(u)
      BY <1>v, ViewUpdates, UpdatesTrue DEF NextAction
    <2>3. Advance(w, u, "create_ticket_draft") \/ Advance(w, v, "escalate")
      BY <1>4 DEF Plan
    <2> HIDE DEF v, u
    <2> QED
      BY <1>p, <1>a, <2>1, <2>2, <2>3 DEF DecisionPlace
  <1>5. CASE Escalate(w)
    <2> DEFINE v == [run[w].view EXCEPT !.outcome = "escalated", !.next = "escalated"]
    <2>1. v \in View /\ ViewTrue(v)
      BY <1>v, ViewUpdates, UpdatesTrue DEF NextAction, Outcome
    <2>2. Advance(w, v, "end")
      BY <1>5 DEF Escalate
    <2> HIDE DEF v
    <2> QED
      BY <1>p, <1>a, <2>1, <2>2 DEF DecisionPlace
  <1>6. CASE RequestApproval(w)
    <2> DEFINE v == [run[w].view EXCEPT !.next = "wait_approval"]
    <2>1. v \in View /\ ViewTrue(v)
      BY <1>v, ViewUpdates, UpdatesTrue DEF NextAction
    <2>2. Advance(w, v, "apply_decision") \/ Suspend(w, "approval")
      BY <1>6 DEF RequestApproval
    <2>3. PlaceTrue("apply_decision")
      BY <1>6, <1>v DEF RequestApproval, At, PlaceTrue, DecisionPlace
    <2> HIDE DEF v
    <2> QED
      BY <1>a, <1>s, <2>1, <2>2, <2>3
  <1>7. CASE ApplyDecision(w)
    <2> DEFINE next(n) == [run[w].view EXCEPT !.next = n]
               done(outcome, n) == [run[w].view EXCEPT !.outcome = outcome, !.next = n]
    <2>1. /\ \A n \in NextAction : next(n) \in View /\ ViewTrue(next(n))
          /\ \A outcome \in Outcome, n \in NextAction : done(outcome, n) \in View
          /\ \A outcome \in {"already_processed", "operation_unknown"}, n \in NextAction :
               ViewTrue(done(outcome, n))
      BY <1>v, ViewUpdates, UpdatesTrue
    <2>2. op = "failed" => ViewTrue(done("failed", "finished"))
      BY <1>v DEF ViewTrue, TellsTheTruth, View
    <2>3. HasSubmitted
      BY <1>7, <1>v DEF ApplyDecision, At, PlaceTrue, DecisionPlace
    <2>4. \/ \E n \in NextAction, to \in Place :
               /\ Advance(w, next(n), to)
               /\ to = "settle_rejected" => op = "rejected"
          \/ \E outcome \in {"already_processed", "operation_unknown"}, n \in NextAction :
               Advance(w, done(outcome, n), "end")
          \/ op = "failed" /\ Advance(w, done("failed", "finished"), "end")
      BY <1>7 DEF ApplyDecision, NextAction, DecidedStatus
    <2> HIDE DEF next, done
    <2>5. CASE \E n \in NextAction, to \in Place :
                 /\ Advance(w, next(n), to)
                 /\ to = "settle_rejected" => op = "rejected"
      BY <1>a, <2>1, <2>3, <2>5 DEF PlaceTrue
    <2>6. CASE \E outcome \in {"already_processed", "operation_unknown"}, n \in NextAction :
                 Advance(w, done(outcome, n), "end")
      BY <1>a, <1>p, <2>1, <2>6 DEF Outcome, DecisionPlace
    <2>7. CASE op = "failed" /\ Advance(w, done("failed", "finished"), "end")
      BY <1>a, <1>p, <2>1, <2>2, <2>7 DEF Outcome, NextAction, DecisionPlace
    <2> QED
      BY <2>4, <2>5, <2>6, <2>7
  <1> QED
    BY <1>1, <1>2, <1>3, <1>4, <1>5, <1>6, <1>7

\* The nodes with domain writes: their calls, and the checkpoint after them.
LEMMA CallTrue ==
  ASSUME Structure, TruthInv, Onward, NEW w \in Worker,
         \/ CreateTicket(w) \/ CreateRefund(w) \/ Submit(w) \/ NodeRaises(w)
         \/ Execute(w) \/ Close(w) \/ Save(w) \/ LoopStop(w) \/ LoopStopUnwritten(w)
  PROVE  TruthInv'
  <1>v. /\ run[w] \in Run /\ run[w].view \in View /\ home[w] \in Proc
        /\ RecordTrue(run[w]) /\ ViewTrue(run[w].view) /\ PlaceTrue(run[w].at)
    BY DEF Structure, TypeOK, Run, TruthInv, RunsTrue, RecordTrue
  <1>l. UNCHANGED ledger => LedgerTrue'
    BY TruthOnward DEF TruthInv
  <1>k. UNCHANGED ckpt => CheckpointTrue'
    BY TruthOnward DEF TruthInv
  <1>e. \A v : ViewTrue(v) => ViewTrue(v)'
    BY TruthOnward
  <1>p. PlaceTrue("end")'
    BY DEF PlaceTrue, DecisionPlace
  \* a call that its process remembers from now on
  <1>m. ASSUME NEW tool \in Tool, NEW result, Miss(w, tool, result),
               tool = "create_refund" => op' # "none",
               tool = "submit" => op' \notin {"none", "draft"},
               tool = "execute" => result = op' /\ result \in {"executed", "unknown"},
               tool = "close_ticket" => ticket' = "closed"
        PROVE  LedgerTrue'
    <2>1. \A p \in Proc, t \in Tool :
            ledger'[p][t] = ledger[p][t] \/ (t = tool /\ ledger'[p][t] = result)
      BY <1>v, <1>m DEF Miss, Structure, TypeOK
    <2>2. \A p \in Proc :
            /\ ledger[p]["create_refund"] # "none" => op' # "none"
            /\ ledger[p]["submit"] # "none" => op' \notin {"none", "draft"}
            /\ ledger[p]["execute"] \in {"none", "executed", "unknown"}
            /\ ledger[p]["execute"] = "executed" => op' = "executed"
            /\ ledger[p]["close_ticket"] # "none" => ticket' = "closed"
      BY DEF TruthInv, LedgerTrue, Onward, SettledStatus
    <2> QED
      BY <1>m, <2>1, <2>2 DEF LedgerTrue, Tool
  <1>r. ASSUME NEW v \in View, Ready(w, v, "end"), ViewTrue(v)'
        PROVE  RunsTrue'
    BY <1>p, <1>r, ReadyTrue DEF Place
  <1>f. Step(w, Ended(FALSE)) => RunsTrue'
    <2>1. PICK r : r = Ended(FALSE)
      OBVIOUS
    <2>2. r.pc = "release" /\ r.at = "end" /\ r.view = NewView
      BY <2>1 DEF Ended, Idle
    <2>3. RecordTrue(r)'
      BY <2>2 DEF RecordTrue, PlaceTrue, DecisionPlace, ViewTrue, TellsTheTruth, NewView
    <2> QED
      BY <2>1, <2>3, ActorTrue
  <1>1. CASE CreateTicket(w)
    <2>1. PICK r : r = [run[w] EXCEPT !.pc = "refund", !.view.ticket = TRUE]
      OBVIOUS
    <2>2. /\ r.pc = "refund" /\ r.at = "create_ticket_draft"
          /\ r.view.outcome = run[w].view.outcome /\ r.view.op = run[w].view.op
      BY <1>1, <1>v, <2>1 DEF Run, View, CreateTicket, At
    <2>3. ticket' # "none"
      BY <1>1 DEF CreateTicket
    <2>4. ViewTrue(r.view) /\ PlaceTrue(r.at)
      BY <1>v, <2>2 DEF PlaceTrue, DecisionPlace, ViewTrue, TellsTheTruth
    <2>5. RecordTrue(r)'
      BY <2>2, <2>3, <2>4, TruthOnward DEF RecordTrue
    <2> QED
      BY <1>1, <1>l, <1>k, <2>1, <2>5, ActorTrue DEF CreateTicket, TruthInv
  <1>2. CASE CreateRefund(w)
    <2>1. PICK r : r = [run[w] EXCEPT !.pc = "submit", !.view.op = TRUE]
      OBVIOUS
    <2>2. /\ r.pc = "submit" /\ r.at = run[w].at
          /\ r.view.outcome = run[w].view.outcome
      BY <1>v, <2>1 DEF Run, View
    <2>3. ticket' # "none" /\ op' # "none"
      BY <1>2, <1>v DEF CreateRefund, Hit, RecordTrue, ViewTrue, TruthInv, LedgerTrue
    <2>4. RecordTrue(r)'
      <3>1. PICK at, v : at = run[w].at /\ v = run[w].view
        OBVIOUS
      <3>2. PlaceTrue(at)' /\ ViewTrue(v)'
        BY <1>v, <1>e, <3>1, TruthOnward
      <3> QED
        BY <2>2, <2>3, <3>1, <3>2 DEF RecordTrue, ViewTrue, TellsTheTruth
    <2>5. LedgerTrue'
      BY <1>2, <1>l, <1>m, <2>3 DEF CreateRefund, Hit, Tool
    <2> QED
      BY <1>2, <1>k, <2>1, <2>4, <2>5, ActorTrue DEF CreateRefund, TruthInv
  <1>3. CASE Submit(w)
    <2>1. PICK v : v = run[w].view
      OBVIOUS
    <2>2. v \in View /\ ViewTrue(v)'
      BY <1>v, <1>e, <2>1
    <2>3. ticket' # "none" /\ op' \notin {"none", "draft"}
      BY <1>3, <1>v DEF Submit, Submitted, Hit, RecordTrue, TruthInv, LedgerTrue
    <2>4. PlaceTrue("request_approval")'
      BY <2>3 DEF PlaceTrue, HasSubmitted
    <2>5. ASSUME NEW status, AfterSubmit(w, status)
          PROVE  RunsTrue'
      <3> DEFINE wait == [v EXCEPT !.next = "wait_approval"]
                 over(outcome) == [v EXCEPT !.next = "finished", !.outcome = outcome]
      <3>1. wait \in View /\ \A outcome \in Outcome : over(outcome) \in View
        BY <2>2 DEF View, NextAction
      <3>2. ViewTrue(wait)' /\ \A outcome \in {"operation_unknown", "already_processed"} :
                                 ViewTrue(over(outcome))'
        BY <2>2 DEF View, ViewTrue, TellsTheTruth
      <3>3. \/ Ready(w, wait, "request_approval")
            \/ \E outcome \in {"operation_unknown", "already_processed"} :
                 Ready(w, over(outcome), "end")
        BY <2>1, <2>5 DEF AfterSubmit
      <3> HIDE DEF wait, over
      <3> QED
        BY <1>r, <2>4, <3>1, <3>2, <3>3, ReadyTrue DEF Place, Node, Outcome
    <2>6. RunsTrue'
      BY <1>3, <2>5 DEF Submit
    <2>7. LedgerTrue'
      BY <1>3, <1>l, <1>m, <2>3 DEF Submit, Hit, Tool
    <2> QED
      BY <1>3, <1>k, <2>6, <2>7 DEF Submit, TruthInv
  <1>4. CASE NodeRaises(w) \/ LoopStopUnwritten(w)
    BY <1>4, <1>f, <1>l, <1>k, RaisesBreakOff DEF BreaksOff, TruthInv
  <1>5. CASE Execute(w)
    <2>0. PICK v : v = run[w].view
      OBVIOUS
    <2>1. v \in View /\ ViewTrue(v)' /\ RecordTrue(run[w]) /\ HasSubmitted
      BY <1>5, <1>v, <1>e, <2>0 DEF Execute, At, PlaceTrue, DecisionPlace
    <2> DEFINE unknown == [v EXCEPT !.outcome = "operation_unknown", !.next = "reconcile_required"]
               error == Escalating(v, "error")
    <2>2. unknown \in View /\ error \in View
      BY <2>1, ViewUpdates DEF Outcome, NextAction
    <2>3. ViewTrue(unknown)' /\ ViewTrue(error)'
      BY <2>1 DEF ViewTrue, TellsTheTruth, View, Escalating
    <2>4. PICK r : r = [run[w] EXCEPT !.pc = "close"]
      OBVIOUS
    <2>5. r.pc = "close" /\ r.at = "execute_operation" /\ r.view = v
      BY <1>5, <1>v, <2>0, <2>4 DEF Run, Execute, At
    <2>6. op' = "executed" => RecordTrue(r)'
      BY <2>1, <2>5, <1>5 DEF RecordTrue, PlaceTrue, DecisionPlace, HasSubmitted, Onward, Execute
    <2>7. \/ Ready(w, unknown, "end") \/ Ready(w, error, "end")
          \/ Step(w, r) /\ op' = "executed"
      <3>1. CASE Hit(w, "execute") /\ UNCHANGED op
        <4>1. \/ Cached(w, "execute") = "unknown"
              \/ Cached(w, "execute") = "executed" /\ op' = "executed"
          BY <1>v, <3>1 DEF Hit, Cached, TruthInv, LedgerTrue
        <4> QED
          BY <1>5, <2>0, <2>4, <3>1, <4>1 DEF Execute
      <3>2. CASE op = "approved" /\ ~ UNCHANGED op
        BY <1>5, <2>0, <2>4, <3>2 DEF Execute
      <3> QED
        BY <1>5, <2>0, <3>1, <3>2 DEF Execute
    <2> HIDE DEF unknown, error
    <2>8. RunsTrue'
      BY <1>r, <2>2, <2>3, <2>6, <2>7, ActorTrue
    <2>9. LedgerTrue'
      BY <1>5, <1>l, <1>m DEF Execute, Hit, Tool
    <2> QED
      BY <1>5, <1>k, <2>8, <2>9 DEF Execute, TruthInv
  <1>6. CASE Close(w)
    <2>0. PICK v : v = run[w].view
      OBVIOUS
    <2>1. v \in View /\ ViewTrue(v)'
      BY <1>v, <1>e, <2>0
    <2>2. /\ run[w].pc = "close" => op = "executed"
          /\ run[w].pc # "close" => op = "rejected"
      BY <1>6, <1>v DEF Close, At, RecordTrue, PlaceTrue
    <2> DEFINE over(outcome) == [v EXCEPT !.outcome = outcome, !.next = "finished"]
               error == Escalating(v, "error")
    <2>3. error \in View /\ \A outcome \in Outcome : over(outcome) \in View
      BY <2>1, ViewUpdates DEF Outcome, NextAction
    <2>4. /\ ViewTrue(error)'
          /\ op' = "executed" /\ ticket' = "closed" => ViewTrue(over("refunded"))'
          /\ op' = "rejected" /\ ticket' = "closed" => ViewTrue(over("rejected"))'
      BY <2>1 DEF ViewTrue, TellsTheTruth, View, Escalating
    <2>5. \/ Hit(w, "close_ticket") /\ UNCHANGED ticket
          \/ ticket' = "closed" /\ Miss(w, "close_ticket", "ok")
          \/ UNCHANGED <<ticket, ledger>> /\ Ready(w, error, "end")
      BY <1>6, <2>0 DEF Close
    <2>6. Hit(w, "close_ticket") => ticket = "closed"
      BY <1>v DEF Hit, TruthInv, LedgerTrue
    <2>7. \/ Ready(w, error, "end")
          \/ ticket' = "closed" /\ op = "executed" /\ Ready(w, over("refunded"), "end")
          \/ ticket' = "closed" /\ op = "rejected" /\ Ready(w, over("rejected"), "end")
      BY <1>6, <2>0, <2>2, <2>6 DEF Close
    <2>8. UNCHANGED <<ckpt, op>>
      BY <1>6 DEF Close
    <2> HIDE DEF over, error
    <2>9. RunsTrue'
      BY <1>r, <2>3, <2>4, <2>7, <2>8 DEF Outcome
    <2>10. LedgerTrue'
      BY <1>l, <1>m, <2>5 DEF Hit, Tool
    <2> QED
      BY <1>k, <2>8, <2>9, <2>10 DEF TruthInv
  <1>7. CASE Save(w)
    <2>1. PICK r : r = [run[w] EXCEPT !.pc = After(run[w].at)]
      OBVIOUS
    <2>2. r.pc \in {"node", "recover"} /\ r.at = run[w].at /\ r.view = run[w].view
      BY <1>v, <2>1 DEF Run, After
    <2>3. RecordTrue(r)
      BY <1>v, <2>2 DEF RecordTrue
    <2>4. RecordTrue(r)'
      BY <2>3, TruthOnward
    <2>5. ckpt'.view = r.view /\ ckpt'.at = r.at
      BY <1>7, <2>2 DEF Save
    <2>6. CheckpointTrue'
      BY <2>4, <2>5 DEF CheckpointTrue, RecordTrue
    <2> QED
      BY <1>7, <1>l, <2>1, <2>4, <2>6, ActorTrue DEF Save, TruthInv
  <1>8. CASE LoopStop(w)
    <2>1. PICK v : v = LoopMarker(ckpt.view)
      OBVIOUS
    <2>2. ckpt.view \in View /\ ViewTrue(ckpt.view)
      BY DEF Structure, TypeOK, Checkpoint, TruthInv, CheckpointTrue
    <2>3. ViewTrue(v)'
      BY <1>e, <2>1, <2>2, UpdatesTrue
    <2>4. ckpt'.view = v /\ ckpt'.at = "end"
      BY <1>8, <2>1 DEF LoopStop
    <2>5. CheckpointTrue'
      BY <2>3, <2>4 DEF CheckpointTrue, PlaceTrue, DecisionPlace
    <2> QED
      BY <1>8, <1>f, <1>l, <2>5 DEF LoopStop, Quietly, TruthInv
  <1> QED
    BY <1>1, <1>2, <1>3, <1>4, <1>5, <1>6, <1>7, <1>8

LEMMA EndingTrue ==
  ASSUME Structure, TruthInv, Onward, NEW w \in Worker, Ending(w)
  PROVE  TruthInv'
  <1>v. /\ run[w] \in Run /\ run[w].view \in View
        /\ RecordTrue(run[w]) /\ ViewTrue(run[w].view) /\ PlaceTrue(run[w].at)
    BY DEF Structure, TypeOK, Run, TruthInv, RunsTrue, RecordTrue
  <1>l. UNCHANGED ledger => LedgerTrue'
    BY TruthOnward DEF TruthInv
  <1>k. UNCHANGED ckpt => CheckpointTrue'
    BY TruthOnward DEF TruthInv
  <1>0. PICK v, at : v = run[w].view /\ at = run[w].at
    OBVIOUS
  <1>1. v \in View /\ ViewTrue(v)' /\ PlaceTrue(at)'
    BY <1>v, <1>0, TruthOnward
  <1>f. ASSUME NEW waiting, Step(w, Ended(waiting))
        PROVE  RunsTrue'
    <2>1. PICK r : r = Ended(waiting)
      OBVIOUS
    <2>2. r.pc = "release" /\ r.at = "end" /\ r.view = NewView
      BY <2>1 DEF Ended, Idle
    <2>3. RecordTrue(r)'
      BY <2>2 DEF RecordTrue, PlaceTrue, DecisionPlace, ViewTrue, TellsTheTruth, NewView
    <2> QED
      BY <1>f, <2>1, <2>3, ActorTrue
  \* the recovered view, once the ticket of a decided operation is closed
  <1>s. ASSUME NEW st, st = op, UNCHANGED op,
               op = "failed" \/ (op \in {"executed", "rejected"} /\ ticket' = "closed"),
               Step(w, [run[w] EXCEPT !.pc = "settle", !.view = Settled(v, st)])
        PROVE  RunsTrue'
    <2>1. PICK r : r = [run[w] EXCEPT !.pc = "settle", !.view = Settled(v, st)]
      OBVIOUS
    <2>2. r.pc = "settle" /\ r.at = at /\ r.view = Settled(v, st)
      BY <1>v, <1>0, <2>1 DEF Run
    <2>3. PICK u : u = Settled(v, st)
      OBVIOUS
    <2>4. /\ u.op = v.op
          /\ u.outcome = (IF st = "executed" THEN "refunded"
                          ELSE IF st = "rejected" THEN "rejected" ELSE "failed")
      BY <1>1, <2>3 DEF View, Settled
    <2>5. ViewTrue(u)'
      BY <1>1, <1>s, <2>4 DEF ViewTrue, TellsTheTruth
    <2>6. RecordTrue(r)'
      BY <1>1, <2>2, <2>3, <2>5 DEF RecordTrue
    <2> QED
      BY <1>s, <2>1, <2>6, ActorTrue
  <1>2. CASE Recover(w)
    <2>1. PICK r : r = [run[w] EXCEPT !.pc = "closing"]
      OBVIOUS
    <2>2. r.pc = "closing" /\ r.at = at /\ r.view = v
      BY <1>v, <1>0, <2>1 DEF Run
    <2>3. UNCHANGED <<ticket, op>>
      BY <1>2 DEF Recover, facts
    <2>4. \/ Step(w, Ended(run[w].waiting))
          \/ Step(w, r) /\ NeedsClosing
          \/ /\ Step(w, [run[w] EXCEPT !.pc = "settle", !.view = Settled(v, op)])
             /\ op \in SettledStatus /\ ~ NeedsClosing
      BY <1>0, <1>2, <2>1 DEF Recover, Recoverable
    <2>5. NeedsClosing => RecordTrue(r)'
      BY <1>1, <2>2, <2>3 DEF NeedsClosing, RecordTrue
    <2>6. op \in SettledStatus /\ ~ NeedsClosing =>
            op = "failed" \/ (op \in {"executed", "rejected"} /\ ticket' = "closed")
      BY <2>3 DEF NeedsClosing, SettledStatus
    <2>7. PICK st : st = op
      OBVIOUS
    <2>8. RunsTrue'
      <3>1. CASE Step(w, Ended(run[w].waiting))
        BY <1>f, <3>1
      <3>2. CASE Step(w, r) /\ NeedsClosing
        BY <2>5, <3>2, ActorTrue
      <3>3. CASE /\ Step(w, [run[w] EXCEPT !.pc = "settle", !.view = Settled(v, op)])
                 /\ op \in SettledStatus /\ ~ NeedsClosing
        BY <1>s, <2>3, <2>6, <2>7, <3>3
      <3> QED
        BY <2>4, <3>1, <3>2, <3>3
    <2> QED
      BY <1>2, <1>l, <1>k, <2>8 DEF Recover, TruthInv
  \* the view of a recovery that failed
  <1>u. Step(w, [run[w] EXCEPT !.pc = "settle", !.view = Unfinished(v)]) => RunsTrue'
    <2>0. PICK u : u = Unfinished(v)
      OBVIOUS
    <2>1. PICK r : r = [run[w] EXCEPT !.pc = "settle", !.view = u]
      OBVIOUS
    <2>2. r.pc = "settle" /\ r.at = at /\ r.view = u
      BY <1>v, <1>0, <2>1 DEF Run
    <2>3. ViewTrue(u)'
      BY <1>1, <2>0 DEF ViewTrue, TellsTheTruth, View, Unfinished
    <2>4. RecordTrue(r)'
      BY <1>1, <2>2, <2>3 DEF RecordTrue
    <2> QED
      BY <2>0, <2>1, <2>4, ActorTrue
  <1>3. CASE RecoverClose(w)
    <2>5. op \in {"executed", "rejected"} /\ UNCHANGED op
      BY <1>3, <1>v DEF RecoverClose, RecordTrue
    <2>6. \/ /\ ticket' = "closed"
             /\ Step(w, [run[w] EXCEPT !.pc = "settle", !.view = Settled(v, op)])
          \/ Step(w, [run[w] EXCEPT !.pc = "settle", !.view = Unfinished(v)])
      BY <1>0, <1>3 DEF RecoverClose
    <2>7. PICK st : st = op
      OBVIOUS
    <2>8. RunsTrue'
      BY <1>s, <1>u, <2>5, <2>6, <2>7
    <2> QED
      BY <1>3, <1>l, <1>k, <2>8 DEF RecoverClose, TruthInv
  <1>4. CASE Settle(w)
    <2>1. ckpt'.view = v /\ ckpt'.at = "end"
      BY <1>0, <1>4 DEF Settle
    <2>2. CheckpointTrue'
      BY <1>1, <2>1 DEF CheckpointTrue, PlaceTrue, DecisionPlace
    <2> QED
      BY <1>4, <1>f, <1>l, <2>2 DEF Settle, TruthInv
  <1>5. CASE Release(w)
    <2>1. PICK r : r = Idle
      OBVIOUS
    <2>2. r.pc = "idle" /\ r.at = "end" /\ r.view = NewView
      BY <2>1 DEF Idle
    <2>3. RecordTrue(r)'
      BY <2>2 DEF RecordTrue, PlaceTrue, DecisionPlace, ViewTrue, TellsTheTruth, NewView
    <2> QED
      BY <1>5, <1>l, <1>k, <2>1, <2>3, ActorTrue DEF Release, TruthInv
  <1>6. CASE RecoverRaises(w)
    <2>1. \/ Step(w, Ended(run[w].waiting))
          \/ Step(w, [run[w] EXCEPT !.pc = "settle", !.view = Unfinished(v)])
      BY <1>0, <1>6 DEF RecoverRaises
    <2>2. RunsTrue'
      BY <1>f, <1>u, <2>1
    <2> QED
      BY <1>6, <1>l, <1>k, <2>2 DEF RecoverRaises, TruthInv
  <1> QED
    BY <1>2, <1>3, <1>4, <1>5, <1>6 DEF Ending

LEMMA OtherTrue ==
  ASSUME Structure, TruthInv, Onward, (\E p \in Proc : Crash(p)) \/ Expire \/ DomainStep
  PROVE  TruthInv'
  <1>k. UNCHANGED ckpt => CheckpointTrue'
    BY TruthOnward DEF TruthInv
  <1>l. UNCHANGED ledger => LedgerTrue'
    BY TruthOnward DEF TruthInv
  <1>r. ASSUME \A w \in Worker : run'[w] \in {run[w], Idle}
        PROVE  RunsTrue'
    <2> SUFFICES ASSUME NEW w \in Worker PROVE RecordTrue(run[w])'
      BY DEF RunsTrue
    <2>1. PICK r : r = run'[w]
      OBVIOUS
    <2>2. RecordTrue(Idle)
      BY DEF RecordTrue, PlaceTrue, DecisionPlace, ViewTrue, TellsTheTruth, NewView, Idle
    <2>3. RecordTrue(r)
      BY <1>r, <2>1, <2>2 DEF TruthInv, RunsTrue
    <2>4. RecordTrue(r)'
      BY <2>3, TruthOnward
    <2> QED
      BY <2>1, <2>4 DEF RecordTrue
  <1>1. ASSUME NEW p \in Proc, Crash(p) PROVE TruthInv'
    <2>1. \A w \in Worker : run'[w] \in {run[w], Idle}
      BY <1>1 DEF Crash
    <2>2. \A q \in Proc : ledger'[q] \in {ledger[q], EmptyLedger}
      BY <1>1 DEF Crash, Structure, TypeOK
    <2>3. UNCHANGED <<ticket, op, ckpt>>
      BY <1>1 DEF Crash, facts
    <2>4. LedgerTrue'
      BY <2>2, <2>3 DEF LedgerTrue, TruthInv, EmptyLedger, Tool
    <2> QED
      BY <1>r, <1>k, <2>1, <2>3, <2>4 DEF TruthInv
  <1>2. CASE Expire \/ DomainStep
    BY <1>2, <1>r, <1>k, <1>l DEF Expire, DomainStep, TruthInv
  <1> QED
    BY <1>1, <1>2

LEMMA TruthInit == Init => TruthInv
  <1> SUFFICES ASSUME Init PROVE TruthInv
    OBVIOUS
  <1>1. RunsTrue
    BY DEF Init, RunsTrue, RecordTrue, PlaceTrue, DecisionPlace, ViewTrue, TellsTheTruth,
           NewView, Idle
  <1>2. CheckpointTrue
    BY DEF Init, CheckpointTrue, PlaceTrue, DecisionPlace, ViewTrue, TellsTheTruth, NewView, Absent
  <1>3. LedgerTrue
    BY DEF Init, LedgerTrue, EmptyLedger, Tool
  <1> QED
    BY <1>1, <1>2, <1>3 DEF TruthInv

LEMMA TruthStep ==
  ASSUME Structure, TruthInv, [Next]_vars
  PROVE  TruthInv'
  <1>1. CASE UNCHANGED vars
    <2>1. Onward
      BY <1>1 DEF vars, Onward, facts
    <2>2. /\ UNCHANGED ledger /\ UNCHANGED ckpt
          /\ \A w \in Worker : run'[w] = run[w]
      BY <1>1 DEF vars
    <2>3. RunsTrue'
      <3> SUFFICES ASSUME NEW w \in Worker PROVE RecordTrue(run[w])'
        BY DEF RunsTrue
      <3>1. PICK r : r = run[w]
        OBVIOUS
      <3>2. RecordTrue(r)'
        BY <2>1, <3>1, TruthOnward DEF TruthInv, RunsTrue
      <3> QED
        BY <2>2, <3>1, <3>2 DEF RecordTrue
    <2> QED
      BY <2>1, <2>2, <2>3, TruthOnward DEF TruthInv
  <1>2. CASE Next
    <2>1. Onward
      BY <1>2, NextOnward
    <2>2. ASSUME NEW w \in Worker, NodeStep(w) PROVE TruthInv'
      BY <2>1, <2>2, QuietNodeTrue, CallTrue DEF NodeStep
    <2> QED
      BY <1>2, <2>1, <2>2, EntryTrue, EndingTrue, OtherTrue DEF Next
  <1> QED
    BY <1>1, <1>2

LEMMA TruthInvariant == Spec => [](Structure /\ TruthInv)
  <1>1. Init => Structure /\ TruthInv
    BY StructureInit, TruthInit
  <1>2. Structure /\ TruthInv /\ [Next]_vars => (Structure /\ TruthInv)'
    BY StructureStep, TruthStep
  <1> QED
    BY <1>1, <1>2, PTL DEF Spec

\* No view says refunded, rejected or failed before the domain does, in a checkpoint
\* or in a run, for any number of workers, crashes, remembered results and overlaps
\* (execute_operation, settle_rejected, _recover_terminal_state).
THEOREM ViewsAreTruthful == Spec => []ViewTruthful
  <1>1. Structure /\ TruthInv => ViewTruthful
    BY DEF Structure, TruthInv, RunsTrue, RecordTrue, CheckpointTrue, ViewTrue, ViewTruthful
  <1> QED
    BY <1>1, TruthInvariant, PTL

\* A thread waits for an approval, or acts on one, only when its operation has been
\* submitted (create_ticket_draft), whatever the ledger remembered.
THEOREM WaitsOnlyIfSubmitted == Spec => []WaitingIsSubmitted
  <1>1. Structure /\ TruthInv => WaitingIsSubmitted
    BY DEF TruthInv, CheckpointTrue, PlaceTrue, DecisionPlace, HasSubmitted, WaitingIsSubmitted
  <1> QED
    BY <1>1, TruthInvariant, PTL

-----------------------------------------------------------------------------
(* The lease of the runs in flight *)

LeaseInv == ~ lapsed => \A w \in Running : lease.live /\ lease.owner = home[w]

\* Only the entries that claim the lease put a run in flight.
LEMMA OnlyClaimsStart ==
  ASSUME Structure, Next
  PROVE  /\ home' = home
         /\ \/ \E w \in Worker : \E f : Claim(w, f) /\ Running' \subseteq Running \cup {w}
            \/ Running' \subseteq Running /\ UNCHANGED <<lease, lapsed>>
            \/ Running' \subseteq Running /\ Expire
            \/ \E w \in Worker : Release(w) /\ w \in Running /\ Running' \subseteq Running \ {w}
  <1>s. ASSUME NEW w \in Worker, NEW r, Step(w, r)
        PROVE  \A u \in Worker : run'[u] = IF u = w THEN r ELSE run[u]
    BY <1>s DEF Step, Structure, TypeOK
  <1>i. ASSUME NEW w \in Worker, NEW r, Step(w, r), w \in Running
        PROVE  Running' \subseteq Running
    BY <1>i, <1>s DEF Running, InFlight
  <1>1. ASSUME NEW w \in Worker, Start(w) \/ Resume(w)
        PROVE  /\ home' = home
               /\ \E f : Claim(w, f) /\ Running' \subseteq Running \cup {w}
    <2>1. PICK r : Step(w, r)
      BY <1>1 DEF Start, Resume
    <2>2. Running' \subseteq Running \cup {w}
      BY <1>s, <2>1 DEF Running, InFlight
    <2> QED
      BY <1>1, <2>2 DEF Start, Resume
  <1>2. ASSUME NEW w \in Worker, Ask(w) \/ RefuseClaim(w)
        PROVE  home' = home /\ Running' \subseteq Running /\ UNCHANGED <<lease, lapsed>>
    <2>1. PICK r : Step(w, r) /\ r.pc \in {"idle", "checked"}
      BY <1>2 DEF Ask, RefuseClaim, Idle
    <2>2. Running' \subseteq Running
      BY <1>s, <2>1 DEF Running, InFlight
    <2> QED
      BY <1>2, <2>2 DEF Ask, RefuseClaim, history
  <1>3. ASSUME NEW w \in Worker, InvokeNew(w)
        PROVE  home' = home /\ Running' \subseteq Running /\ UNCHANGED <<lease, lapsed>>
    BY <1>3, <1>i DEF InvokeNew, Running, InFlight, history
  <1>4. ASSUME NEW w \in Worker, NodeStep(w)
        PROVE  home' = home /\ Running' \subseteq Running /\ UNCHANGED <<lease, lapsed>>
    <2>1. w \in Running
      BY <1>4 DEF NodeStep, Parse, Clarify, GatherEvidence, Plan, Escalate, RequestApproval,
         ApplyDecision, CreateTicket, CreateRefund, Submit, NodeRaises, MayRaise, Execute, Close,
         Save, LoopStop, LoopStopUnwritten, At, Running, InFlight
    <2>2. UNCHANGED <<home, lease, lapsed>>
      BY <1>4 DEF NodeStep, Parse, Clarify, GatherEvidence, Plan, Escalate, RequestApproval,
         ApplyDecision, CreateTicket, CreateRefund, Submit, NodeRaises, Execute, Close,
         Save, LoopStop, LoopStopUnwritten, Quietly, history
    <2>3. \E r : Step(w, r)
      <3>1. CASE Parse(w) \/ Clarify(w) \/ GatherEvidence(w) \/ Plan(w) \/ Escalate(w)
                 \/ RequestApproval(w)
        BY <3>1 DEF Parse, Clarify, GatherEvidence, Plan, Escalate, RequestApproval, Advance, Suspend
      <3>2. CASE ApplyDecision(w)
        BY <3>2 DEF ApplyDecision, Advance
      <3>3. CASE CreateTicket(w) \/ CreateRefund(w) \/ NodeRaises(w) \/ Save(w) \/ LoopStop(w)
                 \/ LoopStopUnwritten(w)
        BY <3>3 DEF CreateTicket, CreateRefund, NodeRaises, Save, LoopStop, LoopStopUnwritten
      <3>4. CASE Submit(w)
        BY <3>4 DEF Submit, AfterSubmit, Ready
      <3>5. CASE Execute(w)
        BY <3>5 DEF Execute, Ready
      <3>6. CASE Close(w)
        BY <3>6 DEF Close, Ready
      <3> QED
        BY <1>4, <3>1, <3>2, <3>3, <3>4, <3>5, <3>6 DEF NodeStep
    <2> QED
      BY <1>i, <2>1, <2>2, <2>3
  <1>5. ASSUME NEW w \in Worker, Recover(w) \/ RecoverClose(w) \/ RecoverRaises(w) \/ Settle(w)
        PROVE  home' = home /\ Running' \subseteq Running /\ UNCHANGED <<lease, lapsed>>
    <2>1. w \in Running /\ UNCHANGED <<home, lease, lapsed>>
      BY <1>5 DEF Recover, RecoverClose, RecoverRaises, Settle, Running, InFlight, history
    <2>2. \E r : Step(w, r)
      BY <1>5 DEF Recover, RecoverClose, RecoverRaises, Settle
    <2> QED
      BY <1>i, <2>1, <2>2
  <1>6. ASSUME NEW w \in Worker, Release(w)
        PROVE  home' = home /\ w \in Running /\ Running' \subseteq Running \ {w}
    <2>1. w \in Running /\ home' = home /\ Step(w, Idle)
      BY <1>6 DEF Release, Running, InFlight
    <2> QED
      BY <1>s, <2>1 DEF Running, InFlight, Idle
  <1>7. ASSUME NEW p \in Proc, Crash(p)
        PROVE  home' = home /\ Running' \subseteq Running /\ UNCHANGED <<lease, lapsed>>
    BY <1>7 DEF Crash, Running, InFlight, Idle
  <1>8. CASE Expire \/ DomainStep
    BY <1>8 DEF Expire, DomainStep, Running, InFlight, history
  <1> QED
    BY <1>1, <1>2, <1>3, <1>4, <1>5, <1>6, <1>7, <1>8 DEF Next, Entry, Ending

LEMMA LeaseStep ==
  ASSUME Structure, LeaseInv, [Next]_vars
  PROVE  LeaseInv'
  <1>1. CASE UNCHANGED vars
    BY <1>1 DEF vars, LeaseInv, Running, InFlight
  <1>2. CASE Next
    <2>0. home' = home
      BY <1>2, OnlyClaimsStart
    <2>1. ASSUME NEW w \in Worker, NEW f, Claim(w, f), Running' \subseteq Running \cup {w}
          PROVE  LeaseInv'
      <3> SUFFICES ASSUME ~ lapsed', NEW u \in Running' PROVE lease'.live /\ lease'.owner = home'[u]
        BY DEF LeaseInv
      <3>1. ~ lapsed /\ lease'.live /\ lease'.owner = home[w]
        BY <2>1 DEF Claim
      <3>2. CASE u \in Running
        <4>1. lease.live /\ lease.owner = home[u] /\ home[u] \in Proc
          BY <3>1, <3>2 DEF LeaseInv, Running, Structure, TypeOK
        <4>2. home[w] = home[u]
          BY <2>1, <4>1, NobodyAssumption DEF Claim, Claimable
        <4> QED
          BY <2>0, <3>1, <4>2
      <3> QED
        BY <2>0, <2>1, <3>1, <3>2
    <2>2. CASE Running' \subseteq Running /\ UNCHANGED <<lease, lapsed>>
      BY <2>0, <2>2 DEF LeaseInv
    <2>3. CASE Running' \subseteq Running /\ Expire
      BY <2>3 DEF Expire, LeaseInv
    <2>4. ASSUME NEW w \in Worker, Release(w), w \in Running, Running' \subseteq Running \ {w}
          PROVE  LeaseInv'
      BY <2>0, <2>4 DEF Release, ReleaseLease, LeaseInv
    <2> QED
      BY <1>2, OnlyClaimsStart, <2>1, <2>2, <2>3, <2>4
  <1> QED
    BY <1>1, <1>2

\* Two processes advance a thread at the same time only after one of them has lost
\* its lease while it ran (claim_thread, release_thread), for any workers of any
\* processes, crashes and expiries.
THEOREM ExclusiveUntilLeaseLost == Spec => []ExclusiveUntilLapse
  <1>1. Init => LeaseInv
    BY DEF Init, LeaseInv, Running, InFlight, Idle
  <1>2. Structure /\ LeaseInv => ExclusiveUntilLapse
    BY DEF LeaseInv, ExclusiveUntilLapse
  <1> QED
    BY <1>1, <1>2, LeaseStep, StructureInvariant, PTL DEF Spec

-----------------------------------------------------------------------------
(* Who will move a thread that is between two nodes *)

Working == {"node", "refund", "submit", "close", "save"}

Between == Exists /\ ckpt.at # "end" /\ ckpt.intr = "none"

StrandInv ==
  faults = 0 /\ Between => ckpt.by \in Worker /\ run[ckpt.by].pc \in Working

\* A run that does not touch the checkpoint and goes on working.
LEMMA WorksOn ==
  ASSUME Structure, StrandInv, NEW w \in Worker, NEW r, Step(w, r), UNCHANGED <<ckpt, faults>>,
         run[w].pc \in Working => r.pc \in Working
  PROVE  StrandInv'
  BY DEF StrandInv, Between, Exists, Step, Structure, TypeOK

\* A run that writes the checkpoint: it is at its end, or the run goes on working.
LEMMA WritesOn ==
  ASSUME Structure, NEW w \in Worker, NEW r, Step(w, r), ckpt'.by = w,
         ckpt'.at # "end" => r.pc \in Working
  PROVE  StrandInv'
  BY DEF StrandInv, Between, Exists, Step, Structure, TypeOK

LEMMA AdvanceWorks ==
  ASSUME Structure, NEW w \in Worker, NEW v, NEW to, Advance(w, v, to)
  PROVE  StrandInv'
  <1>1. PICK r : r = [run[w] EXCEPT !.pc = After(to), !.at = to, !.view = Counted(v),
                                    !.resumed = FALSE]
    OBVIOUS
  <1>2. r.pc = After(to)
    BY <1>1 DEF Structure, TypeOK, Run
  <1>3. Step(w, r) /\ ckpt'.by = w /\ ckpt'.at = to
    BY <1>1 DEF Advance
  <1> QED
    BY <1>2, <1>3, WritesOn DEF After, Working

LEMMA ReadyWorks ==
  ASSUME Structure, StrandInv, NEW w \in Worker, NEW v, NEW to, Ready(w, v, to),
         UNCHANGED <<ckpt, faults>>
  PROVE  StrandInv'
  <1>1. PICK r : r = [run[w] EXCEPT !.pc = "save", !.at = to, !.view = Counted(v),
                                    !.resumed = FALSE]
    OBVIOUS
  <1>2. r.pc = "save" /\ Step(w, r)
    BY <1>1 DEF Structure, TypeOK, Run, Ready
  <1> QED
    BY <1>2, WorksOn DEF Working

LEMMA SuspendWorks ==
  ASSUME Structure, StrandInv, NEW w \in Worker, NEW intr \in {"clarify", "approval"},
         Suspend(w, intr), UNCHANGED faults
  PROVE  StrandInv'
  <1>1. CASE ckpt.by = w
    BY <1>1 DEF Suspend, StrandInv, Between, Structure, TypeOK, Checkpoint
  <1>2. CASE ckpt.by # w
    BY <1>2 DEF Suspend, Step, StrandInv, Between, Exists, Structure, TypeOK
  <1> QED
    BY <1>1, <1>2

LEMMA EntryWorks ==
  ASSUME Structure, StrandInv, NEW w \in Worker, Entry(w)
  PROVE  StrandInv'
  <1>1. CASE InvokeNew(w)
    <2>1. PICK r : r = [run[w] EXCEPT !.pc = "node", !.at = "parse", !.view = ckpt.view]
      OBVIOUS
    <2>2. r.pc = "node" /\ Step(w, r) /\ ckpt'.by = w
      BY <1>1, <2>1 DEF Structure, TypeOK, Run, InvokeNew
    <2> QED
      BY <2>2, WritesOn DEF Working
  <1>2. CASE Start(w) \/ Ask(w) \/ Resume(w) \/ RefuseClaim(w)
    <2>1. run[w].pc \notin Working /\ UNCHANGED <<ckpt, faults>> /\ \E r : Step(w, r)
      BY <1>2 DEF Start, Ask, Resume, RefuseClaim, Claim, Working, history
    <2> QED
      BY <2>1, WorksOn
  <1> QED
    BY <1>1, <1>2 DEF Entry

LEMMA NodeWorks ==
  ASSUME Structure, StrandInv, NEW w \in Worker, NodeStep(w)
  PROVE  StrandInv'
  <1>1. CASE Parse(w) \/ Clarify(w) \/ GatherEvidence(w) \/ Plan(w) \/ Escalate(w)
             \/ RequestApproval(w)
    <2>1. UNCHANGED faults
      BY <1>1 DEF Parse, Clarify, GatherEvidence, Plan, Escalate, RequestApproval, Quietly, history
    <2>2. \/ \E v, to : Advance(w, v, to)
          \/ \E intr \in {"clarify", "approval"} : Suspend(w, intr)
      BY <1>1 DEF Parse, Clarify, GatherEvidence, Plan, Escalate, RequestApproval
    <2> QED
      BY <2>1, <2>2, AdvanceWorks, SuspendWorks
  <1>2. CASE ApplyDecision(w)
    <2>1. \E v, to : Advance(w, v, to)
      BY <1>2 DEF ApplyDecision
    <2> QED
      BY <2>1, AdvanceWorks
  <1>3. CASE CreateTicket(w)
    <2>1. PICK r : r = [run[w] EXCEPT !.pc = "refund", !.view.ticket = TRUE]
      OBVIOUS
    <2>2. r.pc = "refund" /\ Step(w, r) /\ UNCHANGED <<ckpt, faults>>
      BY <1>3, <2>1 DEF Structure, TypeOK, Run, CreateTicket, history
    <2> QED
      BY <2>2, WorksOn DEF Working
  <1>4. CASE CreateRefund(w)
    <2>1. PICK r : r = [run[w] EXCEPT !.pc = "submit", !.view.op = TRUE]
      OBVIOUS
    <2>2. r.pc = "submit" /\ Step(w, r) /\ UNCHANGED <<ckpt, faults>>
      BY <1>4, <2>1 DEF Structure, TypeOK, Run, CreateRefund, history
    <2> QED
      BY <2>2, WorksOn DEF Working
  <1>5. CASE Submit(w)
    <2>1. UNCHANGED <<ckpt, faults>> /\ \E v, to : Ready(w, v, to)
      BY <1>5 DEF Submit, AfterSubmit, history
    <2> QED
      BY <2>1, ReadyWorks
  <1>6. CASE NodeRaises(w) \/ LoopStopUnwritten(w)
    <2>1. faults' = BrokenOff
      BY <1>6, RaisesBreakOff DEF BreaksOff
    <2>2. BrokenOff # 0
      BY FaultsType DEF Structure
    <2> QED
      BY <2>1, <2>2 DEF StrandInv
  <1>7. CASE Execute(w)
    <2>1. PICK r : r = [run[w] EXCEPT !.pc = "close"]
      OBVIOUS
    <2>2. r.pc = "close" /\ UNCHANGED <<ckpt, faults>>
      BY <1>7, <2>1 DEF Structure, TypeOK, Run, Execute, history
    <2>3. Step(w, r) \/ \E v, to : Ready(w, v, to)
      BY <1>7, <2>1 DEF Execute
    <2> QED
      BY <2>2, <2>3, WorksOn, ReadyWorks DEF Working
  <1>8. CASE Close(w)
    <2>1. UNCHANGED <<ckpt, faults>> /\ \E v, to : Ready(w, v, to)
      BY <1>8 DEF Close, history
    <2> QED
      BY <2>1, ReadyWorks
  <1>9. CASE Save(w)
    <2>1. PICK r : r = [run[w] EXCEPT !.pc = After(run[w].at)]
      OBVIOUS
    <2>2. /\ r.pc = After(run[w].at) /\ Step(w, r)
          /\ ckpt'.by = w /\ ckpt'.at = run[w].at
      BY <1>9, <2>1 DEF Structure, TypeOK, Run, Save
    <2> QED
      BY <2>2, WritesOn DEF After, Working
  <1>10. CASE LoopStop(w)
    BY <1>10 DEF LoopStop, StrandInv, Between
  <1> QED
    BY <1>1, <1>2, <1>3, <1>4, <1>5, <1>6, <1>7, <1>8, <1>9, <1>10 DEF NodeStep

LEMMA RestWorks ==
  ASSUME Structure, StrandInv,
         (\E w \in Worker : Ending(w)) \/ (\E p \in Proc : Crash(p)) \/ Expire \/ DomainStep
  PROVE  StrandInv'
  <1>1. ASSUME NEW w \in Worker, Recover(w) \/ RecoverClose(w) \/ Release(w)
        PROVE  StrandInv'
    <2>1. run[w].pc \notin Working /\ UNCHANGED <<ckpt, faults>> /\ \E r : Step(w, r)
      BY <1>1 DEF Recover, RecoverClose, Release, Working, history
    <2> QED
      BY <2>1, WorksOn
  <1>2. ASSUME NEW w \in Worker, Settle(w)
        PROVE  StrandInv'
    BY <1>2 DEF Settle, StrandInv, Between
  <1>3. ASSUME NEW p \in Proc, Crash(p)
        PROVE  StrandInv'
    <2> DEFINE dead == {w \in Worker : home[w] = p /\ run[w].pc # "idle"}
    <2>1. CASE dead = {}
      <3>1. UNCHANGED <<ckpt, faults>> /\ \A w \in Worker : run'[w] = run[w]
        BY <1>3, <2>1 DEF Crash
      <3> QED
        BY <3>1 DEF StrandInv, Between, Exists
    <2>2. CASE dead # {}
      <3>1. faults' # 0
        BY <1>3, <2>2, LimitAssumption DEF Crash, BrokenOff, Structure, TypeOK
      <3> QED
        BY <3>1 DEF StrandInv
    <2> QED
      BY <2>1, <2>2
  <1>4. CASE Expire \/ DomainStep
    BY <1>4 DEF Expire, DomainStep, history, StrandInv, Between, Exists
  <1>5. ASSUME NEW w \in Worker, RecoverRaises(w)
        PROVE  StrandInv'
    BY <1>5, FaultsType DEF RecoverRaises, StrandInv, Structure
  <1> QED
    BY <1>1, <1>2, <1>3, <1>4, <1>5 DEF Ending

LEMMA StrandStep ==
  ASSUME Structure, StrandInv, [Next]_vars
  PROVE  StrandInv'
  <1>1. CASE UNCHANGED vars
    BY <1>1 DEF vars, StrandInv, Between, Exists
  <1> QED
    BY <1>1, EntryWorks, NodeWorks, RestWorks DEF Next

\* A thread is left between two nodes, with no run and nobody it waits for, only by a
\* fault: a process that died, an exception that a node lets through, or a loop marker
\* that could not be written.
THEOREM StrandedByFaultOnly == Spec => []StrandedOnlyByFault
  <1>1. Init => StrandInv
    BY DEF Init, StrandInv, Between, Exists, Absent
  <1>2. Structure /\ StrandInv => StrandedOnlyByFault
    <2> SUFFICES ASSUME Structure, StrandInv, Stranded PROVE faults > 0
      BY DEF StrandedOnlyByFault
    <2>1. CASE faults = 0
      BY <2>1 DEF StrandInv, Between, Stranded, Running, InFlight, Working
    <2>2. CASE faults # 0
      BY <2>2, LimitAssumption DEF Structure, TypeOK
    <2> QED
      BY <2>1, <2>2
  <1> QED
    BY <1>1, <1>2, StrandStep, StructureInvariant, PTL DEF Spec

-----------------------------------------------------------------------------
(* While runs do not overlap, the one in flight agrees with the checkpoint *)

Over(v) == v.outcome \in {"refunded", "rejected"}

\* What a view may say at a place in the graph.
Orderly(at, v) ==
  /\ at # "end" => ~ Final(v)
  /\ at \notin {"escalate", "end"} => v.error = "none"
  /\ Over(v) => v.error = "none"

\* A view that a recovery may write over the checkpoint's: the same result, or none
\* because the database failed it.
Keeps(v) == v.outcome = ckpt.view.outcome /\ v.error = ckpt.view.error

Overwrites(v) == ckpt.view.error # "loop" /\ faults > 0 /\ v = Unfinished(ckpt.view)

InStep(r) ==
  /\ r.pc = "invoke" => ~ Exists
  /\ r.pc \in {"node", "recover"} => r.view = ckpt.view
  /\ r.pc \in {"node", "refund", "submit", "close"} => r.at = ckpt.at
  /\ r.pc \in Working => ckpt.at # "end"
  /\ r.pc \in {"refund", "submit", "close"} => r.view.error = "none" /\ ~ Final(r.view)
  /\ r.pc = "save" => Orderly(r.at, r.view)
  /\ r.pc = "closing" => ~ Final(ckpt.view)
  /\ r.pc = "settle" => /\ Orderly("end", r.view)
                        /\ Final(ckpt.view) => Keeps(r.view) \/ Overwrites(r.view)

CheckpointOrderly ==
  /\ ~ Exists => ckpt = Absent
  /\ Orderly(ckpt.at, ckpt.view)

AloneInv ==
  ~ overlap => /\ CheckpointOrderly
               /\ \A v, w \in Running : v = w
               /\ \A w \in Running : InStep(run[w])

\* A step that leaves the checkpoint leaves what agrees with it.
LEMMA InStepStays ==
  ASSUME UNCHANGED ckpt, faults > 0 => faults' > 0
  PROVE  \A r : InStep(r) => InStep(r)'
  <1>1. \A v : Keeps(v) => Keeps(v)'
    BY DEF Keeps
  <1>2. \A v : Overwrites(v) => Overwrites(v)'
    BY DEF Overwrites, Unfinished
  <1> QED
    BY <1>1, <1>2 DEF InStep, Exists

\* It is enough to look at the one run in flight.
LEMMA AloneKept ==
  ASSUME Structure, AloneInv, ~ overlap, NEW w \in Running, NEW r, Step(w, r),
         CheckpointOrderly', InStep(r)'
  PROVE  AloneInv'
  <1>1. w \in Worker /\ \A u \in Running : u = w
    BY DEF AloneInv, Running
  <1>2. \A u \in Worker : run'[u] = IF u = w THEN r ELSE run[u]
    BY <1>1 DEF Step, Structure, TypeOK
  <1>3. \A u \in Running' : u = w
    BY <1>1, <1>2 DEF Running, InFlight
  <1>4. \A u \in Running' : InStep(run[u])'
    BY <1>1, <1>2, <1>3 DEF InStep, Keeps, Overwrites, Unfinished
  <1> QED
    BY <1>3, <1>4 DEF AloneInv

LEMMA AdvanceAlone ==
  ASSUME Structure, AloneInv, ~ overlap, NEW w \in Running, NEW v \in View, NEW to \in Place,
         Advance(w, v, to), Orderly(to, v)
  PROVE  AloneInv'
  <1>1. PICK c : c = Counted(v)
    OBVIOUS
  <1>2. c.outcome = v.outcome /\ c.error = v.error
    BY <1>1 DEF View, Counted
  <1>3. Orderly(to, c)
    BY <1>2 DEF Orderly, Final, Over
  <1>4. PICK r : r = [run[w] EXCEPT !.pc = After(to), !.at = to, !.view = c, !.resumed = FALSE]
    OBVIOUS
  <1>5. /\ r.pc = After(to) /\ r.at = to /\ r.view = c
        /\ w \in Worker /\ w # Nobody
    BY <1>4, NobodyAssumption DEF Structure, TypeOK, Run, Running
  <1>6. Step(w, r) /\ ckpt' = [at |-> to, intr |-> "none", view |-> c, by |-> w]
    BY <1>1, <1>4 DEF Advance
  <1>7. CheckpointOrderly'
    BY <1>3, <1>5, <1>6 DEF CheckpointOrderly, Exists
  <1>8. InStep(r)'
    BY <1>5, <1>6 DEF InStep, After, Working
  <1> QED
    BY <1>6, <1>7, <1>8, AloneKept

LEMMA ReadyAlone ==
  ASSUME Structure, AloneInv, ~ overlap, NEW w \in Running, NEW v \in View, NEW to \in Place,
         Ready(w, v, to), Orderly(to, v), UNCHANGED ckpt, ckpt.at # "end"
  PROVE  AloneInv'
  <1>1. PICK c : c = Counted(v)
    OBVIOUS
  <1>2. c.outcome = v.outcome /\ c.error = v.error
    BY <1>1 DEF View, Counted
  <1>3. Orderly(to, c)
    BY <1>2 DEF Orderly, Final, Over
  <1>4. PICK r : r = [run[w] EXCEPT !.pc = "save", !.at = to, !.view = c, !.resumed = FALSE]
    OBVIOUS
  <1>5. r.pc = "save" /\ r.at = to /\ r.view = c
    BY <1>4 DEF Structure, TypeOK, Run, Running
  <1>6. Step(w, r)
    BY <1>1, <1>4 DEF Ready
  <1>7. CheckpointOrderly'
    BY DEF AloneInv, CheckpointOrderly, Exists
  <1>8. InStep(r)'
    BY <1>3, <1>5 DEF InStep, Working
  <1> QED
    BY <1>6, <1>7, <1>8, AloneKept

LEMMA SuspendAlone ==
  ASSUME Structure, AloneInv, ~ overlap, NEW w \in Running, NEW intr, Suspend(w, intr),
         run[w].pc = "node"
  PROVE  AloneInv'
  <1>1. w \in Worker /\ InStep(run[w]) /\ CheckpointOrderly
    BY DEF AloneInv, Running
  <1>2. PICK r : r = [Idle EXCEPT !.pc = "recover", !.view = run[w].view, !.waiting = TRUE]
    OBVIOUS
  <1>3. r.pc = "recover" /\ r.view = ckpt.view /\ Step(w, r)
    BY <1>1, <1>2 DEF Idle, InStep, Suspend
  <1>4. ckpt'.view = ckpt.view /\ ckpt'.at = ckpt.at /\ ckpt'.by = ckpt.by
    BY DEF Suspend, Structure, TypeOK, Checkpoint
  <1>5. Exists
    BY <1>1 DEF CheckpointOrderly, InStep, Working, Absent
  <1>6. CheckpointOrderly'
    BY <1>1, <1>4, <1>5 DEF CheckpointOrderly, Exists
  <1>7. InStep(r)'
    BY <1>3, <1>4 DEF InStep, Working
  <1> QED
    BY <1>3, <1>6, <1>7, AloneKept

\* The run is released or broken off, and the checkpoint is as it was.
LEMMA EndedAlone ==
  ASSUME Structure, AloneInv, ~ overlap, NEW w \in Running, NEW waiting,
         Step(w, Ended(waiting)), CheckpointOrderly'
  PROVE  AloneInv'
  <1>1. PICK r : r = Ended(waiting)
    OBVIOUS
  <1>2. r.pc = "release"
    BY <1>1 DEF Ended, Idle
  <1>3. InStep(r)'
    BY <1>2 DEF InStep, Working
  <1> QED
    BY <1>1, <1>3, AloneKept

\* A claim that leaves no overlap finds no run in flight.
LEMMA ClaimAlone ==
  ASSUME Structure, AloneInv, NEW w \in Worker, NEW f, Claim(w, f), ~ overlap',
         NEW r, Step(w, r), UNCHANGED ckpt, InStep(r)
  PROVE  AloneInv'
  <1>1. ~ overlap /\ Running = {}
    BY DEF Claim
  <1>2. \A u \in Worker : run'[u] = IF u = w THEN r ELSE run[u]
    BY DEF Step, Structure, TypeOK
  <1>3. \A u \in Running' : u = w
    BY <1>1, <1>2 DEF Running, InFlight
  <1>4. InStep(r)'
    BY InStepStays DEF Claim
  <1>6. \A u \in Running' : InStep(run[u])'
    BY <1>2, <1>3, <1>4 DEF InStep, Running, Keeps, Overwrites, Unfinished
  <1>5. CheckpointOrderly'
    BY <1>1 DEF AloneInv, CheckpointOrderly, Exists
  <1> QED
    BY <1>3, <1>6, <1>5 DEF AloneInv

LEMMA EntryAlone ==
  ASSUME Structure, AloneInv, NEW w \in Worker, Entry(w), ~ overlap', ~ overlap
  PROVE  AloneInv'
  <1>k. UNCHANGED ckpt => CheckpointOrderly'
    BY DEF AloneInv, CheckpointOrderly, Exists
  <1>1. CASE Start(w)
    <2>1. PICK r : r = IF Exists
             THEN [Idle EXCEPT !.pc = "recover", !.view = ckpt.view,
                               !.waiting = ckpt.intr # "none" /\ ckpt.view.error # "loop"]
             ELSE [Idle EXCEPT !.pc = "invoke"]
      OBVIOUS
    <2>2. \/ Exists /\ r.pc = "recover" /\ r.view = ckpt.view
          \/ ~ Exists /\ r.pc = "invoke"
      BY <2>1 DEF Idle
    <2>3. Step(w, r)
      BY <1>1, <2>1 DEF Start
    <2>4. InStep(r)
      BY <2>2 DEF InStep, Working
    <2> QED
      BY <1>1, <2>3, <2>4, ClaimAlone DEF Start
  <1>2. CASE InvokeNew(w)
    <2>1. w \in Running /\ InStep(run[w]) /\ CheckpointOrderly
      BY <1>2 DEF InvokeNew, Running, InFlight, AloneInv
    <2>2. ckpt.view = NewView
      BY <1>2, <2>1 DEF InvokeNew, InStep, CheckpointOrderly, Absent
    <2>3. PICK r : r = [run[w] EXCEPT !.pc = "node", !.at = "parse", !.view = ckpt.view]
      OBVIOUS
    <2>4. r.at = "parse" /\ r.view = NewView /\ r.pc = "node"
      BY <2>2, <2>3 DEF Structure, TypeOK, Run
    <2>5. /\ Step(w, r) /\ w # Nobody
          /\ ckpt' = [at |-> "parse", intr |-> "none", view |-> NewView, by |-> w]
      BY <1>2, <2>2, <2>3, NobodyAssumption DEF InvokeNew
    <2>6. CheckpointOrderly'
      BY <2>5 DEF CheckpointOrderly, Exists, Orderly, Final, Over, NewView
    <2>7. InStep(r)'
      BY <2>4, <2>5 DEF InStep, Working
    <2> QED
      BY <2>1, <2>5, <2>6, <2>7, AloneKept
  <1>3. CASE Ask(w) \/ RefuseClaim(w)
    <2>1. PICK r : Step(w, r) /\ r.pc \in {"idle", "checked"}
      BY <1>3 DEF Ask, RefuseClaim, Idle
    <2>2. \A u \in Worker : run'[u] = IF u = w THEN r ELSE run[u]
      BY <2>1 DEF Step, Structure, TypeOK
    <2>3. UNCHANGED <<ckpt, faults>>
      BY <1>3 DEF Ask, RefuseClaim, history
    <2>4. \A u \in Running' : u \in Running /\ run'[u] = run[u]
      BY <2>1, <2>2 DEF Running, InFlight
    <2>5. \A u \in Running' : InStep(run[u])'
      <3> SUFFICES ASSUME NEW u \in Running' PROVE InStep(run[u])'
        OBVIOUS
      <3>1. PICK q : q = run[u]
        OBVIOUS
      <3>2. InStep(q)'
        BY <2>3, <2>4, <3>1, InStepStays DEF AloneInv
      <3> QED
        BY <2>4, <3>1, <3>2 DEF InStep, Keeps, Overwrites, Unfinished
    <2> QED
      BY <1>k, <2>3, <2>4, <2>5 DEF AloneInv
  <1>4. CASE Resume(w)
    <2> DEFINE over == [Idle EXCEPT !.pc = "recover", !.view = ckpt.view]
               pending == [Idle EXCEPT !.pc = "node", !.at = ckpt.at, !.view = ckpt.view,
                                       !.resumed = TRUE]
    <2>1. PICK o, p : o = over /\ p = pending
      OBVIOUS
    <2>2. InStep(o) /\ (ckpt.at # "end" => InStep(p))
      BY <2>1 DEF Idle, InStep, Working
    <2>3. Step(w, over) \/ (ckpt.at # "end" /\ Step(w, pending))
      BY <1>4 DEF Resume, Step
    <2>4. Step(w, o) \/ (ckpt.at # "end" /\ Step(w, p))
      BY <2>1, <2>3
    <2> HIDE DEF over, pending
    <2> QED
      BY <1>4, <2>2, <2>4, ClaimAlone DEF Resume
  <1> QED
    BY <1>1, <1>2, <1>3, <1>4 DEF Entry

LEMMA OrderlyUpdates ==
  ASSUME NEW v \in View, ~ Final(v)
  PROVE  /\ v.error = "none" => \A to, next : Orderly(to, [v EXCEPT !.next = next])
         /\ \A outcome, next : v.error = "none" \/ outcome \notin {"refunded", "rejected"} =>
              /\ Orderly("end", [v EXCEPT !.outcome = outcome, !.next = next])
              /\ Orderly("end", [v EXCEPT !.next = next, !.outcome = outcome])
         /\ \A outcome : outcome \notin {"refunded", "rejected"} =>
              Orderly("end", Escalating(v, outcome)) /\ Orderly("escalate", Escalating(v, outcome))
  <1>1. \A next : /\ [v EXCEPT !.next = next].error = v.error
                  /\ [v EXCEPT !.next = next].outcome = v.outcome
    BY DEF View
  <1>2. \A outcome, next :
          /\ [v EXCEPT !.outcome = outcome, !.next = next].error = v.error
          /\ [v EXCEPT !.outcome = outcome, !.next = next].outcome = outcome
          /\ [v EXCEPT !.next = next, !.outcome = outcome].error = v.error
          /\ [v EXCEPT !.next = next, !.outcome = outcome].outcome = outcome
    BY DEF View
  <1>3. \A outcome : /\ Escalating(v, outcome).error = "other"
                     /\ Escalating(v, outcome).outcome = outcome
    BY DEF View, Escalating
  <1>4. v.error = "none" => \A to, next : Orderly(to, [v EXCEPT !.next = next])
    BY <1>1 DEF Orderly, Final, Over
  <1>5. \A outcome, next : v.error = "none" \/ outcome \notin {"refunded", "rejected"} =>
              /\ Orderly("end", [v EXCEPT !.outcome = outcome, !.next = next])
              /\ Orderly("end", [v EXCEPT !.next = next, !.outcome = outcome])
    BY <1>2 DEF Orderly, Over
  <1>6. \A outcome : outcome \notin {"refunded", "rejected"} =>
              Orderly("end", Escalating(v, outcome)) /\ Orderly("escalate", Escalating(v, outcome))
    BY <1>3 DEF Orderly, Final, Over
  <1> QED
    BY <1>4, <1>5, <1>6

LEMMA QuietNodeAlone ==
  ASSUME Structure, AloneInv, NEW w \in Worker, ~ overlap,
         \/ Parse(w) \/ Clarify(w) \/ GatherEvidence(w) \/ Plan(w) \/ Escalate(w)
         \/ RequestApproval(w) \/ ApplyDecision(w)
  PROVE  AloneInv'
  <1>0. /\ w \in Running /\ run[w].pc = "node" /\ run[w].view \in View
        /\ run[w].view = ckpt.view /\ run[w].at = ckpt.at /\ ckpt.at # "end"
        /\ Orderly(run[w].at, run[w].view)
    <2>1. w \in Running /\ run[w].pc = "node"
      BY DEF Parse, Clarify, GatherEvidence, Plan, Escalate, RequestApproval, ApplyDecision,
         At, Running, InFlight
    <2>2. InStep(run[w]) /\ CheckpointOrderly
      BY <2>1 DEF AloneInv
    <2> QED
      BY <2>1, <2>2 DEF InStep, Working, CheckpointOrderly, Structure, TypeOK, Run
  <1>a. ASSUME NEW v \in View, NEW to \in Place, Advance(w, v, to), Orderly(to, v)
        PROVE  AloneInv'
    BY <1>0, <1>a, AdvanceAlone
  <1>s. ASSUME NEW intr, Suspend(w, intr)
        PROVE  AloneInv'
    BY <1>0, <1>s, SuspendAlone
  <1>o. run[w].at \notin {"escalate", "end"} =>
          /\ ~ Final(run[w].view) /\ run[w].view.error = "none"
          /\ \A to \in Place : Orderly(to, run[w].view)
    BY <1>0 DEF Orderly, Final, Over
  <1>e. ~ Final(run[w].view)
    BY <1>0 DEF Orderly
  <1> USE DEF Place, Node
  <1>1. CASE Parse(w)
    BY <1>1, <1>0, <1>o, <1>a DEF Parse, At
  <1>2. CASE Clarify(w)
    BY <1>2, <1>0, <1>o, <1>a, <1>s DEF Clarify, At
  <1>3. CASE GatherEvidence(w)
    <2> DEFINE v == Escalating(run[w].view, "escalated")
    <2>1. v \in View /\ Orderly("escalate", v)
      BY <1>0, <1>e, EscalatingType, OrderlyUpdates DEF Outcome
    <2>2. Advance(w, run[w].view, "plan") \/ Advance(w, v, "escalate")
      BY <1>3 DEF GatherEvidence
    <2> HIDE DEF v
    <2> QED
      BY <1>3, <1>0, <1>o, <1>a, <2>1, <2>2 DEF GatherEvidence, At
  <1>4. CASE Plan(w)
    <2> DEFINE v == Escalating(run[w].view, "escalated")
               u == [run[w].view EXCEPT !.next = "draft_ready"]
    <2>1. v \in View /\ Orderly("escalate", v)
      BY <1>0, <1>e, EscalatingType, OrderlyUpdates DEF Outcome
    <2>2. u \in View /\ Orderly("create_ticket_draft", u)
      BY <1>4, <1>0, <1>o, ViewUpdates, OrderlyUpdates DEF NextAction, Plan, At
    <2>3. Advance(w, u, "create_ticket_draft") \/ Advance(w, v, "escalate")
      BY <1>4 DEF Plan
    <2> HIDE DEF v, u
    <2> QED
      BY <1>a, <2>1, <2>2, <2>3
  <1>5. CASE Escalate(w)
    <2> DEFINE v == [run[w].view EXCEPT !.outcome = "escalated", !.next = "escalated"]
    <2>1. v \in View /\ Orderly("end", v)
      BY <1>0, <1>e, ViewUpdates, OrderlyUpdates DEF NextAction, Outcome
    <2>2. Advance(w, v, "end")
      BY <1>5 DEF Escalate
    <2> HIDE DEF v
    <2> QED
      BY <1>a, <2>1, <2>2
  <1>6. CASE RequestApproval(w)
    <2> DEFINE v == [run[w].view EXCEPT !.next = "wait_approval"]
    <2>1. v \in View /\ Orderly("apply_decision", v)
      BY <1>6, <1>0, <1>o, ViewUpdates, OrderlyUpdates DEF NextAction, RequestApproval, At
    <2>2. Advance(w, v, "apply_decision") \/ Suspend(w, "approval")
      BY <1>6 DEF RequestApproval
    <2> HIDE DEF v
    <2> QED
      BY <1>a, <1>s, <2>1, <2>2
  <1>7. CASE ApplyDecision(w)
    <2> DEFINE next(n) == [run[w].view EXCEPT !.next = n]
               done(outcome, n) == [run[w].view EXCEPT !.outcome = outcome, !.next = n]
    <2>0. run[w].view.error = "none"
      BY <1>7, <1>o DEF ApplyDecision, At
    <2>1. /\ \A n \in NextAction, to \in Place : next(n) \in View /\ Orderly(to, next(n))
          /\ \A outcome \in {"already_processed", "operation_unknown", "failed"}, n \in NextAction :
               done(outcome, n) \in View /\ Orderly("end", done(outcome, n))
      BY <2>0, <1>0, <1>e, ViewUpdates, OrderlyUpdates DEF Outcome
    <2>2. \/ \E n \in NextAction, to \in Place : Advance(w, next(n), to)
          \/ \E outcome \in {"already_processed", "operation_unknown", "failed"}, n \in NextAction :
               Advance(w, done(outcome, n), "end")
      BY <1>7 DEF ApplyDecision, NextAction
    <2> HIDE DEF next, done
    <2> QED
      BY <1>a, <2>1, <2>2
  <1> QED
    BY <1>1, <1>2, <1>3, <1>4, <1>5, <1>6, <1>7

LEMMA CallAlone ==
  ASSUME Structure, AloneInv, NEW w \in Worker, ~ overlap,
         \/ CreateTicket(w) \/ CreateRefund(w) \/ Submit(w) \/ NodeRaises(w)
         \/ Execute(w) \/ Close(w) \/ Save(w) \/ LoopStop(w) \/ LoopStopUnwritten(w)
  PROVE  AloneInv'
  <1>0. w \in Running
    BY RaisesBreakOff DEF CreateTicket, CreateRefund, Submit, Execute, Close, Save, LoopStop,
         At, Running, InFlight
  <1>1. /\ run[w] \in Run /\ run[w].view \in View /\ run[w].at \in Place
        /\ InStep(run[w]) /\ CheckpointOrderly
    BY <1>0 DEF AloneInv, Structure, TypeOK, Run
  <1>k. UNCHANGED ckpt => CheckpointOrderly'
    BY <1>1 DEF CheckpointOrderly, Exists
  <1>c. ckpt.view \in View
    BY DEF Structure, TypeOK, Checkpoint
  \* before and between the calls of a node
  <1>n. ASSUME \/ run[w].pc \in {"refund", "submit", "close"}
               \/ run[w].pc = "node" /\ run[w].at \notin {"escalate", "end"}
        PROVE  /\ ~ Final(run[w].view) /\ run[w].view.error = "none"
               /\ run[w].at = ckpt.at /\ ckpt.at # "end"
    <2>1. run[w].at = ckpt.at /\ ckpt.at # "end"
      BY <1>1, <1>n DEF InStep, Working
    <2>2. CASE run[w].pc = "node" /\ run[w].at \notin {"escalate", "end"}
      BY <1>1, <2>1, <2>2 DEF InStep, CheckpointOrderly, Orderly
    <2> QED
      BY <1>n, <1>1, <2>1, <2>2 DEF InStep
  <1>r. ASSUME NEW v \in View, NEW to \in Place, Ready(w, v, to), Orderly(to, v), UNCHANGED ckpt,
               ckpt.at # "end"
        PROVE  AloneInv'
    BY <1>0, <1>r, ReadyAlone
  \* the node goes on to its next call
  <1>g. ASSUME NEW r, Step(w, r), r.pc \in {"refund", "submit", "close"}, r.at = run[w].at,
               r.view.error = run[w].view.error, r.view.outcome = run[w].view.outcome,
               \/ run[w].pc \in {"refund", "submit", "close"}
               \/ run[w].pc = "node" /\ run[w].at \notin {"escalate", "end"},
               UNCHANGED ckpt
        PROVE  AloneInv'
    <2>1. InStep(r)
      BY <1>n, <1>g DEF InStep, Working, Final
    <2>2. InStep(r)'
      BY <1>g, <2>1 DEF InStep, Exists
    <2> QED
      BY <1>0, <1>k, <1>g, <2>2, AloneKept
  <1>2. CASE CreateTicket(w)
    <2>1. PICK r : r = [run[w] EXCEPT !.pc = "refund", !.view.ticket = TRUE]
      OBVIOUS
    <2>2. /\ r.pc = "refund" /\ r.at = run[w].at
          /\ r.view.error = run[w].view.error /\ r.view.outcome = run[w].view.outcome
      BY <1>1, <2>1 DEF Run, View
    <2>3. /\ run[w].pc = "node" /\ run[w].at \notin {"escalate", "end"}
          /\ Step(w, r) /\ UNCHANGED ckpt
      BY <1>2, <2>1 DEF CreateTicket, At
    <2> QED
      BY <1>g, <2>2, <2>3
  <1>3. CASE CreateRefund(w)
    <2>1. PICK r : r = [run[w] EXCEPT !.pc = "submit", !.view.op = TRUE]
      OBVIOUS
    <2>2. /\ r.pc = "submit" /\ r.at = run[w].at
          /\ r.view.error = run[w].view.error /\ r.view.outcome = run[w].view.outcome
      BY <1>1, <2>1 DEF Run, View
    <2>3. run[w].pc = "refund" /\ Step(w, r) /\ UNCHANGED ckpt
      BY <1>3, <2>1 DEF CreateRefund
    <2> QED
      BY <1>g, <2>2, <2>3
  <1>4. CASE Submit(w)
    <2>1. /\ ~ Final(run[w].view) /\ run[w].view.error = "none" /\ ckpt.at # "end"
          /\ UNCHANGED ckpt
      BY <1>4, <1>n DEF Submit
    <2>2. ASSUME NEW status, AfterSubmit(w, status)
          PROVE  AloneInv'
      <3> DEFINE wait == [run[w].view EXCEPT !.next = "wait_approval"]
                 over(outcome) == [run[w].view EXCEPT !.next = "finished", !.outcome = outcome]
      <3>1. wait \in View /\ \A outcome \in Outcome : over(outcome) \in View
        BY <1>1, ViewUpdates DEF NextAction
      <3>2. Orderly("request_approval", wait) /\ \A outcome : Orderly("end", over(outcome))
        BY <1>1, <2>1, OrderlyUpdates
      <3>3. \/ Ready(w, wait, "request_approval")
            \/ \E outcome \in Outcome : Ready(w, over(outcome), "end")
        BY <2>2 DEF AfterSubmit, Outcome
      <3> HIDE DEF wait, over
      <3> QED
        BY <1>r, <2>1, <3>1, <3>2, <3>3 DEF Place, Node
    <2> QED
      BY <1>4, <2>2 DEF Submit
  <1>5. CASE NodeRaises(w) \/ LoopStopUnwritten(w)
    BY <1>5, <1>0, <1>k, EndedAlone, RaisesBreakOff DEF BreaksOff
  <1>6. CASE Execute(w)
    <2>1. /\ ~ Final(run[w].view) /\ run[w].view.error = "none" /\ ckpt.at # "end"
          /\ UNCHANGED ckpt /\ run[w].pc = "node" /\ run[w].at = "execute_operation"
      BY <1>6, <1>n DEF Execute, At
    <2> DEFINE unknown == [run[w].view EXCEPT !.outcome = "operation_unknown",
                                              !.next = "reconcile_required"]
               error == Escalating(run[w].view, "error")
    <2>2. unknown \in View /\ error \in View
      BY <1>1, ViewUpdates DEF Outcome, NextAction
    <2>3. Orderly("end", unknown) /\ Orderly("end", error)
      BY <1>1, <2>1, OrderlyUpdates
    <2>4. PICK r : r = [run[w] EXCEPT !.pc = "close"]
      OBVIOUS
    <2>5. r.pc = "close" /\ r.at = run[w].at /\ r.view = run[w].view
      BY <1>1, <2>4 DEF Run
    <2>6. Ready(w, unknown, "end") \/ Ready(w, error, "end") \/ Step(w, r)
      BY <1>6, <2>4 DEF Execute
    <2> HIDE DEF unknown, error
    <2> QED
      BY <1>g, <1>r, <2>1, <2>2, <2>3, <2>5, <2>6 DEF Place
  <1>7. CASE Close(w)
    <2>1. /\ ~ Final(run[w].view) /\ run[w].view.error = "none" /\ ckpt.at # "end"
          /\ UNCHANGED ckpt
      BY <1>7, <1>n DEF Close, At
    <2> DEFINE over(outcome) == [run[w].view EXCEPT !.outcome = outcome, !.next = "finished"]
               error == Escalating(run[w].view, "error")
    <2>2. error \in View /\ \A outcome \in Outcome : over(outcome) \in View
      BY <1>1, ViewUpdates DEF Outcome, NextAction
    <2>3. Orderly("end", error) /\ \A outcome : Orderly("end", over(outcome))
      BY <1>1, <2>1, OrderlyUpdates
    <2>4. (\E outcome \in Outcome : Ready(w, over(outcome), "end")) \/ Ready(w, error, "end")
      BY <1>7 DEF Close, Outcome
    <2> HIDE DEF over, error
    <2> QED
      BY <1>r, <2>1, <2>2, <2>3, <2>4 DEF Place
  <1>8. CASE Save(w)
    <2>1. PICK r : r = [run[w] EXCEPT !.pc = After(run[w].at)]
      OBVIOUS
    <2>2. r.pc = After(r.at) /\ r.at = run[w].at /\ r.view = run[w].view
      BY <1>1, <2>1 DEF Run
    <2>3. Step(w, r) /\ ckpt' = [at |-> r.at, intr |-> "none", view |-> r.view, by |-> w]
      BY <1>8, <2>1, <2>2 DEF Save
    <2>4. Orderly(r.at, r.view) /\ w # Nobody
      BY <1>8, <1>1, <2>2, NobodyAssumption DEF Save, InStep
    <2>5. CheckpointOrderly'
      BY <2>3, <2>4 DEF CheckpointOrderly, Exists
    <2>6. InStep(r)'
      BY <2>2, <2>3 DEF InStep, After, Working
    <2> QED
      BY <1>0, <2>3, <2>5, <2>6, AloneKept
  <1>9. CASE LoopStop(w)
    <2>1. /\ LoopMarker(ckpt.view).outcome = "escalated" /\ w # Nobody
      BY <1>c, NobodyAssumption DEF View, LoopMarker
    <2>2. Orderly("end", LoopMarker(ckpt.view))
      BY <2>1 DEF Orderly, Over
    <2>3. ckpt' = [at |-> "end", intr |-> "none", view |-> LoopMarker(ckpt.view), by |-> w]
      BY <1>9 DEF LoopStop
    <2>4. CheckpointOrderly'
      BY <2>1, <2>2, <2>3 DEF CheckpointOrderly, Exists
    <2> QED
      BY <1>9, <1>0, <2>4, EndedAlone DEF LoopStop
  <1> QED
    BY <1>2, <1>3, <1>4, <1>5, <1>6, <1>7, <1>8, <1>9

LEMMA EndingAlone ==
  ASSUME Structure, TruthInv, AloneInv, NEW w \in Worker, Ending(w), ~ overlap
  PROVE  AloneInv'
  <1>0. w \in Running
    BY DEF Ending, Recover, RecoverClose, RecoverRaises, Settle, Release, Running, InFlight
  <1>1. /\ run[w] \in Run /\ run[w].view \in View /\ ckpt.view \in View
        /\ InStep(run[w]) /\ CheckpointOrderly
        /\ RecordTrue(run[w]) /\ ViewTrue(ckpt.view)
    BY <1>0 DEF AloneInv, Structure, TypeOK, Run, Checkpoint, TruthInv, RunsTrue, CheckpointTrue
  <1>k. UNCHANGED ckpt => CheckpointOrderly'
    BY <1>1 DEF CheckpointOrderly, Exists
  <1>s. /\ Orderly("end", Settled(run[w].view, op))
        /\ Settled(run[w].view, op).error = "none"
        /\ op = "executed" => Settled(run[w].view, op).outcome = "refunded"
        /\ op = "rejected" => Settled(run[w].view, op).outcome = "rejected"
    BY <1>1 DEF Orderly, Settled, View
  <1>u. Orderly("end", Unfinished(run[w].view))
    BY <1>1 DEF Orderly, Over, View, Unfinished
  <1>2. CASE Recover(w)
    <2>0. run[w].view = ckpt.view /\ UNCHANGED ckpt
      BY <1>2, <1>1 DEF Recover, InStep
    <2>1. PICK r, s : /\ r = [run[w] EXCEPT !.pc = "closing"]
                      /\ s = [run[w] EXCEPT !.pc = "settle", !.view = Settled(run[w].view, op)]
      OBVIOUS
    <2>2. r.pc = "closing" /\ s.pc = "settle" /\ s.view = Settled(run[w].view, op)
      BY <1>1, <2>1 DEF Run
    <2>3. \/ Step(w, Ended(run[w].waiting))
          \/ Step(w, r) /\ NeedsClosing /\ ckpt.view.error # "loop"
          \/ Step(w, s) /\ ckpt.view.error # "loop"
      BY <1>2, <2>0, <2>1 DEF Recover, Recoverable
    <2>4. NeedsClosing => ~ Over(ckpt.view)
      BY <1>1 DEF NeedsClosing, Over, ViewTrue, TellsTheTruth
    <2>5. CASE Step(w, r) /\ NeedsClosing /\ ckpt.view.error # "loop"
      <3>1. InStep(r)
        BY <2>2, <2>4, <2>5 DEF InStep, Working, Final, Over
      <3>2. InStep(r)'
        BY <1>2, <2>0, <3>1, InStepStays DEF Recover, history
      <3> QED
        BY <1>0, <1>k, <2>0, <2>5, <3>2, AloneKept
    <2>6. CASE Step(w, s) /\ ckpt.view.error # "loop"
      <3>1. Final(ckpt.view) => Keeps(s.view)
        BY <1>1, <1>s, <2>2, <2>6 DEF Final, ViewTrue, TellsTheTruth, CheckpointOrderly, Orderly, Over,
           Keeps
      <3>2. InStep(s)
        BY <1>s, <2>2, <3>1 DEF InStep, Working
      <3>3. InStep(s)'
        BY <1>2, <2>0, <3>2, InStepStays DEF Recover, history
      <3> QED
        BY <1>0, <1>k, <2>0, <2>6, <3>3, AloneKept
    <2> QED
      BY <1>0, <1>k, <2>0, <2>3, <2>5, <2>6, EndedAlone
  <1>3. CASE RecoverClose(w)
    <2>0. ~ Final(ckpt.view) /\ UNCHANGED ckpt
      BY <1>3, <1>1 DEF RecoverClose, InStep
    <2> DEFINE error == Unfinished(run[w].view)
    <2>1. PICK r, s : /\ r = [run[w] EXCEPT !.pc = "settle", !.view = error]
                      /\ s = [run[w] EXCEPT !.pc = "settle", !.view = Settled(run[w].view, op)]
      OBVIOUS
    <2>2. /\ r.pc = "settle" /\ r.view = error
          /\ s.pc = "settle" /\ s.view = Settled(run[w].view, op)
      BY <1>1, <2>1 DEF Run
    <2>3. Orderly("end", error)
      BY <1>u
    <2>4. InStep(r) /\ InStep(s)
      BY <1>s, <2>0, <2>2, <2>3 DEF InStep, Working
    <2>5. InStep(r)' /\ InStep(s)'
      BY <1>3, <2>0, <2>4, InStepStays DEF RecoverClose, history
    <2>6. Step(w, r) \/ Step(w, s)
      BY <1>3, <2>1 DEF RecoverClose
    <2> QED
      BY <1>0, <1>k, <2>0, <2>5, <2>6, AloneKept
  <1>4. CASE Settle(w)
    <2>1. /\ ckpt' = [at |-> "end", intr |-> "none", view |-> run[w].view, by |-> w]
          /\ Orderly("end", run[w].view) /\ w # Nobody
      BY <1>4, <1>1, NobodyAssumption DEF Settle, InStep
    <2>2. CheckpointOrderly'
      BY <2>1 DEF CheckpointOrderly, Exists
    <2> QED
      BY <1>4, <1>0, <2>2, EndedAlone DEF Settle
  <1>5. CASE Release(w)
    <2>1. PICK r : r = Idle
      OBVIOUS
    <2>2. r.pc = "idle"
      BY <2>1 DEF Idle
    <2>3. InStep(r)'
      BY <2>2 DEF InStep, Working
    <2> QED
      BY <1>5, <1>0, <1>k, <2>1, <2>3, AloneKept DEF Release
  <1>6. CASE RecoverRaises(w)
    <2>0. UNCHANGED ckpt /\ faults' > 0
      BY <1>6, FaultsType DEF RecoverRaises, Structure
    <2>1. CASE Step(w, Ended(run[w].waiting))
      BY <1>0, <1>k, <2>0, <2>1, EndedAlone
    <2>2. CASE /\ run[w].pc = "closing" \/ (run[w].pc = "recover" /\ Recoverable(run[w].view))
               /\ Step(w, [run[w] EXCEPT !.pc = "settle", !.view = Unfinished(run[w].view)])
      <3>1. PICK u, r : /\ u = Unfinished(run[w].view)
                        /\ r = [run[w] EXCEPT !.pc = "settle", !.view = u]
        OBVIOUS
      <3>2. r.pc = "settle" /\ r.view = u /\ Orderly("end", u)
        BY <1>1, <1>u, <3>1 DEF Run
      <3>3. Final(ckpt.view) => ckpt.view.error # "loop" /\ u = Unfinished(ckpt.view)
        BY <1>1, <2>2, <3>1 DEF InStep, Recoverable
      <3>4. (Final(ckpt.view) => Overwrites(u))'
        BY <2>0, <3>3 DEF Overwrites, Final, Unfinished
      <3>5. InStep(r)'
        BY <3>2, <3>4 DEF InStep, Working
      <3> QED
        BY <1>0, <1>k, <2>0, <2>2, <3>1, <3>5, AloneKept
    <2> QED
      BY <1>6, <2>1, <2>2 DEF RecoverRaises
  <1> QED
    BY <1>2, <1>3, <1>4, <1>5, <1>6 DEF Ending

LEMMA OtherAlone ==
  ASSUME Structure, AloneInv, ~ overlap, (\E p \in Proc : Crash(p)) \/ Expire \/ DomainStep
  PROVE  AloneInv'
  <1>1. \A u \in Worker : run'[u] \in {run[u], Idle}
    BY DEF Crash, Expire, DomainStep
  <1>2. UNCHANGED ckpt /\ (faults > 0 => faults' > 0)
    <2>1. BrokenOff > 0
      BY FaultsType DEF Structure
    <2> QED
      BY <2>1 DEF Crash, Expire, DomainStep, history
  <1>3. \A u \in Running' : u \in Running /\ run'[u] = run[u]
    BY <1>1 DEF Running, InFlight, Idle
  <1>4. \A u \in Running' : InStep(run[u])'
    <2> SUFFICES ASSUME NEW u \in Running' PROVE InStep(run[u])'
      OBVIOUS
    <2>1. PICK q : q = run[u]
      OBVIOUS
    <2>2. InStep(q)'
      BY <1>2, <1>3, <2>1, InStepStays DEF AloneInv
    <2> QED
      BY <1>3, <2>1, <2>2 DEF InStep, Keeps, Overwrites, Unfinished
  <1>5. CheckpointOrderly'
    BY <1>2 DEF AloneInv, CheckpointOrderly, Exists
  <1> QED
    BY <1>3, <1>4, <1>5 DEF AloneInv

LEMMA OverlapStays ==
  ASSUME Next, ~ overlap'
  PROVE  ~ overlap
  <1>1. ASSUME NEW w \in Worker, Entry(w) PROVE ~ overlap
    BY <1>1 DEF Entry, Start, InvokeNew, Ask, Resume, RefuseClaim, Claim, history
  <1>2. ASSUME NEW w \in Worker, NodeStep(w) PROVE ~ overlap
    BY <1>2 DEF NodeStep, Parse, Clarify, GatherEvidence, Plan, Escalate, RequestApproval,
         ApplyDecision, CreateTicket, CreateRefund, Submit, NodeRaises, Execute, Close,
         Save, LoopStop, LoopStopUnwritten, Quietly, history
  <1>3. ASSUME NEW w \in Worker, Ending(w) PROVE ~ overlap
    BY <1>3 DEF Ending, Recover, RecoverClose, RecoverRaises, Settle, Release, history
  <1> QED
    BY <1>1, <1>2, <1>3 DEF Next, Crash, Expire, DomainStep, history

LEMMA AloneStep ==
  ASSUME Structure, TruthInv, AloneInv, [Next]_vars
  PROVE  AloneInv'
  <1>1. CASE UNCHANGED vars
    BY <1>1 DEF vars, AloneInv, Running, InFlight, InStep, Exists, CheckpointOrderly, Keeps,
       Overwrites, Unfinished
  <1>2. CASE Next /\ ~ overlap'
    BY <1>2, OverlapStays, EntryAlone, QuietNodeAlone, CallAlone, EndingAlone, OtherAlone
       DEF Next, NodeStep
  <1>3. CASE overlap'
    BY <1>3 DEF AloneInv
  <1> QED
    BY <1>1, <1>2, <1>3

LEMMA AloneInit == Init => AloneInv
  <1> SUFFICES ASSUME Init PROVE AloneInv
    OBVIOUS
  <1>1. CheckpointOrderly
    BY DEF Init, CheckpointOrderly, Orderly, Final, Over, Absent, NewView
  <1>2. Running = {}
    BY DEF Init, Running, InFlight, Idle
  <1> QED
    BY <1>1, <1>2 DEF AloneInv

KeepsFinal ==
  ~ overlap' /\ Final(ckpt.view) =>
    /\ Keeps(ckpt'.view) \/ Overwrites(ckpt'.view)
    /\ run' # run => UNCHANGED facts

LEMMA FinalKept ==
  ASSUME Structure, TruthInv, AloneInv, [Next]_vars
  PROVE  KeepsFinal
  <1>1. CASE UNCHANGED vars
    BY <1>1 DEF vars, KeepsFinal, Keeps
  <1>2. CASE Next
    <2> SUFFICES ASSUME ~ overlap', Final(ckpt.view)
                 PROVE  /\ Keeps(ckpt'.view) \/ Overwrites(ckpt'.view)
                        /\ run' # run => UNCHANGED facts
      BY DEF KeepsFinal
    <2>1. CheckpointOrderly /\ \A w \in Running : InStep(run[w])
      BY <1>2, OverlapStays DEF AloneInv
    <2>2. ckpt.at = "end" /\ Exists
      BY <2>1 DEF CheckpointOrderly, Orderly, Absent, NewView, Final
    <2>3. \A w \in Running : run[w].pc \notin Working \cup {"invoke", "closing"}
      BY <2>1, <2>2 DEF InStep
    <2>4. ASSUME NEW w \in Worker, Entry(w)
          PROVE  UNCHANGED <<ckpt, facts>>
      <3>1. ~ InvokeNew(w)
        BY <2>3 DEF InvokeNew, Running, InFlight
      <3> QED
        BY <2>4, <3>1 DEF Entry, Start, Ask, Resume, RefuseClaim
    <2>5. ASSUME NEW w \in Worker, NodeStep(w)
          PROVE  FALSE
      <3>1. run[w].pc \in Working
        BY <2>5 DEF NodeStep, Parse, Clarify, GatherEvidence, Plan, Escalate, RequestApproval,
         ApplyDecision, CreateTicket, CreateRefund, Submit, NodeRaises, MayRaise, Execute, Close,
         Save, LoopStop, LoopStopUnwritten, At, Working
      <3> QED
        BY <2>3, <3>1 DEF Running, InFlight, Working
    <2>6. ASSUME NEW w \in Worker, Ending(w)
          PROVE  /\ Keeps(ckpt'.view) \/ Overwrites(ckpt'.view)
                 /\ UNCHANGED facts
      <3>1. run[w].pc # "closing"
        BY <2>3 DEF Running, InFlight
      <3>2. CASE Recover(w) \/ RecoverClose(w) \/ RecoverRaises(w) \/ Release(w)
        BY <3>1, <3>2 DEF Recover, RecoverClose, RecoverRaises, Release, facts, Keeps
      <3>3. CASE Settle(w)
        <4>1. InStep(run[w]) /\ run[w].pc = "settle"
          BY <2>1, <3>3 DEF Settle, Running, InFlight
        <4> QED
          BY <3>3, <4>1 DEF Settle, InStep
      <3> QED
        BY <2>6, <3>2, <3>3 DEF Ending
    <2>7. CASE (\E p \in Proc : Crash(p)) \/ Expire
      BY <2>7 DEF Crash, Expire, Keeps
    <2>8. CASE DomainStep
      BY <2>8 DEF DomainStep, Keeps
    <2> QED
      BY <1>2, <2>4, <2>5, <2>6, <2>7, <2>8 DEF Next, Keeps
  <1> QED
    BY <1>1, <1>2

\* While runs do not overlap, a thread that is refunded, rejected or stopped by the
\* loop guard stays so, and no run writes anything for it any more (_loop_stop,
\* _recover_terminal_state), through any number of starts, decisions and crashes: only a
\* recovery that the database fails has a refunded or rejected one escalated.
THEOREM FinalThreadsStayFinal == Spec => FinalStaysFinal
  <1>1. Init => Structure /\ TruthInv /\ AloneInv
    BY StructureInit, TruthInit, AloneInit
  <1>2. Structure /\ TruthInv /\ AloneInv /\ [Next]_vars => (Structure /\ TruthInv /\ AloneInv)'
    BY StructureStep, TruthStep, AloneStep
  <1>3. Structure /\ TruthInv /\ AloneInv /\ [Next]_vars
          => [~ overlap' /\ Final(ckpt.view) =>
                /\ \/ /\ ckpt'.view.outcome = ckpt.view.outcome
                      /\ ckpt'.view.error = ckpt.view.error
                   \/ /\ ckpt.view.error # "loop" /\ faults > 0
                      /\ ckpt'.view = Unfinished(ckpt.view)
                /\ run' # run => UNCHANGED facts]_vars
    BY FinalKept DEF KeepsFinal, Keeps, Overwrites
  <1> QED
    BY <1>1, <1>2, <1>3, PTL DEF Spec, FinalStaysFinal
=============================================================================
