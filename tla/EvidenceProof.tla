----------------------------- MODULE EvidenceProof -----------------------------
(***************************************************************************)
(* EvidenceAgents with the worker pool, for any runs of both kinds and any   *)
(* number of workers, hung ones included.                                    *)
(***************************************************************************)
EXTENDS EvidenceAgents, SequenceTheorems, TLAPS

-----------------------------------------------------------------------------
(* The pool: one answer and one record for each call *)

CallShape ==
  /\ answer \in [Call -> Answer \cup {"none"}]
  /\ records \in [Call -> Nat]

CallInv == CallShape /\ OneRecordPerCall

\* An answer that was given is not given again.
Kept == \A c \in Call : answer[c] # "none" => answer'[c] = answer[c]

LEMMA ResponseOnce ==
  ASSUME CallInv, NEW c \in Call, NEW a \in Answer, answer[c] = "none", Respond(c, a)
  PROVE  CallInv' /\ Kept
<1>1. a # "none"
  BY DEF Answer, Result
<1>2. answer' = [answer EXCEPT ![c] = a] /\ records' = [records EXCEPT ![c] = @ + 1]
  BY DEF Respond
<1>3. records[c] = 0
  BY DEF CallInv, OneRecordPerCall
<1>4. CallShape' /\ Kept
  BY <1>2 DEF CallInv, CallShape, Kept
<1>5. \A d \in Call : records'[d] = IF answer'[d] = "none" THEN 0 ELSE 1
  BY <1>1, <1>2, <1>3 DEF CallInv, CallShape, OneRecordPerCall
<1>6. QED
  BY <1>4, <1>5 DEF CallInv, OneRecordPerCall

LEMMA NoResponse ==
  ASSUME CallInv, answer' = answer, records' = records
  PROVE  CallInv' /\ Kept
  BY DEF CallInv, CallShape, OneRecordPerCall, Kept

LEMMA InvokeOnce ==
  ASSUME CallInv, NEW c \in Call, Invoke(c)
  PROVE  CallInv' /\ Kept
<1>1. answer[c] = "none" /\ "VALIDATION_ERROR" \in Answer
  BY DEF Invoke, Answer
<1>2. CASE Respond(c, "VALIDATION_ERROR")
  BY <1>1, <1>2, ResponseOnce
<1>3. CASE answer' = answer /\ records' = records
  BY <1>3, NoResponse
<1>4. QED
  BY <1>2, <1>3 DEF Invoke

LEMMA PoolStepOnce ==
  ASSUME CallInv, PoolStep
  PROVE  CallInv' /\ Kept
<1>1. CASE TakeCall
  BY <1>1, NoResponse DEF TakeCall
<1>2. ASSUME NEW c \in Call, Return(c) PROVE CallInv' /\ Kept
  \* a worker that returns to a caller who has given up leaves both as they are
  <2>1. CASE answer[c] = "none"
    <3>1. PICK a \in Executed(c[2]) : Respond(c, a)
      BY <1>2, <2>1 DEF Return
    <3>2. a \in Answer
      BY DEF Executed, Answer, Result
    <3>3. QED
      BY <2>1, <3>1, <3>2, ResponseOnce
  <2>2. CASE answer[c] # "none"
    BY <1>2, <2>2, NoResponse DEF Return
  <2>3. QED
    BY <2>1, <2>2
<1>3. ASSUME NEW c \in Call, TimeOut(c) PROVE CallInv' /\ Kept
  <2>1. answer[c] = "none" /\ Respond(c, "TOOL_TIMEOUT") /\ "TOOL_TIMEOUT" \in Answer
    BY <1>3 DEF TimeOut, Answer
  <2>2. QED
    BY <2>1, ResponseOnce
<1>4. QED
  BY <1>1, <1>2, <1>3 DEF PoolStep

-----------------------------------------------------------------------------
(* One run: what the stages after the order's call rely on *)

RunShape ==
  /\ stage \in [Run -> Stage]
  /\ seen \in [Run -> {"none", "open", "closed"}]
  /\ DOMAIN result = Run

\* the stages behind the answer of get_order
Informed == {"history", "policy", "plan", "resolve", "risk"}

GoesOnRightly(r) ==
  result[r].kind = "proceed" =>
    /\ Said(r, "get_order", "ok")
    /\ r \in FourRole => seen[r] = "open"
    /\ "policy" \in result[r].refs => Said(r, "retrieve_policy", "ok")
    /\ "history" \in result[r].refs => Said(r, "list_customer_tickets", "ok")

\* A run has a result only at its end, and behind get_order it has the order.
RunInv(r) ==
  /\ result[r].kind # "none" => stage[r] = "end"
  /\ stage[r] \in Informed => Said(r, "get_order", "ok") /\ seen[r] \in {"open", "closed"}
  /\ GoesOnRightly(r)

AgentInv == RunShape /\ \A r \in Run : RunInv(r)

\* What is left alone stays right, whoever else moves.
LEMMA RunStays ==
  ASSUME Kept, NEW r \in Run, RunInv(r),
         stage'[r] = stage[r], seen'[r] = seen[r], result'[r] = result[r]
  PROVE  RunInv(r)'
<1>1. \A tool \in Tool : Said(r, tool, "ok") => Said(r, tool, "ok")'
  BY DEF Kept, Said, Call
<1>2. /\ Said(r, "get_order", "ok") => Said(r, "get_order", "ok")'
      /\ Said(r, "retrieve_policy", "ok") => Said(r, "retrieve_policy", "ok")'
      /\ Said(r, "list_customer_tickets", "ok") => Said(r, "list_customer_tickets", "ok")'
  BY <1>1 DEF Tool
<1>3. QED
  BY <1>2 DEF RunInv, GoesOnRightly

\* A step of one run that ends right keeps all runs right.
LEMMA OneRunMoves ==
  ASSUME AgentInv, Kept, NEW r \in Run, RunShape', RunInv(r)',
         \A q \in Run \ {r} :
           stage'[q] = stage[q] /\ seen'[q] = seen[q] /\ result'[q] = result[q]
  PROVE  AgentInv'
<1>1. ASSUME NEW q \in Run, q # r PROVE RunInv(q)'
  BY <1>1, RunStays DEF AgentInv
<1>2. \A q \in Run : RunInv(q)'
  BY <1>1
<1>3. QED
  BY <1>2 DEF AgentInv

\* A step to a stage in front of the end, with the order if the stage needs it.
LEMMA MoveKeeps ==
  ASSUME AgentInv, answer' = answer, NEW r \in Run, NEW to \in Stage, stage[r] # "end",
         Move(r, to), result' = result,
         seen' = seen \/ ReadOrder(r),
         to \in Informed =>
           Said(r, "get_order", "ok") /\ (ReadOrder(r) \/ seen[r] \in {"open", "closed"})
  PROVE  AgentInv'
<1>1. stage' = [stage EXCEPT ![r] = to]
  BY DEF Move
<1>2. /\ seen' \in [Run -> {"none", "open", "closed"}]
      /\ \A q \in Run \ {r} : seen'[q] = seen[q]
      /\ ReadOrder(r) => seen'[r] \in {"open", "closed"}
  BY DEF ReadOrder, AgentInv, RunShape
<1>3. RunShape'
  BY <1>1, <1>2 DEF AgentInv, RunShape
<1>4. result[r].kind = "none"
  BY DEF AgentInv, RunInv
<1>5. RunInv(r)'
  BY <1>1, <1>2, <1>4 DEF AgentInv, RunShape, RunInv, GoesOnRightly, Said
<1>6. \A q \in Run \ {r} : stage'[q] = stage[q] /\ result'[q] = result[q]
  BY <1>1 DEF AgentInv, RunShape
<1>7. QED
  BY <1>2, <1>3, <1>5, <1>6, OneRunMoves DEF Kept

\* An escalation, an exception, or a way on that its evidence allows.
LEMMA FinishKeeps ==
  ASSUME AgentInv, answer' = answer, NEW r \in Run, NEW res,
         Finish(r, res), seen' = seen,
         res.kind = "proceed" =>
           /\ Said(r, "get_order", "ok") /\ res.refs = Refs(r)
           /\ r \in FourRole => seen[r] = "open"
  PROVE  AgentInv'
<1>1. stage' = [stage EXCEPT ![r] = "end"] /\ result' = [result EXCEPT ![r] = res]
  BY DEF Finish, Move
<1>2. RunShape'
  BY <1>1 DEF AgentInv, RunShape, Stage
<1>3. result'[r] = res /\ stage'[r] = "end" /\ seen'[r] = seen[r]
  BY <1>1 DEF AgentInv, RunShape
<1>4. GoesOnRightly(r)'
  BY <1>3 DEF GoesOnRightly, Said, Refs
<1>5. RunInv(r)'
  BY <1>3, <1>4 DEF RunInv, Informed
<1>6. \A q \in Run \ {r} : stage'[q] = stage[q] /\ result'[q] = result[q]
  BY <1>1 DEF AgentInv, RunShape
<1>7. QED
  BY <1>2, <1>5, <1>6, OneRunMoves DEF Kept

LEMMA CallsKeep ==
  ASSUME AgentInv, Kept, stage' = stage, seen' = seen, result' = result
  PROVE  AgentInv'
<1>1. \A r \in Run : RunInv(r)'
  BY RunStays DEF AgentInv
<1>2. QED
  BY <1>1 DEF AgentInv, RunShape

\* Every step of an agent is a call, a move or an end.
LEMMA StepKeeps ==
  ASSUME AgentInv, CallInv, NEW r \in Run, AgentStep(r)
  PROVE  AgentInv' /\ CallInv'
<1> USE DEF Stage
<1>1. CASE CallTool(r)
  <2>1. PICK tool \in Wanted(r) : Invoke(<<r, tool>>)
    BY <1>1 DEF CallTool
  <2>2. <<r, tool>> \in Call
    BY <2>1 DEF Wanted, Call, Tool
  <2>3. stage' = stage /\ seen' = seen /\ result' = result
    BY <1>1 DEF CallTool, agentVars
  <2>4. QED
    BY <2>1, <2>2, <2>3, InvokeOnce, CallsKeep
<1>2. ASSUME UNCHANGED poolVars, AgentInv'
      PROVE  AgentInv' /\ CallInv'
  BY <1>2, NoResponse DEF poolVars
<1>3. UNCHANGED poolVars => answer' = answer
  BY DEF poolVars
<1>4. CASE RefuseIncomplete(r)
  <2>1. PICK code : Finish(r, EscalateWith(code)) /\ seen' = seen /\ UNCHANGED poolVars
    BY <1>4 DEF RefuseIncomplete
  <2>2. QED
    BY <1>2, <1>3, <2>1, FinishKeeps DEF EscalateWith
<1>5. CASE Supervise(r)
  <2>1. Move(r, "parallel") /\ stage[r] = "start" /\ UNCHANGED poolVars
        /\ seen' = seen /\ result' = result
    BY <1>5 DEF Supervise
  <2>2. QED
    BY <1>2, <1>3, <2>1, MoveKeeps DEF Informed
<1>6. CASE Join(r) \/ OrderChecked(r)
  <2>1. stage[r] \in {"parallel", "order"} /\ UNCHANGED poolVars
    BY <1>6 DEF Join, OrderChecked
  <2>2. CASE Said(r, "get_order", "ok")
    <3>1. Move(r, "history") /\ ReadOrder(r) /\ result' = result
      BY <1>6, <2>2 DEF Join, OrderChecked
    <3>2. QED
      BY <1>2, <1>3, <2>1, <2>2, <3>1, MoveKeeps
  <2>3. CASE ~Said(r, "get_order", "ok")
    <3>1. Finish(r, EscalateWith(answer[<<r, "get_order">>])) /\ seen' = seen
      BY <1>6, <2>3 DEF Join, OrderChecked, EvidenceFails
    <3>2. QED
      BY <1>2, <1>3, <2>1, <3>1, FinishKeeps DEF EscalateWith
  <2>4. QED
    BY <2>2, <2>3
<1>7. CASE Assemble(r)
  <2>1. /\ r \notin FourRole /\ stage[r] = "history" /\ UNCHANGED poolVars
        /\ Finish(r, Proceed(Refs(r))) /\ seen' = seen
    BY <1>7 DEF Assemble
  <2>2. Said(r, "get_order", "ok")
    BY <2>1 DEF AgentInv, RunInv, Informed
  <2>3. QED
    BY <1>2, <1>3, <2>1, <2>2, FinishKeeps DEF Proceed
<1>8. CASE Triage(r)
  <2>1. stage[r] = "start" /\ UNCHANGED poolVars /\ seen' = seen
    BY <1>8 DEF Triage
  <2>2. CASE Move(r, "order") /\ result' = result
    BY <1>2, <1>3, <2>1, <2>2, MoveKeeps DEF Informed
  <2>3. CASE Finish(r, Raise)
    BY <1>2, <1>3, <2>1, <2>3, FinishKeeps DEF Raise
  <2>4. QED
    BY <1>8, <2>2, <2>3 DEF Triage
\* behind get_order: the next stage, or an escalation
<1>9. ASSUME NEW to \in Informed, stage[r] \in Informed, UNCHANGED poolVars, seen' = seen,
             \/ Move(r, to) /\ result' = result
             \/ \E code : Finish(r, EscalateWith(code))
      PROVE  AgentInv' /\ CallInv'
  <2>1. Said(r, "get_order", "ok") /\ seen[r] \in {"open", "closed"}
    BY <1>9 DEF AgentInv, RunInv
  <2>2. CASE Move(r, to) /\ result' = result
    BY <1>2, <1>3, <1>9, <2>1, <2>2, MoveKeeps DEF Informed
  <2>3. ASSUME NEW code, Finish(r, EscalateWith(code)) PROVE AgentInv' /\ CallInv'
    BY <1>2, <1>3, <1>9, <2>3, FinishKeeps DEF EscalateWith
  <2>4. QED
    BY <1>9, <2>2, <2>3
<1>10. CASE HistoryRead(r)
  BY <1>9, <1>10 DEF HistoryRead, Informed
<1>11. CASE PolicyRead(r)
  BY <1>9, <1>11 DEF PolicyRead, EvidenceFails, Informed
<1>12. CASE PlanRefund(r)
  <2>1. CASE Finish(r, Raise) /\ stage[r] = "plan" /\ UNCHANGED poolVars /\ seen' = seen
    BY <1>2, <1>3, <2>1, FinishKeeps DEF Raise
  <2>2. QED
    BY <1>9, <1>12, <2>1 DEF PlanRefund, ResolutionFails, Informed
<1>13. CASE Resolve(r)
  BY <1>9, <1>13 DEF Resolve, ResolutionFails, Informed
<1>14. CASE Review(r)
  <2>1. stage[r] = "risk" /\ UNCHANGED poolVars /\ seen' = seen
    BY <1>14 DEF Review
  <2>2. Said(r, "get_order", "ok") /\ seen[r] \in {"open", "closed"}
    BY <2>1 DEF AgentInv, RunInv, Informed
  <2>3. PICK intent : IF Blocking(r, intent)
                      THEN Finish(r, EscalateWith("RISK_REVIEW_FAILED"))
                      ELSE Finish(r, Proceed(Refs(r)))
    BY <1>14 DEF Review
  <2>4. CASE Blocking(r, intent)
    BY <1>2, <1>3, <2>1, <2>3, <2>4, FinishKeeps DEF EscalateWith
  <2>5. CASE ~Blocking(r, intent)
    <3>1. seen[r] = "open"
      BY <2>2, <2>5 DEF Blocking
    <3>2. QED
      BY <1>2, <1>3, <2>1, <2>2, <2>3, <2>5, <3>1, FinishKeeps DEF Proceed
  <2>6. QED
    BY <2>4, <2>5
<1>15. QED
  BY <1>1, <1>4, <1>5, <1>6, <1>7, <1>8, <1>10, <1>11, <1>12, <1>13, <1>14 DEF AgentStep

-----------------------------------------------------------------------------
(* The traces of a run of four roles *)

Reason == Answer \cup {"none", "MISSING_ORDER_ID", "MISSING_REQUIRED_FIELD", "DOMAIN",
                       "POLICY_INJECTION_DETECTED", "ROLE_OUTPUT_POLICY_VIOLATION",
                       "RISK_REVIEW_FAILED"}
Entry == [role : {Role[1], Role[2], Role[3], Role[4]}, status : TraceStatus, reason : Reason]
Ok(i) == Trace(Role[i], "ok", "none")

\* ts is the trace of n stages that all went well
OkUpTo(ts, n) == ts \in Seq(Entry) /\ Len(ts) = n /\ \A i \in 1 .. n : ts[i] = Ok(i)

\* what TracesTellTheRun says of the traces ts of a run with the result res
Tell(ts, res) ==
  /\ Len(ts) = 4
  /\ \A i \in 1 .. 4 : ts[i].role = Role[i]
  /\ (res.kind = "proceed") <=> \A i \in 1 .. 4 : ts[i].status = "ok"
  /\ \A i \in 1 .. 4 : ts[i].status # "ok" =>
       /\ ts[i].reason = res.code
       /\ \A j \in i + 1 .. 4 : ts[j].status = "skipped"

LEMMA TraceFields ==
  ASSUME NEW role, NEW s, NEW reason
  PROVE  /\ Trace(role, s, reason).role = role /\ Trace(role, s, reason).status = s
         /\ Trace(role, s, reason).reason = reason
  BY DEF Trace

LEMMA EntryType ==
  ASSUME NEW i \in 1 .. 4, NEW s \in TraceStatus, NEW reason \in Reason
  PROVE  Trace(Role[i], s, reason) \in Entry
  BY DEF Trace, Entry, Role

LEMMA SkippedEntries ==
  ASSUME NEW k \in 1 .. 4, NEW reason \in Reason
  PROVE  /\ Skipped(k, reason) \in Seq(Entry) /\ Len(Skipped(k, reason)) = 5 - k
         /\ \A i \in 1 .. 5 - k : Skipped(k, reason)[i] = Trace(Role[i + k - 1], "skipped", reason)
<1>1. \A i \in 1 .. 5 - k : Trace(Role[i + k - 1], "skipped", reason) \in Entry
  BY EntryType DEF TraceStatus
<1>2. QED
  BY <1>1 DEF Skipped

\* One more stage that went well.
LEMMA OneMore ==
  ASSUME NEW n \in 0 .. 3, NEW ts, OkUpTo(ts, n)
  PROVE  OkUpTo(ts \o <<Ok(n + 1)>>, n + 1)
<1>1. Ok(n + 1) \in Entry
  BY EntryType DEF Ok, TraceStatus, Reason
<1>2. QED
  BY <1>1 DEF OkUpTo

\* The run ends at stage k, the later ones are skipped.
LEMMA EndsAt ==
  ASSUME NEW k \in 1 .. 4, NEW s \in {"error", "escalated", "skipped"}, NEW reason, NEW ts,
         Len(ts) = 4, \A i \in 1 .. k - 1 : ts[i] = Ok(i), ts[k] = Trace(Role[k], s, reason),
         \A i \in k + 1 .. 4 : ts[i] = Trace(Role[i], "skipped", reason)
  PROVE  Tell(ts, EscalateWith(reason))
<1>1. \A i \in 1 .. 4 : i \in 1 .. k - 1 \/ i = k \/ i \in k + 1 .. 4
  OBVIOUS
<1>2. ASSUME NEW i \in 1 .. k - 1
      PROVE  ts[i].role = Role[i] /\ ts[i].status = "ok"
  BY <1>2, TraceFields DEF Ok
<1>3. ts[k].role = Role[k] /\ ts[k].status # "ok" /\ ts[k].reason = reason
  BY TraceFields
<1>4. ASSUME NEW i \in k + 1 .. 4
      PROVE  ts[i].role = Role[i] /\ ts[i].status = "skipped" /\ ts[i].reason = reason
  BY <1>4, TraceFields
<1>5. \A i \in 1 .. 4 : ts[i].role = Role[i]
  BY <1>1, <1>2, <1>3, <1>4
<1>6. ~ \A i \in 1 .. 4 : ts[i].status = "ok"
  BY <1>3
<1>7. ASSUME NEW i \in 1 .. 4, ts[i].status # "ok"
      PROVE  ts[i].reason = reason /\ \A j \in i + 1 .. 4 : ts[j].status = "skipped"
  <2>1. i = k \/ i \in k + 1 .. 4
    BY <1>1, <1>2, <1>7
  <2>2. \A j \in i + 1 .. 4 : j \in k + 1 .. 4
    BY <2>1
  <2>3. QED
    BY <1>3, <1>4, <2>1, <2>2
<1>8. EscalateWith(reason).kind # "proceed" /\ EscalateWith(reason).code = reason
  BY DEF EscalateWith
<1>9. QED
  BY <1>5, <1>6, <1>7, <1>8 DEF Tell

LEMMA FailsAt ==
  ASSUME NEW k \in 2 .. 3, NEW reason \in Reason, NEW p, OkUpTo(p, k - 1)
  PROVE  Tell(p \o (<<Trace(Role[k], "error", reason)>> \o Skipped(k + 1, reason)),
              EscalateWith(reason))
<1> DEFINE t == Trace(Role[k], "error", reason)
<1> DEFINE rest == Skipped(k + 1, reason)
<1> DEFINE ts == p \o (<<t>> \o rest)
<1>1. t \in Entry
  BY EntryType DEF TraceStatus
<1>2. /\ rest \in Seq(Entry) /\ Len(rest) = 4 - k
      /\ \A i \in 1 .. 4 - k : rest[i] = Trace(Role[i + k], "skipped", reason)
  BY SkippedEntries, k + 1 \in 1 .. 4
<1>3. /\ <<t>> \o rest \in Seq(Entry) /\ Len(<<t>> \o rest) = 5 - k
      /\ (<<t>> \o rest)[1] = t
      /\ \A i \in 2 .. 5 - k : (<<t>> \o rest)[i] = rest[i - 1]
  BY <1>1, <1>2
<1> DEFINE q == <<t>> \o rest
<1>p. p \in Seq(Entry) /\ Len(p) = k - 1
  BY DEF OkUpTo
<1>4. /\ Len(ts) = 4
      /\ \A i \in 1 .. k - 1 : ts[i] = p[i]
      /\ \A i \in k .. 4 : ts[i] = q[i - k + 1]
  <2> HIDE DEF q
  <2>1. q \in Seq(Entry) /\ Len(q) = 5 - k
    BY <1>3 DEF q
  <2>2. Len(p \o q) = 4
    BY <1>p, <2>1
  <2>3. \A i \in 1 .. Len(p) + Len(q) :
          (p \o q)[i] = IF i <= Len(p) THEN p[i] ELSE q[i - Len(p)]
    BY <1>p, <2>1, ConcatProperties
  <2>4. \A i \in k .. 4 : i - (k - 1) = i - k + 1
    OBVIOUS
  <2>5. QED
    BY <1>p, <2>1, <2>2, <2>3, <2>4 DEF q
<1>5. ts[k] = t
  BY <1>3, <1>4
<1>6. \A i \in k + 1 .. 4 : ts[i] = Trace(Role[i], "skipped", reason)
  <2> SUFFICES ASSUME NEW i \in k + 1 .. 4 PROVE ts[i] = Trace(Role[i], "skipped", reason)
    OBVIOUS
  <2>1. i - k \in 1 .. 4 - k /\ i - k + 1 \in 2 .. 5 - k /\ (i - k) + k = i
    OBVIOUS
  <2>2. ts[i] = rest[i - k]
    BY <1>3, <1>4, <2>1
  <2>3. QED
    BY <1>2, <2>1, <2>2
<1>7. \A i \in 1 .. k - 1 : ts[i] = Ok(i)
  BY <1>4 DEF OkUpTo
<1>8. Len(ts) = 4 /\ k \in 1 .. 4
  BY <1>4
<1> HIDE DEF ts, rest
<1>9. Tell(ts, EscalateWith(reason))
  BY <1>5, <1>6, <1>7, <1>8, EndsAt
<1>10. QED
  BY <1>9 DEF ts, rest

LEMMA SkippedAll ==
  ASSUME NEW reason \in Reason, NEW p, OkUpTo(p, 0)
  PROVE  Tell(p \o Skipped(1, reason), EscalateWith(reason))
<1>1. /\ Skipped(1, reason) \in Seq(Entry) /\ Len(Skipped(1, reason)) = 4
      /\ \A i \in 1 .. 4 : Skipped(1, reason)[i] = Trace(Role[i], "skipped", reason)
  <2>1. /\ Skipped(1, reason) \in Seq(Entry) /\ Len(Skipped(1, reason)) = 5 - 1
        /\ \A i \in 1 .. 5 - 1 :
             Skipped(1, reason)[i] = Trace(Role[i + 1 - 1], "skipped", reason)
    BY SkippedEntries, 1 \in 1 .. 4
  <2>2. 5 - 1 = 4 /\ \A i \in 1 .. 4 : i + 1 - 1 = i
    OBVIOUS
  <2>3. QED
    BY <2>1, <2>2
<1>2. p = <<>>
  BY DEF OkUpTo
<1> DEFINE ts == p \o Skipped(1, reason)
<1>3. ts = Skipped(1, reason)
  BY <1>1, <1>2
<1>4. /\ Len(ts) = 4 /\ ts[1] = Trace(Role[1], "skipped", reason)
      /\ \A i \in 1 .. 1 - 1 : ts[i] = Ok(i)
      /\ \A i \in 1 + 1 .. 4 : ts[i] = Trace(Role[i], "skipped", reason)
  BY <1>1, <1>3
<1> HIDE DEF ts
<1>5. Tell(ts, EscalateWith(reason))
  BY <1>4, EndsAt, 1 \in 1 .. 4
<1>6. QED
  BY <1>5 DEF ts

LEMMA ReviewTells ==
  ASSUME NEW p, OkUpTo(p, 3)
  PROVE  /\ Tell(p \o <<Trace(Role[4], "escalated", "RISK_REVIEW_FAILED")>>,
                 EscalateWith("RISK_REVIEW_FAILED"))
         /\ \A refs : Tell(p \o <<Ok(4)>>, Proceed(refs))
<1> DEFINE t == Trace(Role[4], "escalated", "RISK_REVIEW_FAILED")
<1>1. t \in Entry
  BY EntryType DEF TraceStatus, Reason
<1> DEFINE ts == p \o <<t>>
<1>p. p \in Seq(Entry) /\ Len(p) = 3 /\ \A i \in 1 .. 3 : p[i] = Ok(i)
  BY DEF OkUpTo
<1>2. /\ Len(ts) = 4 /\ ts[4] = t
      /\ \A i \in 1 .. 4 - 1 : ts[i] = Ok(i)
      /\ \A i \in 4 + 1 .. 4 : ts[i] = Trace(Role[i], "skipped", "RISK_REVIEW_FAILED")
  <2> HIDE DEF t
  <2>1. /\ Len(ts) = 4 /\ ts[4] = t
        /\ \A i \in 1 .. 3 : ts[i] = p[i]
    <3> DEFINE q == <<t>>
    <3>1. q \in Seq(Entry) /\ Len(q) = 1 /\ q[1] = t
      BY <1>1
    <3> HIDE DEF q
    <3>a. p \in Seq(Entry) /\ q \in Seq(Entry)
      BY <1>p, <3>1
    <3>b. /\ Len(p \o q) = Len(p) + Len(q)
          /\ \A i \in 1 .. Len(p) + Len(q) :
               (p \o q)[i] = IF i <= Len(p) THEN p[i] ELSE q[i - Len(p)]
      BY <3>a, ConcatProperties
    <3>2. Len(p \o q) = 4 /\ \A i \in 1 .. 4 : (p \o q)[i] = IF i <= 3 THEN p[i] ELSE q[i - 3]
      BY <1>p, <3>1, <3>b
    <3>3. ts = p \o q
      BY DEF q
    <3>4. QED
      BY <3>1, <3>2, <3>3
  <2>2. QED
    BY <1>p, <2>1
<1>3. Tell(ts, EscalateWith("RISK_REVIEW_FAILED"))
  <2> HIDE DEF ts
  <2>1. QED
    BY <1>2, EndsAt, 4 \in 1 .. 4
<1>4. OkUpTo(p \o <<Ok(4)>>, 4)
  BY OneMore, 3 + 1 = 4
<1>5. \A refs : Tell(p \o <<Ok(4)>>, Proceed(refs))
  BY <1>4 DEF OkUpTo, Tell, Proceed, Ok, Trace
<1>6. QED
  BY <1>3, <1>5

\* how many roles have gone through their stage without a fault
Done(at) ==
  IF at = "start" THEN 0
  ELSE IF at \in {"order", "history", "policy"} THEN 1
  ELSE IF at \in {"plan", "resolve"} THEN 2 ELSE 3

\* In front of its end a run has the traces of the roles that are done, all ok.
TraceInv(r) ==
  r \in FourRole =>
    /\ stage[r] # "parallel"
    /\ stage[r] # "end" => OkUpTo(traces[r], Done(stage[r]))
    /\ result[r].kind \in {"proceed", "escalate"} => Tell(traces[r], result[r])

TracesInv == DOMAIN traces = Run /\ \A r \in Run : TraceInv(r)

\* a step that leaves ts as the traces of r, and those of the other runs as they are
TracesBecome(r, ts) ==
  /\ DOMAIN traces' = Run /\ traces'[r] = ts
  /\ \A q \in Run \ {r} : traces'[q] = traces[q]

LEMMA RunEndsTold ==
  ASSUME AgentInv, TracesInv, NEW r \in Run, NEW res, NEW ts, Finish(r, res),
         TracesBecome(r, ts),
         r \in FourRole => Tell(ts, res) \/ res.kind = "raise"
  PROVE  TracesInv'
<1>1. /\ stage' = [stage EXCEPT ![r] = "end"] /\ result' = [result EXCEPT ![r] = res]
  BY DEF Finish, Move
<1>2. /\ stage'[r] = "end" /\ result'[r] = res /\ traces'[r] = ts /\ DOMAIN traces' = Run
      /\ \A q \in Run \ {r} :
           stage'[q] = stage[q] /\ result'[q] = result[q] /\ traces'[q] = traces[q]
  BY <1>1 DEF AgentInv, RunShape, TracesInv, TracesBecome
<1>3. TraceInv(r)'
  BY <1>2 DEF TraceInv
<1>4. ASSUME NEW q \in Run \ {r} PROVE TraceInv(q)'
  <2>1. TraceInv(q)
    BY DEF TracesInv
  <2>2. QED
    BY <1>2, <2>1 DEF TraceInv
<1>5. QED
  BY <1>2, <1>3, <1>4 DEF TracesInv

LEMMA RunMovesTold ==
  ASSUME AgentInv, TracesInv, NEW r \in Run, NEW to \in Stage, NEW ts, Move(r, to),
         result' = result, TracesBecome(r, ts), stage[r] # "end",
         r \in FourRole => to # "parallel" /\ (to # "end" => OkUpTo(ts, Done(to)))
  PROVE  TracesInv'
<1>1. stage' = [stage EXCEPT ![r] = to]
  BY DEF Move
<1>2. /\ stage'[r] = to /\ result' = result /\ traces'[r] = ts /\ DOMAIN traces' = Run
      /\ \A q \in Run \ {r} : stage'[q] = stage[q] /\ traces'[q] = traces[q]
  BY <1>1 DEF AgentInv, RunShape, TracesInv, TracesBecome
<1>3. result[r].kind = "none"
  BY DEF AgentInv, RunInv
<1>4. TraceInv(r)'
  BY <1>2, <1>3 DEF TraceInv
<1>5. ASSUME NEW q \in Run \ {r} PROVE TraceInv(q)'
  <2>1. TraceInv(q)
    BY DEF TracesInv
  <2>2. QED
    BY <1>2, <2>1 DEF TraceInv
<1>6. QED
  BY <1>2, <1>4, <1>5 DEF TracesInv

\* A move that adds no trace keeps the one there is.
LEMMA SameTraces ==
  ASSUME TracesInv, NEW r \in Run, traces' = traces
  PROVE  TracesBecome(r, traces[r])
  BY DEF TracesInv, TracesBecome

\* A move that adds some has them after those there were.
LEMMA MoreTraces ==
  ASSUME TracesInv, NEW r \in Run, NEW ts, Add(r, ts)
  PROVE  TracesBecome(r, traces[r] \o ts)
  BY DEF TracesInv, TracesBecome, Add

LEMMA TracesKeep ==
  ASSUME AgentInv, CallInv, TracesInv, NEW r \in Run, AgentStep(r)
  PROVE  TracesInv'
<1> USE DEF Stage
<1>1. CASE CallTool(r)
  <2>1. stage' = stage /\ result' = result /\ traces' = traces
    BY <1>1 DEF CallTool, agentVars
  <2>2. QED
    BY <2>1 DEF TracesInv, TraceInv
<1>2. r \in FourRole => /\ stage[r] # "parallel"
                        /\ stage[r] # "end" => OkUpTo(traces[r], Done(stage[r]))
  BY DEF TracesInv, TraceInv
<1>3. CASE RefuseIncomplete(r)
  <2>1. PICK code \in Incomplete(r) :
          /\ Finish(r, EscalateWith(code))
          /\ IF r \in FourRole THEN Add(r, Skipped(1, code)) ELSE UNCHANGED traces
    BY <1>3 DEF RefuseIncomplete
  <2>2. code \in Reason
    BY DEF Incomplete, Reason
  <2>3. CASE r \in FourRole
    <3>1. stage[r] = "start"
      BY <1>3 DEF RefuseIncomplete
    <3>2. OkUpTo(traces[r], 0)
      BY <1>2, <2>3, <3>1 DEF Done
    <3>3. Tell(traces[r] \o Skipped(1, code), EscalateWith(code))
      BY <2>2, <3>2, SkippedAll
    <3>4. QED
      BY <2>1, <2>3, <3>3, RunEndsTold, MoreTraces

  <2>4. CASE r \notin FourRole
    BY <2>1, <2>4, SameTraces, RunEndsTold
  <2>5. QED
    BY <2>3, <2>4
<1>4. CASE Supervise(r)
  BY <1>4, SameTraces, RunMovesTold DEF Supervise
<1>5. ASSUME NEW code \in Reason, EvidenceFails(r, code), r \in FourRole => OkUpTo(traces[r], 1)
      PROVE  TracesInv'
  <2>1. r \in FourRole =>
          Tell(traces[r] \o (<<Trace(Role[2], "error", code)>> \o Skipped(3, code)),
               EscalateWith(code))
    <3>1. 2 \in 2 .. 3 /\ 2 - 1 = 1 /\ 2 + 1 = 3
      OBVIOUS
    <3>2. QED
      BY <1>5, <3>1, FailsAt
  <2>2. QED
    BY <1>5, <2>1, RunEndsTold, MoreTraces DEF EvidenceFails

<1>6. CASE Join(r)
  <2>1. stage[r] = "parallel" /\ r \notin FourRole /\ traces' = traces
    BY <1>2, <1>6 DEF Join
  <2>2. CASE Said(r, "get_order", "ok")
    BY <1>6, <2>1, <2>2, SameTraces, RunMovesTold DEF Join
  <2>3. CASE ~Said(r, "get_order", "ok")
    BY <1>6, <2>1, <2>3, SameTraces, RunEndsTold DEF Join
  <2>4. QED
    BY <2>2, <2>3
<1>7. CASE Assemble(r)
  BY <1>7, SameTraces, RunEndsTold DEF Assemble
<1>8. CASE Triage(r)
  <2>1. stage[r] = "start"
    BY <1>8 DEF Triage
  <2>2. r \in FourRole /\ OkUpTo(traces[r], 0)
    BY <1>2, <1>8, <2>1 DEF Triage, Done
  <2>3. CASE Move(r, "order") /\ Add(r, <<Trace(Role[1], "ok", "none")>>) /\ result' = result
    <3>1. OkUpTo(traces[r] \o <<Ok(1)>>, 1)
      BY <2>2, OneMore, 0 + 1 = 1, 0 \in 0 .. 3
    <3>2. QED
      BY <2>1, <2>3, <3>1, RunMovesTold, MoreTraces DEF Ok, Done
  <2>4. CASE Finish(r, Raise) /\ traces' = traces
    BY <2>4, SameTraces, RunEndsTold DEF Raise
  <2>5. QED
    BY <1>8, <2>3, <2>4 DEF Triage
<1>9. CASE OrderChecked(r)
  <2>1. stage[r] = "order" /\ (r \in FourRole => OkUpTo(traces[r], 1))
    BY <1>2, <1>9 DEF OrderChecked, Done
  <2>2. CASE Said(r, "get_order", "ok")
    BY <1>9, <2>1, <2>2, SameTraces, RunMovesTold DEF OrderChecked, Done
  <2>3. CASE ~Said(r, "get_order", "ok")
    <3>1. <<r, "get_order">> \in Call
      BY DEF Call, Tool
    <3>2. answer[<<r, "get_order">>] \in Reason
      BY <3>1 DEF CallInv, CallShape, Reason
    <3>3. QED
      BY <1>5, <1>9, <2>1, <2>3, <3>2 DEF OrderChecked
  <2>4. QED
    BY <2>2, <2>3
<1>10. CASE HistoryRead(r)
  <2>1. stage[r] = "history" /\ (r \in FourRole => OkUpTo(traces[r], 1))
    BY <1>2, <1>10 DEF HistoryRead, Done
  <2>2. QED
    BY <1>10, <2>1, SameTraces, RunMovesTold DEF HistoryRead, Done
<1>11. CASE PolicyRead(r)
  <2>1. stage[r] = "policy" /\ (r \in FourRole => OkUpTo(traces[r], 1))
    BY <1>2, <1>11 DEF PolicyRead, Done
  <2>2. CASE EvidenceFails(r, "POLICY_INJECTION_DETECTED")
    BY <1>5, <2>1, <2>2 DEF Reason
  <2>3. CASE Move(r, "plan") /\ Add(r, <<Trace(Role[2], "ok", "none")>>) /\ result' = result
    <3>1. r \in FourRole => OkUpTo(traces[r] \o <<Ok(2)>>, 2)
      BY <2>1, OneMore, 1 + 1 = 2, 1 \in 0 .. 3
    <3>2. QED
      BY <2>1, <2>3, <3>1, RunMovesTold, MoreTraces DEF Ok, Done
  <2>4. QED
    BY <1>11, <2>2, <2>3 DEF PolicyRead
<1>12. ASSUME NEW code \in Reason, ResolutionFails(r, code),
              r \in FourRole => OkUpTo(traces[r], 2)
       PROVE  TracesInv'
  <2>1. r \in FourRole =>
          Tell(traces[r] \o (<<Trace(Role[3], "error", code)>> \o Skipped(4, code)),
               EscalateWith(code))
    <3>1. 3 \in 2 .. 3 /\ 3 - 1 = 2 /\ 3 + 1 = 4
      OBVIOUS
    <3>2. QED
      BY <1>12, <3>1, FailsAt
  <2>2. QED
    BY <1>12, <2>1, RunEndsTold, MoreTraces DEF ResolutionFails

<1>13. CASE PlanRefund(r)
  <2>1. stage[r] = "plan" /\ (r \in FourRole => OkUpTo(traces[r], 2))
    BY <1>2, <1>13 DEF PlanRefund, Done
  <2>2. CASE ResolutionFails(r, "DOMAIN")
    BY <1>12, <2>1, <2>2 DEF Reason
  <2>3. CASE Move(r, "resolve") /\ traces' = traces /\ result' = result
    BY <2>1, <2>3, SameTraces, RunMovesTold DEF Done
  <2>4. CASE Finish(r, Raise) /\ traces' = traces
    BY <2>4, SameTraces, RunEndsTold DEF Raise
  <2>5. QED
    BY <1>13, <2>2, <2>3, <2>4 DEF PlanRefund
<1>14. CASE Resolve(r)
  <2>1. stage[r] = "resolve" /\ (r \in FourRole => OkUpTo(traces[r], 2))
    BY <1>2, <1>14 DEF Resolve, Done
  <2>2. CASE ResolutionFails(r, "ROLE_OUTPUT_POLICY_VIOLATION")
    BY <1>12, <2>1, <2>2 DEF Reason
  <2>3. CASE Move(r, "risk") /\ Add(r, <<Trace(Role[3], "ok", "none")>>) /\ result' = result
    <3>1. r \in FourRole => OkUpTo(traces[r] \o <<Ok(3)>>, 3)
      BY <2>1, OneMore, 2 + 1 = 3, 2 \in 0 .. 3
    <3>2. QED
      BY <2>1, <2>3, <3>1, RunMovesTold, MoreTraces DEF Ok, Done
  <2>4. QED
    BY <1>14, <2>2, <2>3 DEF Resolve
<1>15. CASE Review(r)
  <2>1. stage[r] = "risk" /\ (r \in FourRole => OkUpTo(traces[r], 3))
    BY <1>2, <1>15 DEF Review, Done
  <2>2. CASE /\ Finish(r, EscalateWith("RISK_REVIEW_FAILED"))
             /\ Add(r, <<Trace(Role[4], "escalated", "RISK_REVIEW_FAILED")>>)
    BY <2>1, <2>2, ReviewTells, RunEndsTold, MoreTraces

  <2>3. CASE Finish(r, Proceed(Refs(r))) /\ Add(r, <<Trace(Role[4], "ok", "none")>>)
    BY <2>1, <2>3, ReviewTells, RunEndsTold, MoreTraces DEF Ok
  <2>4. QED
    BY <1>15, <2>2, <2>3 DEF Review
<1>16. QED
  BY <1>1, <1>3, <1>4, <1>6, <1>7, <1>8, <1>9, <1>10, <1>11, <1>13, <1>14, <1>15 DEF AgentStep

-----------------------------------------------------------------------------
(* The theorems *)

LEMMA EvidenceAlways == EvidenceSpec => [](AgentInv /\ CallInv)
<1>1. EvidenceInit => AgentInv /\ CallInv
  <2> SUFFICES ASSUME EvidenceInit PROVE AgentInv /\ CallInv
    OBVIOUS
  <2>1. CallInv
    BY DEF EvidenceInit, PoolInit, CallInv, CallShape, OneRecordPerCall
  <2>2. RunShape
    BY DEF EvidenceInit, RunShape, Stage
  <2>3. \A r \in Run : RunInv(r)
    BY DEF EvidenceInit, RunInv, GoesOnRightly, NoResult, Informed
  <2>4. QED
    BY <2>1, <2>2, <2>3 DEF AgentInv
<1>2. AgentInv /\ CallInv /\ [EvidenceNext]_evidenceVars => AgentInv' /\ CallInv'
  <2> SUFFICES ASSUME AgentInv, CallInv, [EvidenceNext]_evidenceVars
               PROVE  AgentInv' /\ CallInv'
    OBVIOUS
  <2>1. ASSUME NEW r \in Run, AgentStep(r) PROVE AgentInv' /\ CallInv'
    BY <2>1, StepKeeps
  <2>2. CASE PoolStep /\ UNCHANGED agentVars
    BY <2>2, PoolStepOnce, CallsKeep DEF agentVars
  <2>3. CASE UNCHANGED evidenceVars
    BY <2>3, NoResponse, CallsKeep DEF evidenceVars, poolVars, agentVars
  <2>4. QED
    BY <2>1, <2>2, <2>3 DEF EvidenceNext
<1>3. QED
  BY <1>1, <1>2, PTL DEF EvidenceSpec

\* ToolRegistry.invoke: one record and one answer for each call, for any number of runs
\* and workers, however late a worker returns.
THEOREM CallsAreRecordedOnce == EvidenceSpec => []OneRecordPerCall
  BY EvidenceAlways, PTL DEF CallInv

\* Both orchestrations: a run goes on only on evidence, whatever its calls came to and
\* whoever shares the pool.
LEMMA EvidenceComesFirst == EvidenceSpec => []ProceedsOnEvidence
<1>1. AgentInv => ProceedsOnEvidence
  BY DEF AgentInv, RunInv, GoesOnRightly, ProceedsOnEvidence
<1>2. QED
  BY <1>1, EvidenceAlways, PTL

\* FourRoleOrchestrator.run: the four traces and the escalation tell the same story, for
\* any runs, and whatever each call and each stage came to.
LEMMA TracesAgree == EvidenceSpec => []TracesTellTheRun
<1>1. EvidenceInit => TracesInv
  <2> SUFFICES ASSUME EvidenceInit PROVE TracesInv
    OBVIOUS
  <2>1. OkUpTo(<<>>, 0)
    BY DEF OkUpTo
  <2>2. QED
    BY <2>1 DEF EvidenceInit, TracesInv, TraceInv, Done, NoResult
<1>2. AgentInv /\ CallInv /\ TracesInv /\ [EvidenceNext]_evidenceVars => TracesInv'
  <2> SUFFICES ASSUME AgentInv, CallInv, TracesInv, [EvidenceNext]_evidenceVars
               PROVE  TracesInv'
    OBVIOUS
  <2>1. ASSUME NEW r \in Run, AgentStep(r) PROVE TracesInv'
    BY <2>1, TracesKeep
  <2>2. CASE UNCHANGED agentVars
    BY <2>2 DEF agentVars, TracesInv, TraceInv
  <2>3. QED
    BY <2>1, <2>2 DEF EvidenceNext, evidenceVars
<1>3. TracesInv => TracesTellTheRun
  BY DEF TracesInv, TraceInv, Tell, TracesTellTheRun
<1>4. QED
  BY <1>1, <1>2, <1>3, EvidenceAlways, PTL DEF EvidenceSpec

\* Both orchestrations: what a finished run reports is what happened, and it goes on only
\* with evidence, whatever each call and each stage came to and whoever shares the pool.
THEOREM AgentsStayInOrder == EvidenceSpec => []AgentsInOrder
  BY EvidenceComesFirst, TracesAgree, PTL DEF AgentsInOrder
=============================================================================
