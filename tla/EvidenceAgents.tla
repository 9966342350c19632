---------------------------- MODULE EvidenceAgents ----------------------------
(***************************************************************************)
(* The two orchestrations that may replace the node gather_evidence: three  *)
(* read-only sub-agents (subagents.py) and four roles in a row              *)
(* (multiagent.py).  Runs of both share the worker pool of ToolPool.        *)
(***************************************************************************)
EXTENDS ToolPool

CONSTANT FourRole  \* the runs whose runner was built with orchestration="four-role"

VARIABLES
  store,         \* store[r]: the three sub-agents were given a policy store
  stage,         \* stage[r]: the step r is at
  seen,          \* seen[r]: what the order tool's data said: the status
  traces,        \* traces[r]: the trace entries of the four roles
  result         \* result[r]: the update the node returns

agentVars == <<store, stage, seen, traces, result>>
evidenceVars == <<poolVars, agentVars>>

Stage == {"start", "parallel", "order", "history", "policy", "plan", "resolve", "risk",
          "end"}

Role == <<"triage-agent", "evidence-agent", "resolution-agent", "risk-reviewer">>
TraceStatus == {"ok", "error", "skipped", "escalated"}

\* reason is the code of the escalation (reject_reason); for a blocked review it lists
\* the codes of the findings, which stand for RISK_REVIEW_FAILED here
Trace(role, status, reason) == [role |-> role, status |-> status, reason |-> reason]
Skipped(from, reason) ==
  [i \in 1 .. 5 - from |-> Trace(Role[from + i - 1], "skipped", reason)]

\* kind: an update that lets the workflow go on to plan, one that escalates, or an
\* exception that leaves the node
NoResult == [kind |-> "none", code |-> "none", refs |-> {}]
Proceed(refs) == [kind |-> "proceed", code |-> "none", refs |-> refs]
EscalateWith(code) == [kind |-> "escalate", code |-> code, refs |-> {}]
Raise == [kind |-> "raise", code |-> "none", refs |-> {}]

Move(r, to) == stage' = [stage EXCEPT ![r] = to]
Finish(r, res) == Move(r, "end") /\ result' = [result EXCEPT ![r] = res]
Add(r, ts) == traces' = [traces EXCEPT ![r] = @ \o ts]

Answered(r, tool) == answer[<<r, tool>>] # "none"
Said(r, tool, a) == answer[<<r, tool>>] = a
Fixed == UNCHANGED store

\* What the evidence cites: a failed history call looks like an empty history.
Refs(r) ==
  {"order"} \cup (IF Said(r, "list_customer_tickets", "ok") THEN {"history"} ELSE {})
            \cup (IF Said(r, "retrieve_policy", "ok") THEN {"policy"} ELSE {})

-----------------------------------------------------------------------------
(* Both: an incomplete request, and the calls *)

\* the fields that parse should have asked for
Incomplete(r) == {"MISSING_ORDER_ID"} \cup
  (IF r \in FourRole THEN {"MISSING_REQUIRED_FIELD"} ELSE {})

RefuseIncomplete(r) ==
  /\ stage[r] = "start"
  /\ \E code \in Incomplete(r) :
       /\ Finish(r, EscalateWith(code))
       /\ IF r \in FourRole
          THEN Add(r, Skipped(1, code))
          ELSE UNCHANGED traces
  /\ UNCHANGED <<poolVars, seen>> /\ Fixed

\* the calls an agent makes at a stage; those of "parallel" run side by side
Wanted(r) ==
  CASE stage[r] = "parallel" ->
         IF store[r] THEN {"get_order", "retrieve_policy"} ELSE {"get_order"}
    [] stage[r] = "order" -> {"get_order"}
    [] stage[r] = "history" -> {"list_customer_tickets"}
    [] stage[r] = "policy" -> {"retrieve_policy"}
    [] OTHER -> {}

CallTool(r) ==
  /\ \E tool \in Wanted(r) : Invoke(<<r, tool>>)
  /\ UNCHANGED agentVars

HaveAll(r) == Wanted(r) # {} /\ \A tool \in Wanted(r) : Answered(r, tool)

\* what get_order's data says of the order
ReadOrder(r) == \E s \in {"open", "closed"} : seen' = [seen EXCEPT ![r] = s]

-----------------------------------------------------------------------------
(* Three sub-agents *)

Supervise(r) ==
  /\ r \notin FourRole /\ stage[r] = "start"
  /\ Move(r, "parallel")
  /\ UNCHANGED <<poolVars, seen, traces, result>> /\ Fixed

\* leaving the "with" block waits for both calls
Join(r) ==
  /\ stage[r] = "parallel" /\ HaveAll(r)
  /\ IF Said(r, "get_order", "ok")
     THEN Move(r, "history") /\ ReadOrder(r) /\ UNCHANGED result
     ELSE Finish(r, EscalateWith(answer[<<r, "get_order">>])) /\ UNCHANGED seen
  /\ UNCHANGED <<poolVars, traces>> /\ Fixed

\* any failure of history or policy is an empty answer, or a note
Assemble(r) ==
  /\ r \notin FourRole /\ stage[r] = "history" /\ HaveAll(r)
  /\ Finish(r, Proceed(Refs(r)))
  /\ UNCHANGED <<poolVars, seen, traces>> /\ Fixed

-----------------------------------------------------------------------------
(* Four roles *)

\* The triage's content guard also reads the order number; its error is not caught.
Triage(r) ==
  /\ r \in FourRole /\ stage[r] = "start"
  /\ \/ Move(r, "order") /\ Add(r, <<Trace(Role[1], "ok", "none")>>) /\ UNCHANGED result
     \/ Finish(r, Raise) /\ UNCHANGED traces
  /\ UNCHANGED <<poolVars, seen>> /\ Fixed

EvidenceFails(r, code) ==
  /\ Finish(r, EscalateWith(code))
  /\ Add(r, <<Trace(Role[2], "error", code)>> \o Skipped(3, code))

OrderChecked(r) ==
  /\ stage[r] = "order" /\ HaveAll(r)
  /\ IF Said(r, "get_order", "ok")
     THEN Move(r, "history") /\ ReadOrder(r) /\ UNCHANGED <<traces, result>>
     ELSE EvidenceFails(r, answer[<<r, "get_order">>]) /\ UNCHANGED seen
  /\ UNCHANGED poolVars /\ Fixed

HistoryRead(r) ==
  /\ r \in FourRole /\ stage[r] = "history" /\ HaveAll(r)
  /\ Move(r, "policy")
  /\ UNCHANGED <<poolVars, seen, traces, result>> /\ Fixed

\* only an injected request stops the run here
PolicyRead(r) ==
  /\ stage[r] = "policy" /\ HaveAll(r)
  /\ IF Said(r, "retrieve_policy", "INJECTION_DETECTED")
     THEN EvidenceFails(r, "POLICY_INJECTION_DETECTED")
     ELSE /\ Move(r, "plan")
          /\ Add(r, <<Trace(Role[2], "ok", "none")>>)
          /\ UNCHANGED result
  /\ UNCHANGED <<poolVars, seen>> /\ Fixed

\* mutant: a review that never took place has no trace
ResolutionFailsAlone(r, code) ==
  /\ Finish(r, EscalateWith(code))
  /\ Add(r, <<Trace(Role[3], "error", code)>>)

ResolutionFails(r, code) ==
  /\ Finish(r, EscalateWith(code))
  /\ Add(r, <<Trace(Role[3], "error", code)>> \o Skipped(4, code))

\* compute_refund_plan of the domain, with the error code of the domain; an error of
\* another kind, such as the database's, is not caught
PlanRefund(r) ==
  /\ stage[r] = "plan"
  /\ \/ Move(r, "resolve") /\ UNCHANGED <<traces, result>>
     \/ ResolutionFails(r, "DOMAIN")
     \/ Finish(r, Raise) /\ UNCHANGED traces
  /\ UNCHANGED <<poolVars, seen>> /\ Fixed

\* the resolution, whose output its content guard may refuse
Resolve(r) ==
  /\ stage[r] = "resolve"
  /\ \/ Move(r, "risk") /\ Add(r, <<Trace(Role[3], "ok", "none")>>) /\ UNCHANGED result
     \/ ResolutionFails(r, "ROLE_OUTPUT_POLICY_VIOLATION")
  /\ UNCHANGED <<poolVars, seen>> /\ Fixed

\* The review of what this orchestrator hands to it: tenant, amount source, policy and
\* order reference are its own and cannot differ; a citation that was just found is
\* valid.  What remains is the order's status and the intent.
Blocking(r, intent) == seen[r] = "closed" \/ intent # "refund"

Review(r) ==
  /\ stage[r] = "risk"
  /\ \E intent \in {"refund", "other"} :
       IF Blocking(r, intent)
       THEN /\ Finish(r, EscalateWith("RISK_REVIEW_FAILED"))
            /\ Add(r, <<Trace(Role[4], "escalated", "RISK_REVIEW_FAILED")>>)
       ELSE /\ Finish(r, Proceed(Refs(r)))
            /\ Add(r, <<Trace(Role[4], "ok", "none")>>)
  /\ UNCHANGED <<poolVars, seen>> /\ Fixed

-----------------------------------------------------------------------------
AgentStep(r) ==
  \/ RefuseIncomplete(r) \/ CallTool(r)
  \/ Supervise(r) \/ Join(r) \/ Assemble(r)
  \/ Triage(r) \/ OrderChecked(r) \/ HistoryRead(r) \/ PolicyRead(r)
  \/ PlanRefund(r) \/ Resolve(r) \/ Review(r)

EvidenceInit ==
  /\ PoolInit
  /\ store \in {s \in [Run -> BOOLEAN] : \A r \in FourRole : s[r]}
  /\ stage = [r \in Run |-> "start"]
  /\ seen = [r \in Run |-> "none"]
  /\ traces = [r \in Run |-> <<>>]
  /\ result = [r \in Run |-> NoResult]

EvidenceNext ==
  \/ \E r \in Run : AgentStep(r)
  \/ PoolStep /\ UNCHANGED agentVars

EvidenceSpec == EvidenceInit /\ [][EvidenceNext]_evidenceVars

-----------------------------------------------------------------------------
(* Properties *)

\* FourRoleOrchestrator.run: a finished run has one trace for each role, in order; the
\* workflow goes on only if all four are ok, and otherwise everything after the first
\* that is not was skipped for the reason of the escalation.
TracesTellTheRun ==
  \A r \in Run : LET ts == traces[r] IN
    r \in FourRole /\ result[r].kind \in {"proceed", "escalate"} =>
      /\ Len(ts) = 4
      /\ \A i \in 1 .. 4 : ts[i].role = Role[i]
      /\ (result[r].kind = "proceed") <=> \A i \in 1 .. 4 : ts[i].status = "ok"
      /\ \A i \in 1 .. 4 : ts[i].status # "ok" =>
           /\ ts[i].reason = result[r].code
           /\ \A j \in i + 1 .. 4 : ts[j].status = "skipped"

\* Both orchestrations: the workflow goes on only with an order the tool returned in
\* time, never with a closed one after a review, and cites only what was answered.
ProceedsOnEvidence ==
  \A r \in Run : result[r].kind = "proceed" =>
    /\ Said(r, "get_order", "ok")
    /\ r \in FourRole => seen[r] = "open"
    /\ "policy" \in result[r].refs => Said(r, "retrieve_policy", "ok")
    /\ "history" \in result[r].refs => Said(r, "list_customer_tickets", "ok")

\* Both orchestrations: however calls and stages fail, what a finished run reports is what
\* happened, and it goes on only with evidence.
AgentsInOrder == TracesTellTheRun /\ ProceedsOnEvidence

\* _EXECUTOR has four workers for all runs: even when hung tools hold every one of
\* them, every run comes to its end.
RunsEnd == \A r \in Run : <>(stage[r] = "end")
=============================================================================
