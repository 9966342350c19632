------------------------------- MODULE MCPlatform -------------------------------
(***************************************************************************)
(* The platform parts, one at a time: the initial states are those of every  *)
(* part, each with the others at rest, and a behaviour is one of that part.   *)
(***************************************************************************)
EXTENDS EvidenceAgents, ModelGateway, Breaker, MemRepository, KnowledgeStore, ThreadKeys,
        PolicyMatch, ApiDesk, AuditIds, Intake, LeaseTable, TLC

VARIABLE part

vars == <<evidenceVars, modelVars, breakerVars, repoVars, storeVars, keyVars, ruleVars, deskVars,
          auditVars, intakeVars, leaseVars, part>>

\* constants that a .cfg cannot write
RetryLimits == {-1, 0, 2}
Amounts == [o \in OpId |-> IF o = CHOOSE x \in OpId : TRUE THEN 1 ELSE 2]
Contents == {<<"refund">>, <<"injection", "refund">>, <<"refund", "other">>}

\* two versions of one policy, another policy, and another tenant; the last two may share
\* the ids of their chunks
Documents == {<< <<"a">>, <<"c">>, 1>>, << <<"a">>, <<"c">>, 2>>,
              << <<"a">>, <<"b", ":", "c">>, 1>>, << <<"a", ":", "b">>, <<"c">>, 1>>}
Pairs == {<< <<"a">>, <<"b", ":", "c">> >>, << <<"a", ":", "b">>, <<"c">> >>,
          << <<"a">>, <<"b", "|", "c">> >>, << <<"a", "|", "b">>, <<"c">> >>}
Decimals == [n \in 0 .. 9 |-> <<ToString(n)>>]

\* the tokens of run_api.py, and a second agent
People == {"agent-1", "agent-3", "approver-1", "system-1", "cust-1", "agent-2"}
Who(tenant, role, customer) == [tenant |-> tenant, role |-> role, customer |-> customer]
Identities ==
  [p \in People |->
     CASE p \in {"agent-1", "agent-3"} -> Who("T1", "agent", "none")
       [] p = "approver-1" -> Who("T1", "approver", "none")
       [] p = "system-1" -> Who("T1", "system", "none")
       [] p = "cust-1" -> Who("T1", "customer", "C1")
       [] p = "agent-2" -> Who("T2", "agent", "none")]

\* A part at rest is in one of its initial states, always the same.
EvidenceRest == EvidenceInit /\ store = [r \in Run |-> TRUE]
ModelRest ==
  /\ ModelInit
  /\ setup = [given |-> "none", safe |-> TRUE, retries |-> 0]
  /\ env = [v \in {"input", "output", "legacy"} |-> Unpriced]
  /\ task = [highRisk |-> FALSE, injected |-> FALSE, overBudget |-> FALSE]
DeskRest == DeskInit /\ backend = "memory"
KeyRest == KeyInit /\ \A key \in Key : saver[key] = None

Init ==
  /\ part \in {"evidence", "model", "breaker", "repository", "knowledge", "keys", "rules",
               "desk", "audit", "intake", "leases"}
  /\ IF part = "evidence" THEN EvidenceInit ELSE EvidenceRest
  /\ IF part = "model" THEN ModelInit ELSE ModelRest
  /\ IF part = "keys" THEN KeyInit ELSE KeyRest
  /\ IF part = "desk" THEN DeskInit ELSE DeskRest
  /\ BreakerInit /\ RepoInit /\ StoreInit /\ RulesInit /\ AuditInit /\ IntakeInit /\ LeaseInit

\* a step of one part leaves the others at rest
InEvidence(A) ==
  /\ part = "evidence" /\ A
  /\ UNCHANGED <<modelVars, breakerVars, repoVars, storeVars, keyVars, ruleVars, deskVars,
                  auditVars, intakeVars, leaseVars, part>>
InModel(A) ==
  /\ part = "model" /\ A
  /\ UNCHANGED <<evidenceVars, breakerVars, repoVars, storeVars, keyVars, ruleVars, deskVars,
                  auditVars, intakeVars, leaseVars, part>>
Next ==
  \/ InEvidence(EvidenceNext)
  \/ InModel(ModelNext)
  \/ /\ part = "breaker" /\ BreakerNext
     /\ UNCHANGED <<evidenceVars, modelVars, repoVars, storeVars, keyVars, ruleVars, deskVars,
                     auditVars, intakeVars, leaseVars, part>>
  \/ /\ part = "repository" /\ RepoNext
     /\ UNCHANGED <<evidenceVars, modelVars, breakerVars, storeVars, keyVars, ruleVars,
                     deskVars, auditVars, intakeVars, leaseVars, part>>
  \/ /\ part = "knowledge" /\ StoreNext
     /\ UNCHANGED <<evidenceVars, modelVars, breakerVars, repoVars, keyVars, ruleVars,
                     deskVars, auditVars, intakeVars, leaseVars, part>>
  \/ /\ part = "keys" /\ KeyNext
     /\ UNCHANGED <<evidenceVars, modelVars, breakerVars, repoVars, storeVars, ruleVars,
                     deskVars, auditVars, intakeVars, leaseVars, part>>
  \/ /\ part = "rules" /\ RulesNext
     /\ UNCHANGED <<evidenceVars, modelVars, breakerVars, repoVars, storeVars, keyVars,
                     deskVars, auditVars, intakeVars, leaseVars, part>>
  \/ /\ part = "desk" /\ DeskNext
     /\ UNCHANGED <<evidenceVars, modelVars, breakerVars, repoVars, storeVars, keyVars,
                     ruleVars, auditVars, intakeVars, leaseVars, part>>
  \/ /\ part = "audit" /\ AuditNext
     /\ UNCHANGED <<evidenceVars, modelVars, breakerVars, repoVars, storeVars, keyVars,
                     ruleVars, deskVars, intakeVars, leaseVars, part>>
  \/ /\ part = "intake" /\ IntakeNext
     /\ UNCHANGED <<evidenceVars, modelVars, breakerVars, repoVars, storeVars, keyVars,
                     ruleVars, deskVars, auditVars, leaseVars, part>>
  \/ /\ part = "leases" /\ LeaseNext
     /\ UNCHANGED <<evidenceVars, modelVars, breakerVars, repoVars, storeVars, keyVars,
                     ruleVars, deskVars, auditVars, intakeVars, part>>

Spec == Init /\ [][Next]_vars

\* A run's thread goes on and the timers of its calls fire, while a worker may hang for
\* ever; run_task goes on.
Fairness ==
  /\ \A r \in Run : WF_vars(InEvidence(AgentStep(r)))
  /\ \A c \in Call : WF_vars(InEvidence(TimeOut(c) /\ UNCHANGED agentVars))
  /\ WF_vars(InModel(ModelNext))

FairSpec == Spec /\ Fairness

-----------------------------------------------------------------------------
(* Properties *)

\* RunsEnd of EvidenceAgents and LowRiskAnswered of ModelGateway are about the
\* behaviours of their own part.
AgentRunsEnd == part = "evidence" => RunsEnd
TasksAnswered == part = "model" => LowRiskAnswered
=============================================================================
