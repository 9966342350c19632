----------------------------- MODULE ModelGateway -----------------------------
(***************************************************************************)
(* One task given to the model gateway (router.py): the configured model    *)
(* behind its checks and retries (openai_compatible.py, base.py, config.py), *)
(* and the offline rules it degrades to (offline.py).                        *)
(***************************************************************************)
EXTENDS Integers

CONSTANTS Retries,  \* values of OPSPILOT_LLM_MAX_RETRIES; any integer is accepted
          Price     \* legal prices per 1000 tokens, in some unit

ASSUME RetriesAssumption == Retries \subseteq Int
ASSUME PriceAssumption == Price \subseteq Nat

VARIABLES
  setup,  \* the settings the gateway is built from
  env,    \* the three price variables of the environment
  task,   \* the task and what its inputs are like
  mstep,  \* where run_task is
  posts,  \* HTTP requests sent for it
  last,   \* how the latest request ended
  reply   \* what run_task returned or raised

modelVars == <<setup, env, task, mstep, posts, last, reply>>

Setup == [given : {"none", "explicit", "auto"}, safe : BOOLEAN, retries : Retries]
Unpriced == -1
Illegal == -2
PriceEnv == [{"input", "output", "legacy"} -> {Unpriced, Illegal} \cup Price]
Task == [highRisk : BOOLEAN, injected : BOOLEAN, overBudget : BOOLEAN]

\* the outcomes of one POST, the content of a good one included: "hidden" passes as
\* text and shows in the payload only; "odd" JSON has fields of an unexpected type
Retryable == {"timeout", "network"}
Refusing == {"http_429", "http_5xx", "http_other", "no_content", "forbidden",
             "not_json", "misfit", "hidden"}
Outcome == Retryable \cup Refusing \cup {"good", "odd"}

NoReply == [from |-> "none", degraded |-> FALSE, cost |-> Unpriced]
\* a ModelError or another exception that reaches the caller
Raised(kind) == [from |-> kind, degraded |-> FALSE, cost |-> Unpriced]
Offline(degraded) == [from |-> "offline", degraded |-> degraded, cost |-> Unpriced]

-----------------------------------------------------------------------------
(* Prices (load_llm_settings, cost_breakdown) *)

\* _parse_price: neither a missing nor an illegal price counts
Parsed(v) == IF env[v] \in Price THEN env[v] ELSE Unpriced

\* the new variable first, the old one for the input only
InputPrice == IF Parsed("input") # Unpriced THEN Parsed("input") ELSE Parsed("legacy")
OutputPrice == Parsed("output")

\* mutant: a price that is not configured costs nothing
TotalWithZero ==
  (IF InputPrice = Unpriced THEN 0 ELSE InputPrice) + (IF OutputPrice = Unpriced THEN 0 ELSE OutputPrice)

\* of a request with 1000 tokens in and out
Total == IF InputPrice = Unpriced \/ OutputPrice = Unpriced THEN Unpriced
         ELSE InputPrice + OutputPrice

-----------------------------------------------------------------------------
Goto(s) == mstep' = s
Keep == UNCHANGED <<setup, env, task>>
Reply(r) == Goto("done") /\ reply' = r

\* ModelGateway.__init__: explicit settings must be safe; settings from the environment
\* that are not leave the gateway offline.
Build ==
  /\ mstep = "build"
  /\ IF setup.given = "explicit" /\ ~ setup.safe
     THEN Reply(Raised("config_error"))
     ELSE Goto("route") /\ UNCHANGED reply
  /\ UNCHANGED <<posts, last>> /\ Keep

HasPrimary == setup.given # "none" /\ setup.safe

Route ==
  /\ mstep = "route"
  /\ CASE task.highRisk -> Reply(Raised("policy_error"))
       [] ~ task.highRisk /\ HasPrimary -> Goto("check") /\ UNCHANGED reply
       [] OTHER -> Reply(Offline(FALSE))
  /\ UNCHANGED <<posts, last>> /\ Keep

\* injected evidence and an exhausted budget refuse the request before it is sent
Check ==
  /\ mstep = "check"
  /\ IF task.injected \/ task.overBudget THEN Goto("degrade") ELSE Goto("post")
  /\ UNCHANGED <<posts, last, reply>> /\ Keep

\* the loop's test; with a negative limit it is never entered, and the assertion after
\* the loop fails
Exhausted ==
  /\ mstep = "post" /\ posts > setup.retries
  /\ Reply(Raised("exception"))
  /\ UNCHANGED <<posts, last>> /\ Keep

\* only a timeout and a network failure are tried again
Again(o) == o \in Retryable /\ posts < setup.retries

Post ==
  /\ mstep = "post" /\ posts <= setup.retries
  /\ posts' = posts + 1
  /\ \E o \in Outcome :
       /\ last' = o
       /\ CASE Again(o) -> Goto("post") /\ UNCHANGED reply
            [] o = "good" ->
                 Reply([from |-> "primary", degraded |-> FALSE, cost |-> Total])
            [] o = "odd" -> Reply(Raised("exception"))
            [] OTHER -> Goto("degrade") /\ UNCHANGED reply
  /\ Keep

\* mutant: a timeout that outlasts the retries is passed on
DegradeButTimeouts ==
  /\ mstep = "degrade"
  /\ IF last = "timeout" THEN Reply(Raised("exception")) ELSE Reply(Offline(TRUE))
  /\ UNCHANGED <<posts, last>> /\ Keep

\* any ModelError of the client: the offline rules answer instead
Degrade ==
  /\ mstep = "degrade"
  /\ Reply(Offline(TRUE))
  /\ UNCHANGED <<posts, last>> /\ Keep

ModelInit ==
  /\ setup \in Setup
  /\ env \in PriceEnv
  /\ task \in Task
  /\ mstep = "build" /\ posts = 0 /\ last = "none" /\ reply = NoReply

ModelNext == Build \/ Route \/ Check \/ Exhausted \/ Post \/ Degrade

ModelSpec == ModelInit /\ [][ModelNext]_modelVars

-----------------------------------------------------------------------------
(* Properties *)

\* OpenAICompatibleClient.invoke: nothing is sent for a high-risk task, with unsafe
\* settings, with injected documents or over the budget, and a task sends one request
\* and its retries at most, none after an answer that is not worth repeating.
SentIsChecked ==
  /\ posts > 0 => ~ task.highRisk /\ setup.safe /\ ~ task.injected /\ ~ task.overBudget
  /\ posts > 0 => posts <= setup.retries + 1
  /\ mstep = "post" /\ posts > 0 => last \in Retryable

\* ModelGateway.run_task: the caller can tell where a reply comes from.  It is the
\* model's only if the last request was good; an offline reply is marked degraded
\* exactly if there is a model that was not used; a price that is not configured never
\* shows as a cost.
ReplyIsHonest ==
  /\ reply.from = "primary" => last = "good" /\ HasPrimary
  /\ reply.from = "offline" => (reply.degraded <=> HasPrimary) /\ last # "good"
  /\ reply.cost # Unpriced =>
       /\ reply.from = "primary"
       /\ {env["input"], env["legacy"]} \cap Price # {} /\ env["output"] \in Price

\* OpenAICompatibleClient, ModelGateway: only what was checked is sent, and a reply says
\* where it comes from.
GatewayInOrder == SentIsChecked /\ ReplyIsHonest

\* run_task: every low-risk task is answered, whatever the network does, unless the
\* limit of retries is negative or the body has fields of an unexpected type.
LowRiskAnswered ==
  mstep = "build" /\ ~ task.highRisk /\ ~ (setup.given = "explicit" /\ ~ setup.safe)
    ~> \/ reply.from \in {"primary", "offline"}
       \/ reply.from = "exception" /\ (setup.retries < 0 \/ last = "odd")
=============================================================================
