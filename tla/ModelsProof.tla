----------------------------- MODULE ModelsProof -----------------------------
(***************************************************************************)
(* What the agent consults: the circuit breaker (Breaker), the model behind   *)
(* its gateway (ModelGateway) and the rules that decide an amount             *)
(* (PolicyMatch), for any values of their constants.                          *)
(***************************************************************************)
EXTENDS Breaker, ModelGateway, PolicyMatch, FiniteSetTheorems, TLAPS

-----------------------------------------------------------------------------
(* Breaker *)

\* The variables keep their types.
THEOREM BreakerTypes == BreakerSpec => []BreakerTypeOK
<1>1. BreakerInit => BreakerTypeOK
  BY DEF BreakerInit, BreakerTypeOK, State, Clock
<1>2. BreakerTypeOK /\ [BreakerNext]_breakerVars => BreakerTypeOK'
  <2> SUFFICES ASSUME BreakerTypeOK, [BreakerNext]_breakerVars
               PROVE  BreakerTypeOK'
    OBVIOUS
  <2> USE DEF BreakerTypeOK, State, Clock
  <2>1. ASSUME NEW c \in Caller, Admit(c) \/ Look(c) \/ Undue(c) PROVE BreakerTypeOK'
    BY <2>1 DEF Admit, Look, Undue
  <2>2. CASE Elapse
    BY <2>2 DEF Elapse
  <2>3. CASE Reset
    BY <2>3 DEF Reset
  <2>4. ASSUME NEW c \in Caller, HalfOpen(c) PROVE BreakerTypeOK'
    BY <2>4 DEF HalfOpen
  <2>5. ASSUME NEW c \in Caller, Succeed(c) PROVE BreakerTypeOK'
    BY <2>5 DEF Succeed
  <2>6. ASSUME NEW c \in Caller, Fail(c) PROVE BreakerTypeOK'
    BY <2>6 DEF Fail
  <2>7. ASSUME NEW c \in Caller, Stamp(c) PROVE BreakerTypeOK'
    BY <2>7 DEF Stamp
  <2>8. CASE UNCHANGED breakerVars
    BY <2>8 DEF breakerVars
  <2>9. QED
    BY <2>1, <2>2, <2>3, <2>4, <2>5, <2>6, <2>7, <2>8 DEF BreakerNext
<1>3. QED
  BY <1>1, <1>2, PTL DEF BreakerSpec

\* The count is the failures' and the successes' alone; a thread about to note the time
\* vouches for an open breaker until it has noted it; only reset takes the time away.
LEMMA ConsistentStep ==
  ASSUME BreakerTypeOK, BreakerConsistent, [BreakerNext]_breakerVars
  PROVE  BreakerConsistent'
<1> USE ThresholdAssumption DEF BreakerTypeOK, BreakerConsistent, State, Clock
<1>1. ASSUME NEW c \in Caller, Admit(c) \/ Look(c) \/ Undue(c) PROVE BreakerConsistent'
  <2>1. caller[c] # "stamping" /\ \A d \in Caller \ {c} : caller'[d] = caller[d]
    BY <1>1 DEF Admit, Look, Undue
  <2>2. QED
    BY <1>1, <2>1 DEF Admit, Look, Undue
<1>2. CASE Elapse
  BY <1>2 DEF Elapse
<1>3. CASE Reset
  BY <1>3 DEF Reset
<1>4. ASSUME NEW c \in Caller, HalfOpen(c) PROVE BreakerConsistent'
  BY <1>4 DEF HalfOpen
<1>5. ASSUME NEW c \in Caller, Succeed(c) PROVE BreakerConsistent'
  BY <1>5 DEF Succeed
<1>6. ASSUME NEW c \in Caller, Fail(c) PROVE BreakerConsistent'
  <2>1. CASE failures + 1 >= Threshold
    <3>1. caller'[c] = "stamping" /\ state' = "open" /\ failures' >= Threshold
      BY <1>6, <2>1 DEF Fail
    <3>2. QED
      BY <3>1, <1>6 DEF Fail
  <2>2. CASE ~(failures + 1 >= Threshold)
    \* fewer failures than the threshold: the breaker is not open, and stays so
    <3>1. state # "open" /\ state' = state /\ failures' < Threshold /\ openedAt' = openedAt
      BY <1>6, <2>2 DEF Fail
    <3>2. QED
      BY <3>1
  <2>3. QED
    BY <2>1, <2>2
<1>7. ASSUME NEW c \in Caller, Stamp(c) PROVE BreakerConsistent'
  BY <1>7 DEF Stamp
<1>8. CASE UNCHANGED breakerVars
  BY <1>8 DEF breakerVars
<1>9. QED
  BY <1>1, <1>2, <1>3, <1>4, <1>5, <1>6, <1>7, <1>8 DEF BreakerNext

\* CircuitBreaker: BreakerConsistent for any number of threads and any threshold.
THEOREM BreakerStaysConsistent == BreakerSpec => []BreakerConsistent
<1>1. BreakerInit => BreakerConsistent
  BY ThresholdAssumption DEF BreakerInit, BreakerConsistent
<1>2. QED
  BY <1>1, BreakerTypes, ConsistentStep, PTL DEF BreakerSpec

-----------------------------------------------------------------------------
(* ModelGateway: how far the task has come says what has been checked *)

Untouched == posts = 0 /\ last = "none" /\ reply = NoReply

Passed == ~ task.highRisk /\ HasPrimary

GatewayInv ==
  /\ setup \in Setup /\ posts \in Nat
  /\ mstep \in {"build", "route", "check", "post", "degrade", "done"}
  /\ mstep \in {"build", "route", "check"} => Untouched
  /\ mstep = "route" => (setup.given = "explicit" => setup.safe)
  /\ mstep \in {"check", "post", "degrade"} => Passed
  /\ mstep = "post" => ~ task.injected /\ ~ task.overBudget
  /\ mstep \in {"post", "degrade"} => reply = NoReply /\ last # "good"

LEMMA TotalIsConfigured ==
  ASSUME Total # Unpriced
  PROVE  {env["input"], env["legacy"]} \cap Price # {} /\ env["output"] \in Price
  BY PriceAssumption DEF Total, InputPrice, OutputPrice, Parsed, Unpriced

LEMMA GatewayStep ==
  ASSUME GatewayInv, GatewayInOrder, ModelNext
  PROVE  GatewayInv' /\ GatewayInOrder'
<1> USE RetriesAssumption DEF GatewayInv, Setup, Goto, Reply, Keep
<1>1. CASE Build
  BY <1>1 DEF Build, Untouched, GatewayInOrder, SentIsChecked, ReplyIsHonest, Raised, NoReply, Unpriced
<1>2. CASE Route
  BY <1>2 DEF Route, Untouched, Passed, HasPrimary, GatewayInOrder, SentIsChecked, ReplyIsHonest,
              Raised, Offline, NoReply, Unpriced
<1>3. CASE Check
  BY <1>3 DEF Check, Untouched, Passed, HasPrimary, GatewayInOrder, SentIsChecked, ReplyIsHonest,
              NoReply, Unpriced
<1>4. CASE Exhausted
  BY <1>4 DEF Exhausted, Passed, HasPrimary, GatewayInOrder, SentIsChecked, ReplyIsHonest,
              Raised, Unpriced
<1>5. CASE Post
  <2>1. PICK o \in Outcome :
          /\ posts <= setup.retries /\ posts' = posts + 1 /\ last' = o
          /\ \/ Again(o) /\ mstep' = "post" /\ UNCHANGED reply
             \/ /\ o = "good" /\ mstep' = "done"
                /\ reply' = [from |-> "primary", degraded |-> FALSE, cost |-> Total]
             \/ o = "odd" /\ mstep' = "done" /\ reply' = Raised("exception")
             \/ o \notin {"good", "odd"} /\ mstep' = "degrade" /\ UNCHANGED reply
    BY <1>5 DEF Post, Again, Retryable
  <2>2. /\ mstep = "post" /\ Passed /\ ~ task.injected /\ ~ task.overBudget /\ reply = NoReply
        /\ UNCHANGED <<setup, env, task>>
    BY <1>5 DEF Post
  <2>3. SentIsChecked'
    <3>0. posts \in Nat /\ setup.retries \in Int
      OBVIOUS
    <3>1. posts' > 0 /\ posts' <= setup.retries + 1
      BY <2>1, <3>0
    <3>2. ~ task'.highRisk /\ setup'.safe /\ ~ task'.injected /\ ~ task'.overBudget
      BY <2>2 DEF Passed, HasPrimary
    <3>3. mstep' = "post" => last' \in Retryable
      BY <2>1 DEF Again
    <3> QED
      BY <2>2, <3>1, <3>2, <3>3 DEF SentIsChecked
  <2>4. ReplyIsHonest'
    <3>1. CASE o = "good" /\ reply' = [from |-> "primary", degraded |-> FALSE, cost |-> Total]
      BY <2>1, <2>2, <3>1, TotalIsConfigured DEF ReplyIsHonest, Passed, HasPrimary
    <3>2. CASE reply' \in {NoReply, Raised("exception")}
      BY <3>2 DEF ReplyIsHonest, NoReply, Raised, Unpriced
    <3> QED
      BY <2>1, <2>2, <3>1, <3>2
  <2>5. GatewayInv'
    BY <2>1, <2>2 DEF Passed, HasPrimary, Again, Retryable
  <2> QED
    BY <2>3, <2>4, <2>5 DEF GatewayInOrder
<1>6. CASE Degrade
  BY <1>6 DEF Degrade, Passed, HasPrimary, GatewayInOrder, SentIsChecked, ReplyIsHonest,
              Offline, Unpriced
<1> QED
  BY <1>1, <1>2, <1>3, <1>4, <1>5, <1>6 DEF ModelNext

\* OpenAICompatibleClient, ModelGateway: only what was checked is sent, at most once and
\* the retries, and a reply says where it comes from, for any limits of retries and prices.
THEOREM GatewayStaysInOrder == ModelSpec => []GatewayInOrder
<1>1. ModelInit => GatewayInv /\ GatewayInOrder
  BY DEF ModelInit, GatewayInv, Untouched, GatewayInOrder, SentIsChecked, ReplyIsHonest,
         NoReply, Unpriced
<1>2. GatewayInv /\ GatewayInOrder /\ [ModelNext]_modelVars => (GatewayInv /\ GatewayInOrder)'
  <2> SUFFICES ASSUME GatewayInv, GatewayInOrder, UNCHANGED modelVars
               PROVE  GatewayInv' /\ GatewayInOrder'
    BY GatewayStep
  <2> QED
    BY DEF modelVars, GatewayInv, Setup, Untouched, Passed, HasPrimary, GatewayInOrder,
           SentIsChecked, ReplyIsHonest
<1> QED
  BY <1>1, <1>2, PTL DEF ModelSpec

-----------------------------------------------------------------------------
(* PolicyMatch *)

\* The loop: of the rows it has visited, the dictionary holds one of each policy, none
\* that does not fit, and one at least as new as every one that does.
Visited == rules \ todo
LoopInv ==
  /\ rules \subseteq Rule /\ todo \subseteq rules /\ latest \subseteq Visited
  /\ \A r, s \in rules : r.policy = s.policy /\ r.version = s.version => r = s
  /\ claim = NoClaim => latest = {} /\ todo = {} /\ verdict = "pending"
  /\ \A r, s \in latest : r.policy = s.policy => r = s
  /\ \A r \in latest : Fits(r, claim)
  /\ claim # NoClaim =>
       \A s \in Visited : Fits(s, claim) => \E x \in latest : x.policy = s.policy /\ x.version >= s.version

LEMMA VersionsAreNumbers == \A r \in Rule : r.version \in Nat
<1>1. ASSUME NEW r \in Rule PROVE r.version \in RuleVersion
  BY DEF Rule
<1> QED
  BY <1>1, RuleVersionAssumption

\* What the loop leaves is Newest.
LEMMA LoopEnds ==
  ASSUME LoopInv, claim # NoClaim, todo = {}
  PROVE  latest = Newest(claim)
<1> USE DEF LoopInv, Visited
<1>0. \A r \in rules : r.version \in Int
  BY VersionsAreNumbers
<1>1. ASSUME NEW r \in latest PROVE r \in Newest(claim)
  <2>0. r \in rules /\ Fits(r, claim)
    OBVIOUS
  <2>1. ASSUME NEW other \in rules, Fits(other, claim), other.policy = r.policy
        PROVE  other.version <= r.version
    <3>1. PICK x \in latest : x.policy = other.policy /\ x.version >= other.version
      BY <2>1
    <3>2. x = r
      BY <2>1, <3>1
    <3> QED
      BY <3>1, <3>2, <1>0
  <2> QED
    BY <2>0, <2>1 DEF Newest
<1>2. ASSUME NEW r \in Newest(claim) PROVE r \in latest
  <2>1. r \in rules /\ Fits(r, claim)
    BY DEF Newest
  <2>2. PICK x \in latest : x.policy = r.policy /\ x.version >= r.version
    BY <2>1
  <2>3. x.version <= r.version
    BY <2>2 DEF Newest
  <2>4. x.version = r.version
    BY <2>1, <2>2, <2>3, <1>0
  <2> QED
    BY <2>1, <2>2, <2>4
<1> QED
  BY <1>1, <1>2

\* One visit: a row that fits and is not outdated takes the place of its policy's.
LEMMA VisitStep ==
  ASSUME LoopInv, NEW r \in todo, Visit(r)
  PROVE  LoopInv'
<1> USE DEF LoopInv, Visited
<1>0. \A s \in rules : s.version \in Int
  BY VersionsAreNumbers
<1>1. /\ rules' = rules /\ claim' = claim /\ claim # NoClaim /\ todo' = todo \ {r}
      /\ verdict' = verdict /\ r \in rules /\ Visited' = Visited \cup {r}
  BY DEF Visit
<1>2. \A s : Fits(s, claim)' <=> Fits(s, claim)
  BY <1>1 DEF Fits
<1>3. CASE Fits(r, claim) /\ ~ Outdated(r)
  <2>1. latest' = {x \in latest : x.policy # r.policy} \cup {r}
    BY <1>3 DEF Visit
  <2>2. ASSUME NEW s \in Visited', Fits(s, claim)
        PROVE  \E x \in latest' : x.policy = s.policy /\ x.version >= s.version
    <3>1. CASE s.policy # r.policy
      <4>1. PICK x \in latest : x.policy = s.policy /\ x.version >= s.version
        BY <1>1, <2>2, <3>1
      <4> QED
        BY <2>1, <3>1, <4>1
    <3>2. CASE s = r
      BY <1>0, <1>1, <2>1, <3>2
    <3>3. CASE s.policy = r.policy /\ s # r
      <4>1. PICK x \in latest : x.policy = s.policy /\ x.version >= s.version
        BY <1>1, <2>2, <3>3
      <4>2. ~ (x.version >= r.version)
        BY <1>3, <3>3, <4>1 DEF Outdated
      <4>3. r.version >= s.version
        BY <1>0, <1>1, <4>1, <4>2
      <4> QED
        BY <2>1, <3>3, <4>3
    <3> QED
      BY <3>1, <3>2, <3>3
  <2> QED
    BY <1>1, <1>2, <1>3, <2>1, <2>2
<1>4. CASE ~ Fits(r, claim) \/ Outdated(r)
  <2>1. latest' = latest
    BY <1>4 DEF Visit
  <2>2. ASSUME NEW s \in Visited', Fits(s, claim)
        PROVE  \E x \in latest' : x.policy = s.policy /\ x.version >= s.version
    BY <1>1, <1>4, <2>1, <2>2 DEF Outdated
  <2> QED
    BY <1>1, <1>2, <2>1, <2>2
<1> QED
  BY <1>3, <1>4

\* The verdict was reached from Newest, and the rows stay as they were.
VerdictInv ==
  /\ NewestDecide
  /\ verdict # "pending" => claim # NoClaim /\ todo = {}

LEMMA DecideStep ==
  ASSUME LoopInv, VerdictInv, Decide
  PROVE  VerdictInv'
<1> DEFINE matched == MatchPolicies(Newest(claim), claim)
<1>1. latest = Newest(claim)
  BY LoopEnds DEF Decide
<1>2. MatchPolicies({r \in latest : r.window >= claim.days}, claim) = matched
  <2>1. \A r \in rules : r.window >= claim.days <=> claim.days <= r.window
    OBVIOUS
  <2> QED
    BY <1>1, <2>1 DEF MatchPolicies, Newest
<1>3. MatchPolicies(Newest(claim), claim)' = matched
  BY DEF Decide, MatchPolicies, Newest, Fits
<1>4. CASE matched = {}
  BY <1>2, <1>3, <1>4 DEF Decide, VerdictInv, NewestDecide, Agreed
<1>5. CASE matched # {}
  <2>1. PICK first \in matched :
          IF DetectConflict(first, matched)
          THEN verdict' = "conflict" /\ ratio' = ratio
          ELSE verdict' = "refund" /\ ratio' = first.ratio
    BY <1>2, <1>5 DEF Decide
  <2>2. DetectConflict(first, matched) <=> ~ Agreed(matched)
    BY DEF DetectConflict, Agreed
  <2>3. Agreed(matched) => \A r \in matched : r.ratio = first.ratio
    BY DEF Agreed
  <2> HIDE DEF matched
  <2>4. verdict' # "pending" /\ (verdict' = "not_found" <=> matched = {})
        /\ (verdict' = "conflict" <=> ~ Agreed(matched))
        /\ (verdict' = "refund" => \A r \in matched : ratio' = r.ratio)
    BY <1>5, <2>1, <2>2, <2>3
  <2>5. NewestDecide'
    BY <1>3, <2>4 DEF NewestDecide, Agreed
  <2> QED
    BY <2>5 DEF VerdictInv, Decide
<1> QED
  BY <1>4, <1>5

LEMMA RulesInvariant == RulesSpec => [](LoopInv /\ VerdictInv)
<1>1. RulesInit => LoopInv /\ VerdictInv
  BY DEF RulesInit, LoopInv, Visited, VerdictInv, NewestDecide
<1>2. LoopInv /\ VerdictInv /\ [RulesNext]_ruleVars => (LoopInv /\ VerdictInv)'
  <2> SUFFICES ASSUME LoopInv, VerdictInv, [RulesNext]_ruleVars
               PROVE  (LoopInv /\ VerdictInv)'
    OBVIOUS
  <2>1. ASSUME NEW rule \in Rule, InsertPolicy(rule) PROVE (LoopInv /\ VerdictInv)'
    <3>1. verdict' = "pending" /\ claim' = NoClaim /\ latest' = {} /\ todo' = {}
          /\ rules' = rules \cup {rule}
      BY <2>1 DEF InsertPolicy, LoopInv
    <3>2. \A r, s \in rules' : r.policy = s.policy /\ r.version = s.version => r = s
      BY <2>1 DEF InsertPolicy, LoopInv
    <3> QED
      BY <2>1, <3>1, <3>2 DEF LoopInv, Visited, VerdictInv, NewestDecide
  <2>2. ASSUME NEW c \in Claim, ListPolicies(c) PROVE (LoopInv /\ VerdictInv)'
    <3>1. verdict' = "pending" /\ claim' = c /\ latest' = {} /\ todo' = rules /\ rules' = rules
      BY <2>2 DEF ListPolicies, LoopInv
    <3> QED
      BY <2>2, <3>1, NoClaimAssumption DEF LoopInv, Visited, VerdictInv, NewestDecide
  <2>3. ASSUME NEW r \in todo, Visit(r) PROVE (LoopInv /\ VerdictInv)'
    <3>1. verdict' = "pending"
      BY <2>3 DEF Visit, VerdictInv
    <3> QED
      BY <2>3, <3>1, VisitStep DEF VerdictInv, NewestDecide
  <2>4. CASE Decide
    <3>1. LoopInv'
      BY <2>4 DEF Decide, LoopInv, Visited, Fits
    <3> QED
      BY <2>4, <3>1, DecideStep
  <2>5. CASE UNCHANGED ruleVars
    BY <2>5 DEF ruleVars, LoopInv, Visited, VerdictInv, NewestDecide, Newest, Fits,
                MatchPolicies, Agreed
  <2> QED
    BY <2>1, <2>2, <2>3, <2>4, <2>5 DEF RulesNext
<1> QED
  BY <1>1, <1>2, PTL DEF RulesSpec

\* For any stored rows and any order in which the loop meets them: the newest fitting
\* version of each policy decides, and no amount differs from the one the in-memory
\* service gives, where that gives one (_effective_policy_rows, match_policies,
\* detect_conflict).
THEOREM PoliciesAlwaysAgree == RulesSpec => []PoliciesAgree
<1>1. ASSUME LoopInv, VerdictInv PROVE PoliciesAgree
  <2>1. ASSUME verdict = "refund", Agreed(MatchPolicies(rules, claim)),
               NEW r \in MatchPolicies(rules, claim)
        PROVE  ratio = r.ratio
    <3>1. MatchPolicies(Newest(claim), claim) # {}
      BY <1>1, <2>1 DEF VerdictInv, NewestDecide
    <3>2. PICK chosen \in MatchPolicies(Newest(claim), claim) : ratio = chosen.ratio
      BY <1>1, <2>1, <3>1 DEF VerdictInv, NewestDecide
    <3>3. chosen \in MatchPolicies(rules, claim)
      BY DEF MatchPolicies, Newest
    <3> QED
      BY <2>1, <3>2, <3>3 DEF Agreed
  <2> QED
    BY <1>1, <2>1 DEF PoliciesAgree, SameAmount, VerdictInv
<1> QED
  BY <1>1, RulesInvariant, PTL
=============================================================================
