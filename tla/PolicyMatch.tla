------------------------------- MODULE PolicyMatch -------------------------------
(***************************************************************************)
(* Which policy decides a claim: compute_refund_plan of the PostgreSQL       *)
(* service, whose loop in _effective_policy_rows keeps the newest row of each *)
(* policy, and match_policies and detect_conflict, which the in-memory service *)
(* applies to all its policies.  One tenant and one request type; policies   *)
(* are only ever added, and list_policies reads them all at once, in an order *)
(* that a caller cannot rely on.                                             *)
(***************************************************************************)
EXTENDS Integers, FiniteSets

CONSTANTS PolicyId, RuleVersion,
          Tag,
          Window,    \* days a policy covers
          Ratio,     \* what it refunds, in percent
          Days,      \* since the order was signed for
          NoClaim,
          MaxRules   \* a bound of the model

ASSUME RatioAssumption == Ratio \subseteq 0 .. 100
ASSUME RuleVersionAssumption == RuleVersion \subseteq Nat

VARIABLES
  rules,    \* the stored rows
  claim,    \* the claim being decided
  todo,     \* the rows the loop has still to visit
  latest,   \* the values of its dictionary: at most one row of each policy
  verdict,  \* pending, refund, not_found or conflict
  ratio     \* of a refund

ruleVars == <<rules, claim, todo, latest, verdict, ratio>>

Rule == [policy : PolicyId, version : RuleVersion, tags : SUBSET Tag, window : Window,
         ratio : Ratio, future : BOOLEAN]
Claim == [tags : SUBSET Tag \ {{}}, days : Days]

ASSUME NoClaimAssumption == NoClaim \notin Claim

\* insert_policy: one row for a policy and version
InsertPolicy(rule) ==
  /\ claim = NoClaim
  /\ Cardinality(rules) < MaxRules
  /\ \A r \in rules : <<r.policy, r.version>> # <<rule.policy, rule.version>>
  /\ rules' = rules \cup {rule}
  /\ UNCHANGED <<claim, todo, latest, verdict, ratio>>

ListPolicies(c) ==
  /\ claim = NoClaim
  /\ claim' = c /\ todo' = rules
  /\ UNCHANGED <<rules, latest, verdict, ratio>>

\* in force, and the claim's tags cover the row's
Fits(r, c) == ~ r.future /\ r.tags \subseteq c.tags

\* mutant: the first row of a policy stays
FirstStays(r) == \E x \in latest : x.policy = r.policy

\* the dictionary has a row of this policy that is at least as new
Outdated(r) == \E x \in latest : x.policy = r.policy /\ x.version >= r.version

Visit(r) ==
  /\ claim # NoClaim /\ r \in todo
  /\ todo' = todo \ {r}
  /\ latest' = IF Fits(r, claim) /\ ~ Outdated(r)
               THEN {x \in latest : x.policy # r.policy} \cup {r}
               ELSE latest
  /\ UNCHANGED <<rules, claim, verdict, ratio>>

\* match_policies
MatchPolicies(policies, c) ==
  {r \in policies : r.tags \cap c.tags # {} /\ c.days <= r.window}

\* detect_conflict: the first against every other one
DetectConflict(first, matched) == \E other \in matched : other.ratio # first.ratio

\* compute_refund_plan: any of the matching rows may come first
Decide ==
  LET matched == MatchPolicies({r \in latest : r.window >= claim.days}, claim) IN
  /\ claim # NoClaim /\ todo = {} /\ verdict = "pending"
  /\ \/ /\ matched = {}
        /\ verdict' = "not_found" /\ ratio' = ratio
     \/ \E first \in matched :
          IF DetectConflict(first, matched)
          THEN verdict' = "conflict" /\ ratio' = ratio
          ELSE verdict' = "refund" /\ ratio' = first.ratio
  /\ UNCHANGED <<rules, claim, todo, latest>>

RulesInit ==
  /\ rules = {} /\ claim = NoClaim /\ todo = {} /\ latest = {}
  /\ verdict = "pending" /\ ratio = 0
RulesNext ==
  \/ \E rule \in Rule : InsertPolicy(rule)
  \/ \E c \in Claim : ListPolicies(c)
  \/ \E r \in todo : Visit(r)
  \/ Decide
RulesSpec == RulesInit /\ [][RulesNext]_ruleVars

-----------------------------------------------------------------------------
(* Properties *)

\* What the docstring of _effective_policy_rows means by the rows that decide, but for
\* one thing: the newest version is sought among those whose tags the claim covers, and
\* not among all in force.
Newest(c) ==
  {r \in rules : /\ Fits(r, c)
                 /\ \A other \in rules :
                      Fits(other, c) /\ other.policy = r.policy => other.version <= r.version}

Agreed(matched) == \A r, other \in matched : r.ratio = other.ratio

\* compute_refund_plan of the PostgreSQL service: in whatever order the loop meets the
\* rows, the claim is refunded by the newest fitting version of each policy, never by an
\* older one when the newest one's window excludes the claim, and exactly if those agree.
NewestDecide ==
  LET matched == MatchPolicies(Newest(claim), claim) IN
  verdict # "pending" =>
    /\ verdict = "not_found" <=> matched = {}
    /\ verdict = "conflict" <=> ~ Agreed(matched)
    /\ verdict = "refund" => \A r \in matched : ratio = r.ratio

\* The in-memory service chooses among all versions of all policies.  It may refuse a
\* claim that the PostgreSQL service refunds, or refund one that the latter refuses; but
\* where both refund it, they refund the same.
SameAmount ==
  LET matched == MatchPolicies(rules, claim) IN
  verdict = "refund" /\ Agreed(matched) => \A r \in matched : ratio = r.ratio

\* The amount of a claim does not depend on the order of the stored policies, and two
\* back ends that both give one give the same.
PoliciesAgree == NewestDecide /\ SameAmount
=============================================================================
