--------------------------------- MODULE Intake ---------------------------------
(***************************************************************************)
(* The intake of a request (intent.py, and the nodes parse and clarify): the *)
(* keywords of a message give an intent and tags; what is missing is asked   *)
(* for, and an answer takes the message's place before it is parsed again.   *)
(***************************************************************************)
EXTENDS Naturals, FiniteSets, FiniteSetsExt

CONSTANTS OrderNo, NoOrder,
          MaxCues  \* a bound of the model on the keywords of one message

ASSUME NoOrderAssumption == NoOrder \notin OrderNo

VARIABLES
  phase,    \* start, parse, clarify (the interrupt is open), or the route taken
  request,  \* user_request
  orderId,  \* order_id
  parsed,   \* intent, reason_tags
  missing,  \* missing_fields
  field,    \* the order number given last in a field of its own
  named     \* every order number given so far, in a field or a message

intakeVars == <<phase, request, orderId, parsed, missing, field, named>>

\* One keyword for each pair of lists it stands in: the intent, and the tag.
Cue == {<<"refund", "none">>, <<"refund", "damaged">>, <<"refund", "missing_item">>,
        <<"refund", "quality">>, <<"replace", "missing_item">>, <<"none", "damaged">>,
        <<"none", "missing_item">>, <<"none", "quality">>, <<"return", "none">>,
        <<"exchange", "none">>, <<"replace", "none">>, <<"upgrade", "none">>}

\* the order of the intent table
IntentOrder == <<"refund", "return", "exchange", "replace", "upgrade">>

\* A message: the keywords in it, the order number, and whether it is blank.
Text == {t \in [cues : UNION {kSubset(n, Cue) : n \in 0 .. MaxCues},
                order : OrderNo \cup {NoOrder}, blank : BOOLEAN] :
           t.blank => t.cues = {} /\ t.order = NoOrder}
NoText == [cues |-> {}, order |-> NoOrder, blank |-> TRUE]

\* the first intent of the table with a keyword in the message
IntentOf(t) ==
  LET hits == {i \in DOMAIN IntentOrder : \E c \in t.cues : c[1] = IntentOrder[i]}
  IN  IF hits = {} THEN "unknown" ELSE IntentOrder[Min(hits)]

TagsOf(t) == {c[2] : c \in t.cues} \ {"none"}

\* mutant: a number in the message goes before the one that is known
OrderOfText(t, known) == IF t.order # NoOrder THEN t.order ELSE known

\* a number that is known goes before one in the message
OrderOf(t, known) == IF known # NoOrder THEN known ELSE t.order

Missing(t, order) ==
  {f \in {"order_id", "reason", "request"} :
     \/ f = "order_id" /\ IntentOf(t) # "unknown" /\ order = NoOrder
     \/ f = "reason" /\ IntentOf(t) = "refund" /\ TagsOf(t) = {}
     \/ f = "request" /\ t.blank}

\* route_after_parse
RouteAfterParse(intent, fields) ==
  IF fields # {} THEN "clarify"
  ELSE IF intent = "refund" THEN "gather_evidence" ELSE "escalate"

Numbers(t) == {t.order} \ {NoOrder}

-----------------------------------------------------------------------------
\* start: the message, and perhaps an order number beside it
Receive(t, hint) ==
  /\ phase = "start"
  /\ phase' = "parse" /\ request' = t
  /\ orderId' = hint /\ field' = hint
  /\ named' = Numbers(t) \cup ({hint} \ {NoOrder})
  /\ UNCHANGED <<parsed, missing>>

Parse ==
  /\ phase = "parse"
  /\ LET order == OrderOf(request, orderId)  fields == Missing(request, order) IN
     /\ parsed' = [intent |-> IntentOf(request), tags |-> TagsOf(request)]
     /\ orderId' = order
     /\ missing' = fields
     /\ phase' = RouteAfterParse(IntentOf(request), fields)
  /\ UNCHANGED <<request, field, named>>

\* resume with an answer: a message or a description is the request from now on,
\* and an order number in a field of its own is the order's
Clarify(t, order) ==
  /\ phase = "clarify"
  /\ orderId' = IF order # NoOrder THEN order ELSE orderId
  /\ field' = IF order # NoOrder THEN order ELSE field
  /\ request' = t
  /\ missing' = {} /\ phase' = "parse"
  /\ named' = named \cup Numbers(t) \cup ({order} \ {NoOrder})
  /\ UNCHANGED parsed

IntakeInit ==
  /\ phase = "start" /\ request = NoText /\ orderId = NoOrder
  /\ parsed = [intent |-> "unknown", tags |-> {}] /\ missing = {}
  /\ field = NoOrder /\ named = {}

\* the schema wants at least one field; without a text the request stays what it was
IntakeNext ==
  \/ \E t \in Text, order \in OrderNo \cup {NoOrder} : Receive(t, order) \/ Clarify(t, order)
  \/ \E order \in OrderNo : Clarify(request, order)
  \/ Parse

IntakeSpec == IntakeInit /\ [][IntakeNext]_intakeVars

-----------------------------------------------------------------------------
(* Properties *)

\* extract_intent, clarify: after any number of questions and answers, what
\* gather_evidence and plan rely on is there: a refund, the order that was named (the
\* one last given in a field, if any), and a description of the goods.
EvidenceHasItsInputs ==
  phase = "gather_evidence" =>
    /\ parsed.intent = "refund" /\ parsed.tags # {}
    /\ orderId \in named
    /\ field # NoOrder => orderId = field

\* clarify_questions: a question is open exactly if something is missing, and nobody who
\* has named an order, in whichever answer, is asked for its number again.
NoNumberAskedTwice ==
  /\ phase = "clarify" <=> missing # {}
  /\ "order_id" \in missing => named = {}

\* parse, clarify: a conversation neither lets an incomplete request through nor asks for
\* an order number it was told.  Of the order number only: an answer with a text takes the
\* request's place, so a description once given can be forgotten and asked for again, and
\* an answer without a keyword of the intent turns a refund into an unknown request.
IntakeInOrder == EvidenceHasItsInputs /\ NoNumberAskedTwice
=============================================================================
