--------------------------------- MODULE ApiDesk ---------------------------------
(***************************************************************************)
(* The HTTP layer (app.py, deps.py) over either back end (adapters.py): who  *)
(* may call what, on whose ticket.  A handler first reads the ticket or the  *)
(* operation in the caller's tenant and then gives the command to the port;  *)
(* the in-memory port does not look at the tenant again.  A ticket has one   *)
(* operation here, and one workflow thread, which makes it or never begins;  *)
(* of the thread only what it waits for is kept (Workflow has the rest).     *)
(***************************************************************************)
EXTENDS Naturals, FiniteSets

CONSTANTS Principal,  \* who the tokens of the registry identify
          Identity,   \* [Principal -> [tenant, role, customer]]
          Ticket

ASSUME IdentityAssumption ==
  \A p \in Principal : /\ Identity[p].role \in {"customer", "agent", "approver", "system"}
                       /\ Identity[p].tenant # "none"

VARIABLES
  backend,  \* "memory" or "pg"
  desk,     \* desk[t]: the ticket t, with its operation's status
  thread,   \* thread[t]: the workflow thread of t, and what it waits for
  handler,  \* handler[p]: the request of p that has passed its reads
  deeds     \* who did what to which ticket (the audit log)

deskVars == <<backend, desk, thread, handler, deeds>>

TenantOf(p) == Identity[p].tenant
HasRole(p, roles) == Identity[p].role \in roles
Tenants == {TenantOf(p) : p \in Principal}
Customers == {Identity[p].customer : p \in Principal}

OpStatus == {"none", "draft", "pending", "approved", "rejected", "executed", "unknown",
             "failed"}
NoTicket == [tenant |-> "none", customer |-> "none", op |-> "none"]
\* at: waiting for a clarification or an approval, or at its end
NoThread == [tenant |-> "none", at |-> "none"]
Idle == [endpoint |-> "none"]

\* mutant: the decision endpoints take agents too
AllowedLoosely(endpoint) ==
  IF endpoint \in {"approve", "reject"} THEN {"approver", "agent"}
  ELSE IF endpoint = "create_ticket" THEN {"agent", "customer"}
  ELSE IF endpoint \in {"execute", "reconcile"} THEN {"system"}
  ELSE IF endpoint = "agent_decision" THEN {"approver", "system"} ELSE {"agent"}

\* the roles _require_role lets through
Allowed(endpoint) ==
  CASE endpoint = "create_ticket" -> {"agent", "customer"}
    [] endpoint \in {"create_refund_draft", "submit", "agent_start", "agent_clarify",
                     "demo_reset"} -> {"agent"}
    [] endpoint \in {"approve", "reject"} -> {"approver"}
    [] endpoint \in {"execute", "reconcile"} -> {"system"}
    [] endpoint = "agent_decision" -> {"approver", "system"}

\* mutant: the handler relies on the port for the tenant
GateNever(p, t) == TRUE

\* get_ticket, get_operation of the adapters: not found, or of another tenant
Gate(p, t) == desk[t].tenant = TenantOf(p)

\* the port finds the row in a command: PostgreSQL by its tenant, memory by its id only
PortFinds(p, t) == desk[t] # NoTicket /\ (backend = "memory" \/ desk[t].tenant = TenantOf(p))

\* what the domain does with the status
Becomes(endpoint, status) ==
  CASE endpoint = "create_refund_draft" /\ status = "none" -> {"draft"}
    [] endpoint = "submit" /\ status = "draft" -> {"pending"}
    [] endpoint = "approve" /\ status = "pending" -> {"approved"}
    [] endpoint = "reject" /\ status = "pending" -> {"rejected"}
    [] endpoint = "execute" /\ status = "approved" -> {"executed", "unknown"}
    [] endpoint = "reconcile" /\ status = "unknown" -> {"executed", "failed"}
    [] OTHER -> {}

Did(p, endpoints, t) == deeds' = deeds \cup {<<p, e, t>> : e \in endpoints}

\* POST /tickets: a customer for itself, an agent for any customer of the tenant
CreateTicket(p, t, customer) ==
  /\ HasRole(p, Allowed("create_ticket")) /\ desk[t] = NoTicket /\ thread[t] = NoThread
  /\ HasRole(p, {"customer"}) => customer = Identity[p].customer
  /\ desk' = [desk EXCEPT ![t] = [tenant |-> TenantOf(p), customer |-> customer, op |-> "none"]]
  /\ Did(p, {"create_ticket"}, t)
  /\ UNCHANGED <<backend, thread, handler>>

Command == {"create_refund_draft", "submit", "approve", "reject", "execute", "reconcile"}

\* the role and the read in front of a command; 403 and 404 end the request
Admitted(p, endpoint, t) ==
  /\ handler[p] = Idle
  /\ HasRole(p, Allowed(endpoint)) /\ desk[t] # NoTicket /\ Gate(p, t)
  /\ handler' = [handler EXCEPT ![p] = [endpoint |-> endpoint, ticket |-> t]]
  /\ UNCHANGED <<backend, desk, thread, deeds>>

\* the command itself: done, or an error of the domain
Carry(p) ==
  /\ handler[p] # Idle /\ handler[p].endpoint \in Command
  /\ handler' = [handler EXCEPT ![p] = Idle]
  /\ LET t == handler[p].ticket
         e == handler[p].endpoint IN
     \/ \E s \in Becomes(e, desk[t].op) :
          /\ PortFinds(p, t)
          /\ desk' = [desk EXCEPT ![t].op = s]
          /\ Did(p, {e}, t)
     \/ UNCHANGED <<desk, deeds>>
  /\ UNCHANGED <<backend, thread>>

\* The workflow from its first node up to where it stops: it has a question, it has
\* nothing to draft, or it waits for the approval of what it has drafted.
RunFromParse(p, t) ==
  \/ \E at \in {"clarify", "ended"} :
       /\ thread' = [thread EXCEPT ![t] = [tenant |-> TenantOf(p), at |-> at]]
       /\ UNCHANGED <<desk, deeds>>
  \/ \E customer \in Customers :
       /\ thread' = [thread EXCEPT ![t] = [tenant |-> TenantOf(p), at |-> "approval"]]
       /\ desk' = [desk EXCEPT ![t] =
                     [tenant |-> TenantOf(p), customer |-> customer, op |-> "pending"]]
       /\ Did(p, {"create_ticket", "create_refund_draft", "submit"}, t)

\* POST /v1/agent/start
AgentStart(p, t) ==
  /\ HasRole(p, Allowed("agent_start")) /\ desk[t] = NoTicket /\ thread[t] = NoThread
  /\ RunFromParse(p, t)
  /\ UNCHANGED <<backend, handler>>

AgentCall == {"agent_clarify", "agent_decision"}

\* POST /v1/agent/{thread}/clarify and .../decision: the state of the thread, looked up
\* in the tenant; 404 and 409 end the request
AgentAdmitted(p, endpoint, t) ==
  /\ handler[p] = Idle
  /\ HasRole(p, Allowed(endpoint)) /\ thread[t].tenant = TenantOf(p)
  /\ IF endpoint = "agent_clarify" THEN thread[t].at = "clarify"
     ELSE thread[t].at = "approval" \/ (thread[t].at = "ended" /\ desk[t] # NoTicket)
  /\ handler' = [handler EXCEPT ![p] = [endpoint |-> endpoint, ticket |-> t]]
  /\ UNCHANGED <<backend, desk, thread, deeds>>

\* runner.resume of either: it goes on from where the thread is by now, whatever the
\* request was made for.  Past the approval node, what was approved is executed.
AgentResume(p) ==
  /\ handler[p] # Idle /\ handler[p].endpoint \in AgentCall
  /\ handler' = [handler EXCEPT ![p] = Idle]
  /\ LET t == handler[p].ticket
         ends == thread' = [thread EXCEPT ![t].at = "ended"] IN
     \/ thread[t].at = "clarify" /\ RunFromParse(p, t)
     \/ /\ thread[t].at = "approval" /\ ends
        /\ \E s \in Becomes("execute", desk[t].op) : desk' = [desk EXCEPT ![t].op = s]
        /\ Did(p, {handler[p].endpoint}, t)
     \* decided otherwise, or the execution is refused
     \/ /\ thread[t].at = "approval" /\ desk[t].op # "pending" /\ ends
        /\ UNCHANGED <<desk, deeds>>
     \* still undecided, at its end, or the lease is somebody else's
     \/ UNCHANGED <<thread, desk, deeds>>
  /\ UNCHANGED backend

\* POST /demo/reset, with the memory back end only: a new service; requests in flight
\* keep the old one, which nobody reads any more
DemoReset(p) ==
  /\ backend = "memory" /\ HasRole(p, Allowed("demo_reset"))
  /\ desk' = [t \in Ticket |-> NoTicket] /\ thread' = [t \in Ticket |-> NoThread]
  /\ deeds' = {}
  /\ handler' = [q \in Principal |-> Idle]
  /\ UNCHANGED backend

DeskInit ==
  /\ backend \in {"memory", "pg"}
  /\ desk = [t \in Ticket |-> NoTicket]
  /\ thread = [t \in Ticket |-> NoThread]
  /\ handler = [p \in Principal |-> Idle]
  /\ deeds = {}

DeskNext ==
  \E p \in Principal :
    \/ \E t \in Ticket :
         \/ \E customer \in Customers : CreateTicket(p, t, customer)
         \/ \E endpoint \in Command : Admitted(p, endpoint, t)
         \/ AgentStart(p, t)
         \/ \E endpoint \in AgentCall : AgentAdmitted(p, endpoint, t)
    \/ Carry(p) \/ AgentResume(p) \/ DemoReset(p)

DeskSpec == DeskInit /\ [][DeskNext]_deskVars

-----------------------------------------------------------------------------
(* Properties *)

DoneBy(e, t, roles) == \E p \in Principal : <<p, e, t>> \in deeds /\ HasRole(p, roles)

\* who may set off the execution of what was approved: SYSTEM by its endpoint, an
\* approver or SYSTEM by resuming the thread, and an agent by an answer to a question
\* that the thread has left behind since the answer was admitted
Executors == {<<"execute", "system">>, <<"agent_decision", "approver">>,
              <<"agent_decision", "system">>, <<"agent_clarify", "agent">>}

\* _require_role over all endpoints together: no refund is decided without an agent's
\* draft and submission, and none is paid without an approver's approval, in whatever
\* order the requests come.  The execution itself is not SYSTEM's alone: see Executors.
FourEyes ==
  \A t \in Ticket :
    /\ desk[t].op \in {"approved", "rejected", "executed", "unknown", "failed"} =>
         DoneBy("create_refund_draft", t, {"agent"}) /\ DoneBy("submit", t, {"agent"})
    /\ desk[t].op \in {"approved", "executed", "unknown", "failed"} =>
         DoneBy("approve", t, {"approver"})
    /\ desk[t].op = "rejected" => DoneBy("reject", t, {"approver"})
    /\ desk[t].op \in {"executed", "unknown", "failed"} =>
         \E x \in Executors : DoneBy(x[1], t, {x[2]})

\* the reads in front of each command, which is all that keeps tenants apart over the
\* in-memory back end: nobody touches a ticket of another tenant, and a customer has a
\* hand in no ticket but its own.
TenantsApart ==
  \A d \in deeds : LET p == d[1]  t == d[3] IN
    /\ desk[t].tenant = TenantOf(p)
    /\ HasRole(p, {"customer"}) => desk[t].customer = Identity[p].customer
=============================================================================
