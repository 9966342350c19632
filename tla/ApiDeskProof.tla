------------------------------ MODULE ApiDeskProof ------------------------------
(***************************************************************************)
(* ApiDesk, for any principals, identities and tickets: the endpoints        *)
(* together keep the tenants apart and the four eyes on a refund.            *)
(***************************************************************************)
EXTENDS ApiDesk, TLAPS

DoneOp == {"approved", "rejected", "executed", "unknown", "failed"}
PaidOp == {"executed", "unknown", "failed"}
Calls == Command \cup AgentCall
Deeds == Calls \cup {"create_ticket"}

\* What a request has passed stays true until its command runs: a ticket keeps its tenant,
\* and so does a thread, whose ticket is of the same tenant.
Vetted ==
  \A p \in Principal :
    \/ handler[p] = Idle
    \/ /\ handler[p].endpoint \in Calls /\ handler[p].ticket \in Ticket
       /\ HasRole(p, Allowed(handler[p].endpoint))
       /\ handler[p].endpoint \in Command =>
            /\ desk[handler[p].ticket] # NoTicket
            /\ desk[handler[p].ticket].tenant = TenantOf(p)
       /\ handler[p].endpoint \in AgentCall => thread[handler[p].ticket].tenant = TenantOf(p)

\* A thread that waits for a clarification has no ticket yet; one that waits for an
\* approval has one of its own tenant.
Threaded ==
  \A t \in Ticket :
    /\ thread[t].at = "clarify" => desk[t] = NoTicket
    /\ thread[t].at = "approval" => desk[t] # NoTicket /\ desk[t].tenant = thread[t].tenant

\* An agent_decision is never admitted before the thread has asked its questions.
Asked ==
  \A p \in Principal :
    handler[p] # Idle /\ handler[p].endpoint = "agent_decision" =>
      thread[handler[p].ticket].at \in {"approval", "ended"}

\* The deeds that the status of an operation stands on; a ticket that is not there has
\* seen none.
Founded ==
  \A t \in Ticket :
    /\ desk[t].op # "none" => DoneBy("create_refund_draft", t, {"agent"})
    /\ desk[t].op \in DoneOp \cup {"pending"} => DoneBy("submit", t, {"agent"})
    /\ desk[t].op \in PaidOp \cup {"approved"} => DoneBy("approve", t, {"approver"})
    /\ desk[t].op = "rejected" => DoneBy("reject", t, {"approver"})
    /\ desk[t].op \in PaidOp => \E x \in Executors : DoneBy(x[1], t, {x[2]})

\* Every deed is on a ticket that is there, in the tenant of who did it; all a customer
\* does is to open tickets of its own.
Owned ==
  /\ deeds \subseteq Principal \X Deeds \X Ticket
  /\ \A p \in Principal, e \in Deeds, t \in Ticket :
       <<p, e, t>> \in deeds =>
         /\ desk[t] # NoTicket /\ desk[t].tenant = TenantOf(p)
         /\ HasRole(p, {"customer"}) => desk[t].customer = Identity[p].customer

DeskShape ==
  /\ desk \in [Ticket -> [tenant : Tenants \cup {"none"}, customer : Customers \cup {"none"},
                          op : OpStatus]]
  /\ thread \in [Ticket -> [tenant : Tenants \cup {"none"},
                            at : {"none", "clarify", "approval", "ended"}]]
  /\ handler \in [Principal -> {Idle} \cup [endpoint : Calls, ticket : Ticket]]

DeskInv == DeskShape /\ Vetted /\ Threaded /\ Asked /\ Founded /\ Owned

LEMMA DeskBegins == DeskInit => DeskInv
  BY DEF DeskInit, DeskInv, DeskShape, Vetted, Threaded, Asked, Founded, Owned, NoTicket, NoThread,
         Idle, OpStatus, DoneOp, PaidOp

\* No call but the opening of a ticket is open to customers.
LEMMA NoCustomerCommands ==
  ASSUME NEW p \in Principal, NEW e \in Calls, HasRole(p, Allowed(e))
  PROVE  ~HasRole(p, {"customer"})
  BY DEF Calls, Command, AgentCall, HasRole, Allowed

\* A deed that was done stays done.
LEMMA DoneByGrows ==
  ASSUME deeds \subseteq deeds', NEW e, NEW t, NEW roles, DoneBy(e, t, roles)
  PROVE  DoneBy(e, t, roles)'
  BY DEF DoneBy, HasRole

\* The part of Founded that is about one ticket.
FoundedAt(t, status) ==
  /\ status # "none" => DoneBy("create_refund_draft", t, {"agent"})
  /\ status \in DoneOp \cup {"pending"} => DoneBy("submit", t, {"agent"})
  /\ status \in PaidOp \cup {"approved"} => DoneBy("approve", t, {"approver"})
  /\ status = "rejected" => DoneBy("reject", t, {"approver"})
  /\ status \in PaidOp => \E x \in Executors : DoneBy(x[1], t, {x[2]})

\* What a status stood on, it stands on after more deeds.
LEMMA FoundedGrows ==
  ASSUME deeds \subseteq deeds', NEW t, NEW status, FoundedAt(t, status)
  PROVE  /\ status # "none" => DoneBy("create_refund_draft", t, {"agent"})'
         /\ status \in DoneOp \cup {"pending"} => DoneBy("submit", t, {"agent"})'
         /\ status \in PaidOp \cup {"approved"} => DoneBy("approve", t, {"approver"})'
         /\ status = "rejected" => DoneBy("reject", t, {"approver"})'
         /\ status \in PaidOp => \E x \in Executors : DoneBy(x[1], t, {x[2]})'
<1>1. \A e, roles : DoneBy(e, t, roles) => DoneBy(e, t, roles)'
  BY DoneByGrows
<1>2. QED
  BY <1>1 DEF FoundedAt

\* While desk and deeds only change at one ticket, the others stay founded.
LEMMA OthersFounded ==
  ASSUME DeskInv, deeds \subseteq deeds', NEW t \in Ticket,
         \A u \in Ticket \ {t} : desk'[u] = desk[u],
         desk'[t].op # "none" => DoneBy("create_refund_draft", t, {"agent"})',
         desk'[t].op \in DoneOp \cup {"pending"} => DoneBy("submit", t, {"agent"})',
         desk'[t].op \in PaidOp \cup {"approved"} => DoneBy("approve", t, {"approver"})',
         desk'[t].op = "rejected" => DoneBy("reject", t, {"approver"})',
         desk'[t].op \in PaidOp => \E x \in Executors : DoneBy(x[1], t, {x[2]})'
  PROVE  Founded'
<1>1. ASSUME NEW u \in Ticket, u # t
      PROVE  /\ desk'[u].op # "none" => DoneBy("create_refund_draft", u, {"agent"})'
             /\ desk'[u].op \in DoneOp \cup {"pending"} => DoneBy("submit", u, {"agent"})'
             /\ desk'[u].op \in PaidOp \cup {"approved"} => DoneBy("approve", u, {"approver"})'
             /\ desk'[u].op = "rejected" => DoneBy("reject", u, {"approver"})'
             /\ desk'[u].op \in PaidOp => \E x \in Executors : DoneBy(x[1], u, {x[2]})'
  <2>1. FoundedAt(u, desk[u].op)
    BY DEF DeskInv, Founded, FoundedAt
  <2>2. desk'[u] = desk[u]
    BY <1>1
  <2>3. QED
    BY <2>1, <2>2, FoundedGrows
<1>2. QED
  BY <1>1 DEF Founded, DoneOp, PaidOp, Executors

\* A thread may end and a request does.
LEMMA EndsShaped ==
  ASSUME DeskInv, NEW p \in Principal, NEW t \in Ticket,
         handler' = [handler EXCEPT ![p] = Idle],
         thread' = thread \/ thread' = [thread EXCEPT ![t].at = "ended"]
  PROVE  /\ thread' \in [Ticket -> [tenant : Tenants \cup {"none"},
                                   at : {"none", "clarify", "approval", "ended"}]]
         /\ handler' \in [Principal -> {Idle} \cup [endpoint : Calls, ticket : Ticket]]
<1>1. thread' \in [Ticket -> [tenant : Tenants \cup {"none"},
                             at : {"none", "clarify", "approval", "ended"}]]
  <2>1. CASE thread' = thread
    BY <2>1 DEF DeskInv, DeskShape
  <2>2. CASE thread' = [thread EXCEPT ![t].at = "ended"]
    BY <2>2 DEF DeskInv, DeskShape
  <2>3. QED
    BY <2>1, <2>2
<1>2. handler' \in [Principal -> {Idle} \cup [endpoint : Calls, ticket : Ticket]]
  BY DEF DeskInv, DeskShape
<1>3. QED
  BY <1>1, <1>2

\* Nothing on the desk changes, only what is at work on it.
LEMMA UntouchedKeeps ==
  ASSUME DeskInv, desk' = desk, deeds' = deeds
  PROVE  Founded' /\ Owned'
<1>1. \A e, t, roles : DoneBy(e, t, roles)' <=> DoneBy(e, t, roles)
  BY DEF DoneBy, HasRole
<1>2. Founded'
  BY <1>1 DEF DeskInv, Founded, DoneOp, PaidOp, Executors
<1>3. Owned'
  BY DEF DeskInv, Owned, HasRole, TenantOf
<1>4. QED
  BY <1>2, <1>3

LEMMA CreateTicketKeeps ==
  ASSUME DeskInv, NEW p \in Principal, NEW t \in Ticket, NEW customer \in Customers,
         CreateTicket(p, t, customer)
  PROVE  DeskInv'
<1> DEFINE new == [tenant |-> TenantOf(p), customer |-> customer, op |-> "none"]
<1>1. /\ desk' = [desk EXCEPT ![t] = new] /\ desk[t] = NoTicket /\ thread[t] = NoThread
      /\ deeds' = deeds \cup {<<p, "create_ticket", t>>}
      /\ handler' = handler /\ thread' = thread
      /\ HasRole(p, {"customer"}) => customer = Identity[p].customer
  BY DEF CreateTicket, Did
<1>2. TenantOf(p) \in Tenants
  BY DEF Tenants
<1>3. DeskShape'
  BY <1>1, <1>2 DEF DeskInv, DeskShape, OpStatus
<1>4. /\ desk'[t] = new /\ new # NoTicket
      /\ \A u \in Ticket \ {t} : desk'[u] = desk[u]
  BY <1>1, IdentityAssumption DEF DeskInv, DeskShape, NoTicket, TenantOf
<1>5. Vetted' /\ Threaded' /\ Asked'
  <2>1. Vetted'
    BY <1>1, <1>4 DEF DeskInv, Vetted, HasRole, TenantOf
  <2>2. Threaded' /\ Asked'
    BY <1>1, <1>4 DEF DeskInv, Threaded, Asked, NoThread
  <2>3. QED
    BY <2>1, <2>2
<1>6. Founded'
  <2>1. new.op = "none"
    OBVIOUS
  <2>2. QED
    BY <1>1, <1>4, <2>1, OthersFounded DEF DoneOp, PaidOp
<1>7. Owned'
  BY <1>1, <1>4 DEF DeskInv, Owned, TenantOf, HasRole, Deeds
<1>8. QED
  BY <1>3, <1>5, <1>6, <1>7 DEF DeskInv

LEMMA AdmittedKeeps ==
  ASSUME DeskInv, NEW p \in Principal, NEW e \in Command, NEW t \in Ticket, Admitted(p, e, t)
  PROVE  DeskInv'
<1>1. /\ handler' = [handler EXCEPT ![p] = [endpoint |-> e, ticket |-> t]]
      /\ HasRole(p, Allowed(e)) /\ desk[t] # NoTicket /\ desk[t].tenant = TenantOf(p)
      /\ desk' = desk /\ deeds' = deeds /\ thread' = thread
  BY DEF Admitted, Gate
<1>2. DeskShape'
  BY <1>1 DEF DeskInv, DeskShape, Calls
<1>3. Vetted' /\ Threaded' /\ Asked'
  BY <1>1 DEF DeskInv, DeskShape, Vetted, Threaded, Asked, HasRole, TenantOf, Calls, Command,
              AgentCall
<1>4. QED
  BY <1>1, <1>2, <1>3, UntouchedKeeps DEF DeskInv

LEMMA AgentAdmittedKeeps ==
  ASSUME DeskInv, NEW p \in Principal, NEW e \in AgentCall, NEW t \in Ticket,
         AgentAdmitted(p, e, t)
  PROVE  DeskInv'
<1>1. /\ handler' = [handler EXCEPT ![p] = [endpoint |-> e, ticket |-> t]]
      /\ HasRole(p, Allowed(e)) /\ thread[t].tenant = TenantOf(p)
      /\ e = "agent_decision" => thread[t].at \in {"approval", "ended"}
      /\ desk' = desk /\ deeds' = deeds /\ thread' = thread
  BY DEF AgentAdmitted
<1>2. DeskShape'
  BY <1>1 DEF DeskInv, DeskShape, Calls
<1>3. Vetted' /\ Threaded' /\ Asked'
  BY <1>1 DEF DeskInv, DeskShape, Vetted, Threaded, Asked, HasRole, TenantOf, Calls, Command,
              AgentCall
<1>4. QED
  BY <1>1, <1>2, <1>3, UntouchedKeeps DEF DeskInv

\* The operation of one ticket moves and one deed is noted: enough is known of both.
LEMMA DeedKeeps ==
  ASSUME DeskInv, NEW p \in Principal, NEW e \in Calls, NEW t \in Ticket,
         NEW s \in Becomes(IF e \in AgentCall THEN "execute" ELSE e, desk[t].op),
         desk[t] # NoTicket, desk[t].tenant = TenantOf(p),
         HasRole(p, Allowed(e)),
         desk' = [desk EXCEPT ![t].op = s],
         deeds' = deeds \cup {<<p, e, t>>},
         handler' = [handler EXCEPT ![p] = Idle],
         thread' = thread \/ thread' = [thread EXCEPT ![t].at = "ended"]
  PROVE  DeskInv'
<1>1. s \in OpStatus /\ s # "none"
  BY DEF Becomes, OpStatus
<1>2. /\ desk'[t].op = s /\ desk'[t] # NoTicket
      /\ desk'[t].tenant = desk[t].tenant /\ desk'[t].customer = desk[t].customer
      /\ \A u \in Ticket \ {t} : desk'[u] = desk[u]
  BY <1>1 DEF DeskInv, DeskShape, NoTicket
<1>3. DeskShape'
  <2>1. desk' \in [Ticket -> [tenant : Tenants \cup {"none"}, customer : Customers \cup {"none"},
                              op : OpStatus]]
    BY <1>1 DEF DeskInv, DeskShape
  <2>2. QED
    BY <2>1, EndsShaped DEF DeskShape
<1>4. \A u \in Ticket : /\ thread'[u].tenant = thread[u].tenant
                        /\ thread'[u].at = thread[u].at \/ (u = t /\ thread'[u].at = "ended")
  BY DEF DeskInv, DeskShape
<1>5. Vetted' /\ Asked'
  <2> SUFFICES ASSUME NEW q \in Principal, handler'[q] # Idle
               PROVE  /\ handler'[q] = handler[q]
                      /\ handler[q].endpoint \in Command =>
                           /\ desk'[handler[q].ticket] # NoTicket
                           /\ desk'[handler[q].ticket].tenant = TenantOf(q)
                      /\ thread'[handler[q].ticket].tenant = thread[handler[q].ticket].tenant
                      /\ \/ thread'[handler[q].ticket].at = thread[handler[q].ticket].at
                         \/ thread'[handler[q].ticket].at = "ended"
    BY DEF DeskInv, Vetted, Asked, HasRole, TenantOf
  <2>1. handler'[q] = handler[q]
    BY DEF DeskInv, DeskShape
  <2>2. /\ handler[q].ticket \in Ticket
        /\ handler[q].endpoint \in Command =>
             desk[handler[q].ticket] # NoTicket /\ desk[handler[q].ticket].tenant = TenantOf(q)
    BY <2>1 DEF DeskInv, Vetted
  <2>3. QED
    BY <1>2, <1>4, <2>1, <2>2
<1>6. Threaded'
  BY <1>2, <1>4 DEF DeskInv, Threaded
<1>7. Founded'
  \* what the status stood on, and the new deed
  <2>1. FoundedAt(t, desk[t].op)
    BY DEF DeskInv, Founded, FoundedAt
  <2>2. /\ desk[t].op # "none" => DoneBy("create_refund_draft", t, {"agent"})'
        /\ desk[t].op \in DoneOp \cup {"pending"} => DoneBy("submit", t, {"agent"})'
        /\ desk[t].op \in PaidOp \cup {"approved"} => DoneBy("approve", t, {"approver"})'
        /\ desk[t].op = "rejected" => DoneBy("reject", t, {"approver"})'
        /\ desk[t].op \in PaidOp => \E x \in Executors : DoneBy(x[1], t, {x[2]})'
    BY <2>1, FoundedGrows
  <2>3. \A roles : HasRole(p, roles) => DoneBy(e, t, roles)'
    BY DEF DoneBy, HasRole
  <2> SUFFICES /\ DoneBy("create_refund_draft", t, {"agent"})'
               /\ s \in DoneOp \cup {"pending"} => DoneBy("submit", t, {"agent"})'
               /\ s \in PaidOp \cup {"approved"} => DoneBy("approve", t, {"approver"})'
               /\ s = "rejected" => DoneBy("reject", t, {"approver"})'
               /\ s \in PaidOp => \E x \in Executors : DoneBy(x[1], t, {x[2]})'
    BY <1>2, OthersFounded
  <2>4. CASE e = "create_refund_draft"
    <3>1. desk[t].op = "none" /\ s = "draft"
      BY <2>4 DEF Becomes, AgentCall
    <3>2. DoneBy("create_refund_draft", t, {"agent"})'
      BY <2>3, <2>4 DEF Allowed
    <3>3. QED
      BY <3>1, <3>2 DEF DoneOp, PaidOp
  <2>5. CASE e = "submit"
    <3>1. desk[t].op = "draft" /\ s = "pending"
      BY <2>5 DEF Becomes, AgentCall
    <3>2. DoneBy("submit", t, {"agent"})'
      BY <2>3, <2>5 DEF Allowed
    <3>3. QED
      BY <2>2, <3>1, <3>2 DEF DoneOp, PaidOp
  <2>6. CASE e = "approve"
    <3>1. desk[t].op = "pending" /\ s = "approved"
      BY <2>6 DEF Becomes, AgentCall
    <3>2. DoneBy("approve", t, {"approver"})'
      BY <2>3, <2>6 DEF Allowed
    <3>3. QED
      BY <2>2, <3>1, <3>2 DEF DoneOp, PaidOp
  <2>7. CASE e = "reject"
    <3>1. desk[t].op = "pending" /\ s = "rejected"
      BY <2>7 DEF Becomes, AgentCall
    <3>2. DoneBy("reject", t, {"approver"})'
      BY <2>3, <2>7 DEF Allowed
    <3>3. QED
      BY <2>2, <3>1, <3>2 DEF DoneOp, PaidOp
  <2>8. CASE e \in {"execute"} \cup AgentCall
    <3>1. desk[t].op = "approved" /\ s \in {"executed", "unknown"}
      BY <2>8 DEF Becomes, AgentCall
    <3>2. PICK role : <<e, role>> \in Executors /\ Identity[p].role = role
      BY <2>8 DEF Allowed, HasRole, AgentCall, Executors
    <3>3. DoneBy(e, t, {role})'
      BY <2>3, <3>2 DEF HasRole
    <3>4. \E x \in Executors : DoneBy(x[1], t, {x[2]})'
      BY <3>2, <3>3
    <3>5. QED
      BY <2>2, <3>1, <3>4 DEF DoneOp, PaidOp
  <2>9. CASE e = "reconcile"
    <3>1. desk[t].op = "unknown" /\ s \in {"executed", "failed"}
      BY <2>9 DEF Becomes, AgentCall
    <3>2. QED
      BY <2>2, <3>1 DEF DoneOp, PaidOp
  <2>10. QED
    BY <2>4, <2>5, <2>6, <2>7, <2>8, <2>9 DEF Calls, Command
<1>8. ~HasRole(p, {"customer"})
  BY NoCustomerCommands
<1>9. Owned'
  <2>1. deeds' \subseteq Principal \X Deeds \X Ticket
    BY DEF DeskInv, Owned, Deeds
  <2> SUFFICES ASSUME NEW q \in Principal, NEW f \in Deeds,
                      NEW u \in Ticket, <<q, f, u>> \in deeds'
               PROVE  /\ desk'[u] # NoTicket /\ desk'[u].tenant = TenantOf(q)
                      /\ HasRole(q, {"customer"}) => desk'[u].customer = Identity[q].customer
    BY <2>1 DEF Owned, TenantOf, HasRole
  <2>2. CASE <<q, f, u>> \in deeds
    BY <1>2, <2>2 DEF DeskInv, Owned
  <2>3. CASE <<q, f, u>> = <<p, e, t>>
    BY <1>2, <1>8, <2>3
  <2>4. QED
    BY <2>2, <2>3
<1>10. QED
  BY <1>3, <1>5, <1>6, <1>7, <1>9 DEF DeskInv

\* A request ends and its thread perhaps with it; nothing is done.
LEMMA NothingDoneKeeps ==
  ASSUME DeskInv, NEW p \in Principal, NEW t \in Ticket,
         desk' = desk, deeds' = deeds, handler' = [handler EXCEPT ![p] = Idle],
         thread' = thread \/ thread' = [thread EXCEPT ![t].at = "ended"]
  PROVE  DeskInv'
<1>1. DeskShape'
  BY EndsShaped DEF DeskInv, DeskShape
<1>2. \A u \in Ticket : /\ thread'[u].tenant = thread[u].tenant
                        /\ thread'[u].at = thread[u].at \/ thread'[u].at = "ended"
  BY DEF DeskInv, DeskShape
<1>3. \A q \in Principal : handler'[q] = Idle \/ handler'[q] = handler[q]
  BY DEF DeskInv, DeskShape
<1>4. Vetted'
  BY <1>2, <1>3 DEF DeskInv, Vetted, HasRole, TenantOf
<1>5. Threaded'
  BY <1>2 DEF DeskInv, Threaded
<1>6. Asked'
  BY <1>2, <1>3 DEF DeskInv, Vetted, Asked
<1>7. QED
  BY <1>1, <1>4, <1>5, <1>6, UntouchedKeeps DEF DeskInv

LEMMA CarryKeeps ==
  ASSUME DeskInv, NEW p \in Principal, Carry(p)
  PROVE  DeskInv'
<1> DEFINE t == handler[p].ticket
<1> DEFINE e == handler[p].endpoint
<1>1. /\ e \in Command /\ t \in Ticket /\ HasRole(p, Allowed(e))
      /\ desk[t] # NoTicket /\ desk[t].tenant = TenantOf(p)
  BY DEF Carry, DeskInv, Vetted
<1>2. handler' = [handler EXCEPT ![p] = Idle] /\ thread' = thread
  BY DEF Carry
<1>3. ASSUME NEW s \in Becomes(e, desk[t].op), desk' = [desk EXCEPT ![t].op = s],
             deeds' = deeds \cup {<<p, e, t>>}
      PROVE  DeskInv'
  <2>1. e \in Calls /\ e \notin AgentCall
    BY <1>1 DEF Calls, Command, AgentCall
  <2>2. s \in Becomes(IF e \in AgentCall THEN "execute" ELSE e, desk[t].op)
    BY <2>1
  <2> HIDE DEF t, e
  <2>3. QED
    BY <1>1, <1>2, <1>3, <2>1, <2>2, DeedKeeps
<1>4. ASSUME desk' = desk, deeds' = deeds
      PROVE  DeskInv'
  BY <1>1, <1>2, <1>4, NothingDoneKeeps
<1>5. QED
  BY <1>3, <1>4 DEF Carry, Did

\* The workflow goes on from its first node: an agent's, on a thread that is new or has
\* just been answered.
LEMMA RunFromParseKeeps ==
  ASSUME DeskInv, NEW p \in Principal, NEW t \in Ticket, RunFromParse(p, t),
         HasRole(p, {"agent"}), desk[t] = NoTicket,
         thread[t] = NoThread \/ (thread[t].at = "clarify" /\ thread[t].tenant = TenantOf(p)),
         handler' = handler \/ handler' = [handler EXCEPT ![p] = Idle]
  PROVE  DeskInv'
<1>1. TenantOf(p) \in Tenants
  BY DEF Tenants
<1>2. \A q \in Principal : handler'[q] = Idle \/ handler'[q] = handler[q]
  BY DEF DeskInv, DeskShape
\* no command is about t yet, and no decision
<1>3. ASSUME NEW q \in Principal, handler[q] # Idle, handler[q].ticket = t
      PROVE  /\ handler[q].endpoint = "agent_clarify"
             /\ TenantOf(q) = TenantOf(p)
  <2>1. handler[q].endpoint \in AgentCall /\ thread[t].tenant = TenantOf(q)
    BY <1>3 DEF DeskInv, Vetted, Calls
  <2>2. thread[t].tenant = TenantOf(p) /\ thread[t].at = "clarify"
    BY <2>1, IdentityAssumption DEF NoThread, TenantOf
  <2>3. QED
    BY <1>3, <2>1, <2>2 DEF DeskInv, Asked, AgentCall
<1>4. PICK at \in {"clarify", "ended", "approval"} :
        /\ thread' = [thread EXCEPT ![t] = [tenant |-> TenantOf(p), at |-> at]]
        /\ at = "approval" => desk'[t] # NoTicket /\ desk'[t].tenant = TenantOf(p)
        /\ at # "approval" => desk' = desk
        /\ \A u \in Ticket \ {t} : desk'[u] = desk[u]
  BY DEF RunFromParse, DeskInv, DeskShape, NoTicket
<1>5. /\ thread'[t].tenant = TenantOf(p) /\ thread'[t].at = at
      /\ \A u \in Ticket \ {t} : thread'[u] = thread[u]
  BY <1>4 DEF DeskInv, DeskShape
<1>6. DeskShape'
  <2>1. desk' \in [Ticket -> [tenant : Tenants \cup {"none"}, customer : Customers \cup {"none"},
                              op : OpStatus]]
    BY <1>1 DEF RunFromParse, DeskInv, DeskShape, OpStatus
  <2>2. thread' \in [Ticket -> [tenant : Tenants \cup {"none"},
                                at : {"none", "clarify", "approval", "ended"}]]
    BY <1>1, <1>4 DEF DeskInv, DeskShape
  <2>3. handler' \in [Principal -> {Idle} \cup [endpoint : Calls, ticket : Ticket]]
    BY DEF DeskInv, DeskShape
  <2>4. QED
    BY <2>1, <2>2, <2>3 DEF DeskShape
<1>7. Vetted' /\ Asked'
  <2> SUFFICES ASSUME NEW q \in Principal, handler'[q] # Idle
               PROVE  /\ handler'[q] = handler[q]
                      /\ handler[q].endpoint \in Command =>
                           /\ desk'[handler[q].ticket] # NoTicket
                           /\ desk'[handler[q].ticket].tenant = TenantOf(q)
                      /\ handler[q].endpoint \in AgentCall =>
                           thread'[handler[q].ticket].tenant = TenantOf(q)
                      /\ handler[q].endpoint = "agent_decision" =>
                           thread'[handler[q].ticket].at \in {"approval", "ended"}
    BY DEF DeskInv, Vetted, Asked, HasRole, TenantOf
  <2>1. handler'[q] = handler[q] /\ handler[q] # Idle
    BY <1>2
  <2>2. CASE handler[q].ticket = t
    BY <1>3, <1>5, <2>1, <2>2 DEF Command
  <2>3. CASE handler[q].ticket # t
    BY <1>4, <1>5, <2>1, <2>3 DEF DeskInv, Vetted, Asked
  <2>4. QED
    BY <2>2, <2>3
<1>8. Threaded'
  BY <1>4, <1>5 DEF DeskInv, Threaded
<1>9. CASE desk' = desk /\ deeds' = deeds
  BY <1>6, <1>7, <1>8, <1>9, UntouchedKeeps DEF DeskInv
<1>10. ASSUME NEW customer \in Customers,
              desk' = [desk EXCEPT ![t] =
                         [tenant |-> TenantOf(p), customer |-> customer, op |-> "pending"]],
              deeds' = deeds \cup
                {<<p, f, t>> : f \in {"create_ticket", "create_refund_draft", "submit"}}
       PROVE  DeskInv'
  <2>1. DoneBy("create_refund_draft", t, {"agent"})' /\ DoneBy("submit", t, {"agent"})'
    BY <1>10 DEF DoneBy, HasRole
  <2>2. /\ desk'[t].op = "pending" /\ desk'[t] # NoTicket /\ desk'[t].tenant = TenantOf(p)
        /\ \A u \in Ticket \ {t} : desk'[u] = desk[u]
    BY <1>10 DEF DeskInv, DeskShape, NoTicket
  <2>3. Founded'
    BY <1>10, <2>1, <2>2, OthersFounded DEF DoneOp, PaidOp
  <2>4. Owned'
    <3>1. deeds' \subseteq Principal \X Deeds \X Ticket
      BY <1>10 DEF DeskInv, Owned, Deeds, Calls, Command
    <3>2. ~HasRole(p, {"customer"})
      BY DEF HasRole
    <3>3. \A q \in Principal, f \in Deeds, u \in Ticket :
            <<q, f, u>> \in deeds' => <<q, f, u>> \in deeds \/ (q = p /\ u = t)
      BY <1>10
    <3>4. QED
      BY <2>2, <3>1, <3>2, <3>3 DEF DeskInv, Owned, TenantOf, HasRole
  <2>5. QED
    BY <1>6, <1>7, <1>8, <2>3, <2>4 DEF DeskInv
<1>11. QED
  BY <1>9, <1>10 DEF RunFromParse, Did

LEMMA AgentStartKeeps ==
  ASSUME DeskInv, NEW p \in Principal, NEW t \in Ticket, AgentStart(p, t)
  PROVE  DeskInv'
<1>1. HasRole(p, {"agent"})
  BY DEF AgentStart, Allowed
<1>2. QED
  BY <1>1, RunFromParseKeeps DEF AgentStart

LEMMA AgentResumeKeeps ==
  ASSUME DeskInv, NEW p \in Principal, AgentResume(p)
  PROVE  DeskInv'
<1> DEFINE t == handler[p].ticket
<1> DEFINE e == handler[p].endpoint
<1>1. /\ e \in AgentCall /\ t \in Ticket /\ HasRole(p, Allowed(e))
      /\ thread[t].tenant = TenantOf(p)
      /\ e = "agent_decision" => thread[t].at \in {"approval", "ended"}
  BY DEF AgentResume, DeskInv, Vetted, Asked
<1>2. handler' = [handler EXCEPT ![p] = Idle]
  BY DEF AgentResume
<1>3. CASE thread[t].at = "clarify" /\ RunFromParse(p, t)
  <2>1. HasRole(p, {"agent"}) /\ desk[t] = NoTicket
    BY <1>1, <1>3 DEF AgentCall, Allowed, DeskInv, Threaded
  <2> HIDE DEF t, e
  <2>2. QED
    BY <1>1, <1>2, <1>3, <2>1, RunFromParseKeeps
<1>4. ASSUME thread[t].at = "approval", thread' = [thread EXCEPT ![t].at = "ended"],
             NEW s \in Becomes("execute", desk[t].op), desk' = [desk EXCEPT ![t].op = s],
             deeds' = deeds \cup {<<p, e, t>>}
      PROVE  DeskInv'
  <2>1. desk[t] # NoTicket /\ desk[t].tenant = TenantOf(p)
    BY <1>1, <1>4 DEF DeskInv, Threaded
  <2>2. e \in Calls /\ s \in Becomes(IF e \in AgentCall THEN "execute" ELSE e, desk[t].op)
    BY <1>1, <1>4 DEF Calls
  <2> HIDE DEF t, e
  <2>3. QED
    BY <1>1, <1>2, <1>4, <2>1, <2>2, DeedKeeps
<1>5. ASSUME thread' = thread \/ thread' = [thread EXCEPT ![t].at = "ended"],
             desk' = desk, deeds' = deeds
      PROVE  DeskInv'
  <2> HIDE DEF t, e
  <2>1. QED
    BY <1>1, <1>2, <1>5, NothingDoneKeeps
<1>6. \/ thread[t].at = "clarify" /\ RunFromParse(p, t)
      \/ /\ thread[t].at = "approval" /\ thread' = [thread EXCEPT ![t].at = "ended"]
         /\ \E s \in Becomes("execute", desk[t].op) : desk' = [desk EXCEPT ![t].op = s]
         /\ Did(p, {e}, t)
      \/ /\ thread' = thread \/ thread' = [thread EXCEPT ![t].at = "ended"]
         /\ desk' = desk /\ deeds' = deeds
  BY Zenon DEF AgentResume
<1>7. Did(p, {e}, t) => deeds' = deeds \cup {<<p, e, t>>}
  BY DEF Did
<1> HIDE DEF t, e
<1>8. QED
  BY <1>3, <1>4, <1>5, <1>6, <1>7, Zenon

LEMMA DemoResetKeeps ==
  ASSUME DeskInv, NEW p \in Principal, DemoReset(p)
  PROVE  DeskInv'
  BY DEF DemoReset, DeskInv, DeskShape, Vetted, Threaded, Asked, Founded, Owned, NoTicket,
         NoThread, Idle, OpStatus, DoneOp, PaidOp

LEMMA DeskAlways == DeskSpec => []DeskInv
<1>1. DeskInv /\ [DeskNext]_deskVars => DeskInv'
  <2> SUFFICES ASSUME DeskInv, [DeskNext]_deskVars PROVE DeskInv'
    OBVIOUS
  <2>1. CASE DeskNext
    BY <2>1, CreateTicketKeeps, AgentStartKeeps, AdmittedKeeps, AgentAdmittedKeeps, CarryKeeps,
       AgentResumeKeeps, DemoResetKeeps DEF DeskNext
  <2>2. CASE UNCHANGED deskVars
    <3>1. deeds' = deeds /\ desk' = desk /\ handler' = handler /\ thread' = thread
      BY <2>2 DEF deskVars
    <3>2. DeskShape' /\ Vetted' /\ Threaded' /\ Asked'
      BY <3>1 DEF DeskInv, DeskShape, Vetted, Threaded, Asked, HasRole, TenantOf
    <3>3. QED
      BY <3>1, <3>2, UntouchedKeeps DEF DeskInv
  <2>3. QED
    BY <2>1, <2>2
<1>2. QED
  BY <1>1, DeskBegins, PTL DEF DeskSpec

\* _require_role over all endpoints, the two that resume a workflow with them: for any
\* principals and any order of requests, a refund is decided only after an agent's draft
\* and submission and paid only after an approver's approval, and its execution is set off
\* by one of Executors.  An agent is among them, by an answer that comes late.
THEOREM FourEyesAlways == DeskSpec => []FourEyes
<1>1. DeskInv => FourEyes
  BY DEF DeskInv, Founded, FourEyes, DoneOp, PaidOp
<1>2. QED
  BY <1>1, DeskAlways, PTL

\* The reads in front of each command keep the tenants apart, over either back end and
\* with any number of requests between a read and its command.
THEOREM TenantsStayApart == DeskSpec => []TenantsApart
<1>1. DeskInv => TenantsApart
  BY DEF DeskInv, Owned, TenantsApart
<1>2. QED
  BY <1>1, DeskAlways, PTL
=============================================================================
