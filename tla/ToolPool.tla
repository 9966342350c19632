------------------------------- MODULE ToolPool -------------------------------
(***************************************************************************)
(* The tool registry's invoke and the one worker pool of the process that   *)
(* every registry shares.  A call is a tool called by a run; a run calls a  *)
(* tool once.  A worker may never return.                                   *)
(***************************************************************************)
EXTENDS Naturals, Sequences, FiniteSets

CONSTANTS Run,      \* runs of the agents' orchestration
          PoolSize  \* max_workers of _EXECUTOR

ASSUME PoolAssumption == PoolSize \in Nat \ {0}

VARIABLES
  future,   \* future[c]: none, pending, running, finished or cancelled
  queue,    \* the submitted calls that no worker has taken
  answer,   \* answer[c]: the ToolResult its caller got
  records   \* records[c]: entries of the call trace (_calls)

poolVars == <<future, queue, answer, records>>

\* the tools of build_toolkit that agents call
Tool == {"get_order", "list_customer_tickets", "retrieve_policy"}
Call == Run \X Tool

\* What an executor returns or raises: data, a ToolCallError, or any exception.
Result == {"ok", "NO_EVIDENCE", "INJECTION_DETECTED", "ERROR"}
Answer == Result \cup {"TOOL_TIMEOUT", "VALIDATION_ERROR"}

\* what the executors of build_toolkit can come to
Executed(tool) ==
  CASE tool = "retrieve_policy" -> Result
    [] OTHER -> {"ok", "ERROR"}

Executing == {c \in Call : future[c] = "running"}

Respond(c, a) ==
  /\ answer' = [answer EXCEPT ![c] = a]
  /\ records' = [records EXCEPT ![c] = @ + 1]

\* The arguments miss the input schema (an order number is too short; the agents' other
\* arguments never are), or the call is submitted.
Invoke(c) ==
  /\ future[c] = "none" /\ answer[c] = "none"
  /\ \/ /\ c[2] = "get_order"
        /\ Respond(c, "VALIDATION_ERROR")
        /\ UNCHANGED <<future, queue>>
     \/ /\ future' = [future EXCEPT ![c] = "pending"]
        /\ queue' = Append(queue, c)
        /\ UNCHANGED <<answer, records>>

TakeCall ==
  /\ queue # <<>> /\ Cardinality(Executing) < PoolSize
  /\ future' = [future EXCEPT ![Head(queue)] = "running"]
  /\ queue' = Tail(queue)
  /\ UNCHANGED <<answer, records>>

\* mutant: the caller is answered although it has given up
ReturnToAll(c) ==
  /\ future[c] = "running"
  /\ future' = [future EXCEPT ![c] = "finished"]
  /\ \E a \in Executed(c[2]) : Respond(c, a)
  /\ UNCHANGED queue

\* A worker is free again; if nobody waits any more the result is lost.
Return(c) ==
  /\ future[c] = "running"
  /\ future' = [future EXCEPT ![c] = "finished"]
  /\ IF answer[c] = "none"
     THEN \E a \in Executed(c[2]) : Respond(c, a)
     ELSE UNCHANGED <<answer, records>>
  /\ UNCHANGED queue

Without(c) == SelectSeq(queue, LAMBDA d : d # c)

\* mutant: the time in the queue does not count
TimeOutRunning(c) ==
  /\ future[c] = "running" /\ answer[c] = "none"
  /\ Respond(c, "TOOL_TIMEOUT")
  /\ UNCHANGED <<future, queue>>

\* future.result(timeout) gives up, in the queue or in a worker; cancel() stops only
\* a call that no worker has taken
TimeOut(c) ==
  /\ future[c] \in {"pending", "running"} /\ answer[c] = "none"
  /\ Respond(c, "TOOL_TIMEOUT")
  /\ IF future[c] = "pending"
     THEN future' = [future EXCEPT ![c] = "cancelled"] /\ queue' = Without(c)
     ELSE UNCHANGED <<future, queue>>

PoolInit ==
  /\ future = [c \in Call |-> "none"]
  /\ queue = <<>>
  /\ answer = [c \in Call |-> "none"]
  /\ records = [c \in Call |-> 0]

PoolStep == TakeCall \/ \E c \in Call : Return(c) \/ TimeOut(c)

\* ToolRegistry.invoke: a call that was made is recorded once and answered once, also
\* when its worker returns after the caller has given up.
OneRecordPerCall == \A c \in Call : records[c] = IF answer[c] = "none" THEN 0 ELSE 1

=============================================================================
