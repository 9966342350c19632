-------------------------------- MODULE AuditIds --------------------------------
(***************************************************************************)
(* collect_audit_events (ports.py): the ids of the domain's audit events in  *)
(* the checkpoint of each workflow thread.  The gateway of a process         *)
(* remembers which ids it has handed to which thread; the node, or the       *)
(* recovery of a finished thread, then saves them, or fails to.              *)
(***************************************************************************)
EXTENDS Naturals, Sequences, FiniteSets

CONSTANTS Process,   \* processes that serve the tenant's threads
          AThread,   \* threads, each with its own ticket and operation
          MaxEvents  \* a bound of the model on the audit log

VARIABLES
  log,      \* the tenant's audit log: the thread whose entities each event is about
  handed,   \* _audit_seen of each process and thread
  taken,    \* ids a node of the process has collected and not saved yet
  ids,      \* audit_event_ids of each thread's checkpoint, in order
  failed    \* threads for which this process has lost a collection

auditVars == <<log, handed, taken, ids, failed>>

Saved(th) == {ids[th][i] : i \in 1 .. Len(ids[th])}

\* events of one thread's ticket and operation
About(th) == {i \in 1 .. Len(log) : log[i] = th}

\* a command of the domain, of this workflow or of anybody else
Event(th) ==
  /\ Len(log) < MaxEvents
  /\ log' = Append(log, th)
  /\ UNCHANGED <<handed, taken, ids, failed>>

\* what the process takes for known: its own cache, and what the checkpoint says
Known(p, th) == handed[p][th] \cup Saved(th)

\* mutant: a cursor of the tenant instead of the thread's ids
MarkedToCursor(p, th, new) == 1 .. Len(log)

Marked(p, th, new) == Known(p, th) \cup new

\* one process at a time works on a thread (its lease)
Collect(p, th) ==
  /\ \A q \in Process : taken[q][th] = {}
  /\ LET new == About(th) \ Known(p, th) IN
     /\ taken' = [taken EXCEPT ![p][th] = new]
     /\ handed' = [handed EXCEPT ![p][th] = Marked(p, th, new)]
  /\ UNCHANGED <<log, ids, failed>>

InOrder(S) == CHOOSE s \in [1 .. Cardinality(S) -> S] : \A i, j \in DOMAIN s : i < j => s[i] < s[j]

\* the node's update is written to the checkpoint
Save(p, th) ==
  /\ taken[p][th] # {}
  /\ ids' = [ids EXCEPT ![th] = @ \o InOrder(taken[p][th])]
  /\ taken' = [taken EXCEPT ![p][th] = {}]
  /\ UNCHANGED <<log, handed, failed>>

\* the write fails: the process still takes the ids for known
SaveFails(p, th) ==
  /\ taken[p][th] # {}
  /\ taken' = [taken EXCEPT ![p][th] = {}]
  /\ failed' = [failed EXCEPT ![p] = @ \cup {th}]
  /\ UNCHANGED <<log, handed, ids>>

\* the cache goes with the process
RestartProcess(p) ==
  /\ handed' = [handed EXCEPT ![p] = [th \in AThread |-> {}]]
  /\ taken' = [taken EXCEPT ![p] = [th \in AThread |-> {}]]
  /\ failed' = [failed EXCEPT ![p] = {}]
  /\ UNCHANGED <<log, ids>>

AuditInit ==
  /\ log = <<>>
  /\ handed = [p \in Process |-> [th \in AThread |-> {}]]
  /\ taken = [p \in Process |-> [th \in AThread |-> {}]]
  /\ ids = [th \in AThread |-> <<>>]
  /\ failed = [p \in Process |-> {}]

AuditNext ==
  \/ \E th \in AThread : Event(th)
  \/ \E p \in Process, th \in AThread : Collect(p, th) \/ Save(p, th) \/ SaveFails(p, th)
  \/ \E p \in Process : RestartProcess(p)

AuditSpec == AuditInit /\ [][AuditNext]_auditVars

-----------------------------------------------------------------------------
(* Properties *)

\* collect_audit_events: whichever processes serve a thread, and whatever they lose, its
\* checkpoint lists no event twice and none of another thread.
IdsAreOwn ==
  \A th \in AThread :
    /\ Saved(th) \subseteq About(th)
    /\ Cardinality(Saved(th)) = Len(ids[th])

\* collect_audit_events: an event is missing from the list only until the next
\* collection, unless this process has lost one: a process without a failed write takes
\* nothing for known that is not saved, or about to be.
NothingForgotten ==
  \A p \in Process, th \in AThread :
    th \notin failed[p] => handed[p][th] \subseteq Saved(th) \cup taken[p][th]

\* collect_audit_events: the list has the thread's events once each, and misses none that
\* was not lost in a write.
AuditIdsExact == IdsAreOwn /\ NothingForgotten
=============================================================================
