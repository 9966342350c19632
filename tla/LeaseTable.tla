------------------------------- MODULE LeaseTable -------------------------------
(***************************************************************************)
(* The lease of one workflow thread, as the in-memory repository keeps it     *)
(* (claim_thread, release_thread); the row of workflow_threads in PostgreSQL  *)
(* follows the same rules.  Leases expire while their owners are at work, and *)
(* an owner that lost its lease releases it all the same when it is done.     *)
(***************************************************************************)
EXTENDS Naturals

CONSTANTS Owner,    \* owner_id of the runners
          Fingerprint,    \* request fingerprints
          MaxClaims,  \* a bound of the model on the generation
          NoOwner

ASSUME LeaseAssumption == NoOwner \notin Owner /\ MaxClaims \in Nat

VARIABLES
  lease,   \* the row: fingerprint, owner, whether the time is over, generation
  claimed  \* claimed[o]: the generation o got, until it releases; 0 if none

leaseVars == <<lease, claimed>>

NoLease == [print |-> "none", owner |-> NoOwner, time |-> "none", generation |-> 0]

\* the fingerprint is that of the row, and the lease is the owner's own, released, or over
Claimable(o, p) == lease.print = p /\ (lease.owner = o \/ lease.time # "running")

ClaimThread(o, p) ==
  /\ lease = NoLease \/ Claimable(o, p)
  /\ lease.generation < MaxClaims
  /\ lease' = [print |-> p, owner |-> o, time |-> "running",
               generation |-> lease.generation + 1]
  /\ claimed' = [claimed EXCEPT ![o] = lease.generation + 1]

\* mutant: the owner is not compared
ReleasedByAll(o) == TRUE

Released(o) == lease.owner = o

ReleaseThread(o) ==
  /\ claimed[o] # 0
  /\ lease' = IF Released(o) THEN [lease EXCEPT !.owner = NoOwner, !.time = "none"] ELSE lease
  /\ claimed' = [claimed EXCEPT ![o] = 0]

Expire ==
  /\ lease.time = "running"
  /\ lease' = [lease EXCEPT !.time = "over"]
  /\ UNCHANGED claimed

LeaseInit == lease = NoLease /\ claimed = [o \in Owner |-> 0]

LeaseNext ==
  \/ \E o \in Owner : ReleaseThread(o) \/ \E p \in Fingerprint : ClaimThread(o, p)
  \/ Expire

LeaseSpec == LeaseInit /\ [][LeaseNext]_leaseVars

-----------------------------------------------------------------------------
(* Properties *)

LeaseTypeOK ==
  /\ lease \in [print : Fingerprint \cup {"none"}, owner : Owner \cup {NoOwner},
                time : {"none", "running", "over"}, generation : Nat]
  /\ claimed \in [Owner -> Nat]

\* release_thread: whoever claimed last and has not released holds the row, whatever
\* those who lost the thread before release late; nobody else does.
NewestClaimHolds ==
  /\ lease.owner # NoOwner => claimed[lease.owner] = lease.generation
  /\ \A o \in Owner : claimed[o] # 0 =>
       claimed[o] <= lease.generation
         /\ (claimed[o] = lease.generation => lease.owner = o /\ lease.time # "none")

\* claim_thread: a running lease passes to another owner only after its own owner gave
\* it up, and a thread stays bound to the request it was first claimed for.
NoTakeOver ==
  [][/\ lease.time = "running" => lease'.owner \in {lease.owner, NoOwner}
     /\ lease.time = "running" /\ lease'.owner = NoOwner => claimed'[lease.owner] = 0
     /\ lease.print # "none" => lease'.print = lease.print]_leaseVars
=============================================================================
