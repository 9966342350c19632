-------------------------------- MODULE Breaker --------------------------------
(***************************************************************************)
(* CircuitBreaker (reliability.py) with several threads that call through it. *)
(* Assignments between two calls are one step (the interpreter switches       *)
(* threads at calls only); reading the clock is a call, and so the state may  *)
(* change between the test whether it is "open" and the judgement by the time. *)
(***************************************************************************)
EXTENDS Naturals

CONSTANTS Caller,     \* threads
          Threshold,  \* failure_threshold
          MaxFailures \* a bound of the model on the failures counted

ASSUME ThresholdAssumption == Threshold \in Nat \ {0}

VARIABLES
  state,     \* _state
  failures,  \* _consecutive_failures
  openedAt,  \* _opened_at: never, less than the reset timeout ago, or longer ago
  caller     \* caller[c]: idle, looking at the clock to judge an open breaker, in the
             \* function, or about to note the time of opening

breakerVars == <<state, failures, openedAt, caller>>

State == {"closed", "open", "half_open"}
Clock == {"never", "recent", "elapsed"}

Elapse ==
  /\ openedAt = "recent"
  /\ openedAt' = "elapsed"
  /\ UNCHANGED <<state, failures, caller>>

\* A breaker that is closed or half-open lets every call through.
Admit(c) ==
  /\ caller[c] = "idle" /\ state # "open"
  /\ caller' = [caller EXCEPT ![c] = "calling"]
  /\ UNCHANGED <<state, failures, openedAt>>

\* An open one that has noted the time looks at the clock first.  (One that has not
\* refuses at once: the fallback is used, or an error raised, and nothing changes.)
Look(c) ==
  /\ caller[c] = "idle" /\ state = "open" /\ openedAt # "never"
  /\ caller' = [caller EXCEPT ![c] = "looking"]
  /\ UNCHANGED <<state, failures, openedAt>>

\* The clock was read before the timeout was over, or reset took the time away
\* (TypeError): the state stays what the others have made of it.
Undue(c) ==
  /\ caller[c] = "looking"
  /\ caller' = [caller EXCEPT ![c] = IF state = "open" \/ openedAt = "never"
                                     THEN "idle" ELSE "calling"]
  /\ UNCHANGED <<state, failures, openedAt>>

\* The timeout is over: half_open, whatever the others have made of the state; the
\* thread calls the function, or only asked for the state.
HalfOpen(c) ==
  /\ caller[c] = "looking" /\ openedAt = "elapsed"
  /\ state' = "half_open"
  /\ \E next \in {"calling", "idle"} : caller' = [caller EXCEPT ![c] = next]
  /\ UNCHANGED <<failures, openedAt>>

\* mutant: a success closes the breaker and leaves the count
SucceedKeepingCount(c) ==
  /\ caller[c] = "calling"
  /\ state' = "closed"
  /\ caller' = [caller EXCEPT ![c] = "idle"]
  /\ UNCHANGED <<failures, openedAt>>

\* also the success of a call that was admitted before the breaker opened
Succeed(c) ==
  /\ caller[c] = "calling"
  /\ failures' = 0 /\ state' = "closed"
  /\ caller' = [caller EXCEPT ![c] = "idle"]
  /\ UNCHANGED openedAt

Fail(c) ==
  /\ caller[c] = "calling" /\ failures < MaxFailures
  /\ failures' = failures + 1
  /\ IF failures + 1 >= Threshold
     THEN /\ state' = "open"
          /\ caller' = [caller EXCEPT ![c] = "stamping"]
     ELSE /\ caller' = [caller EXCEPT ![c] = "idle"]
          /\ UNCHANGED state
  /\ UNCHANGED openedAt

\* _opened_at = time.monotonic()
Stamp(c) ==
  /\ caller[c] = "stamping"
  /\ openedAt' = "recent"
  /\ caller' = [caller EXCEPT ![c] = "idle"]
  /\ UNCHANGED <<state, failures>>

Reset ==
  /\ state' = "closed" /\ failures' = 0 /\ openedAt' = "never"
  /\ UNCHANGED caller

BreakerInit ==
  /\ state = "closed" /\ failures = 0 /\ openedAt = "never"
  /\ caller = [c \in Caller |-> "idle"]

BreakerNext ==
  \/ Elapse \/ Reset
  \/ \E c \in Caller :
       Admit(c) \/ Look(c) \/ Undue(c) \/ HalfOpen(c) \/ Succeed(c) \/ Fail(c) \/ Stamp(c)

BreakerSpec == BreakerInit /\ [][BreakerNext]_breakerVars

-----------------------------------------------------------------------------
(* Properties *)

BreakerTypeOK ==
  /\ state \in State /\ failures \in Nat /\ openedAt \in Clock
  /\ caller \in [Caller -> {"idle", "looking", "calling", "stamping"}]

\* CircuitBreaker: however tests, clock readings and results of concurrent calls
\* interleave, no breaker is closed with as many failures in a row as the threshold, an
\* open one has that many, and one that is not closed has noted the time or is about
\* to, so that none stays open for ever.  A half-open one may count fewer: a success or
\* a reset may come between the test of "open" and the assignment of "half_open".
BreakerConsistent ==
  /\ state = "closed" => failures < Threshold
  /\ state = "open" => /\ failures >= Threshold
                       /\ openedAt # "never" \/ \E c \in Caller : caller[c] = "stamping"
  /\ state = "half_open" => openedAt # "never"

=============================================================================
