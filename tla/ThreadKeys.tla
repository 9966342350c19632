------------------------------- MODULE ThreadKeys -------------------------------
(***************************************************************************)
(* Where WorkflowRunner keeps the checkpoint of a (tenant, thread) pair, in  *)
(* the profile without leases: the versioned key with lengths, or the key of *)
(* older releases when what is stored there is the pair's own.  Names and    *)
(* keys are sequences of characters: a name may hold the separators.         *)
(***************************************************************************)
EXTENDS Naturals, Sequences

CONSTANTS Pair,      \* the <<tenant, thread>> pairs in use
          Decimal,   \* the characters of a length, as the key has it
          Request,   \* request fingerprints
          NoRequest, \* what a checkpoint of an older release has instead
          Nobody

ASSUME PairAssumption == Pair \subseteq Seq(STRING) \X Seq(STRING)

Length == UNION {{Len(p[1]), Len(p[2])} : p \in Pair}

\* the characters of a length are digits, and tell it from another length
ASSUME DecimalAssumption ==
  /\ \A n \in Length : Decimal[n] \in Seq(STRING \ {"|"})
  /\ \A m, n \in Length : Decimal[m] = Decimal[n] => m = n

\* Tenants are those the token registry knows; none is named like a versioned key.
ASSUME TenantAssumption ==
  \A p \in Pair : Len(p[1]) < 3 \/ SubSeq(p[1], 1, 3) # <<"v", "2", "|">>

ASSUME NobodyAssumption == Nobody \notin {p[1] : p \in Pair}

VARIABLES
  saver,    \* what the checkpointer keeps under each key
  bound,    \* pairs this process has served
  recent,   \* the tenant a thread name was last used with
  shadowed  \* pairs whose own checkpoint a failed probe hid from a start

keyVars == <<saver, bound, recent, shadowed>>

Thread == {p[2] : p \in Pair}

\* a name after its length
Block(name) == Decimal[Len(name)] \o <<"|">> \o name

\* mutant: without the lengths
CheckpointKeyPlain(p) == <<"v", "2", "|">> \o (p[1] \o <<"|">> \o p[2])

CheckpointKey(p) == <<"v", "2", "|">> \o (Block(p[1]) \o (<<"|">> \o Block(p[2])))

LegacyKey(p) == p[1] \o <<":">> \o p[2]

Key == {CheckpointKey(p) : p \in Pair} \cup {LegacyKey(p) : p \in Pair}

\* At most one checkpoint under a key: its pair and its request.
None == {}
Stored(p, r) == {[pair |-> p, request |-> r]}
Own(p, cps) == \E cp \in cps : cp.pair = p

\* The key for a pair; the probe of the checkpointer may raise.
CfgFor(p, probed) ==
  IF probed /\ saver[CheckpointKey(p)] = None /\ Own(p, saver[LegacyKey(p)])
  THEN LegacyKey(p) ELSE CheckpointKey(p)

Exists(p, probed) == p \in bound \/ (probed /\ saver[CfgFor(p, probed)] # None)

Remember(p) ==
  /\ bound' = bound \cup {p}
  /\ recent' = [recent EXCEPT ![p[2]] = p[1]]

\* start: a new checkpoint, the one of the same request, or a conflict
Start(p, r, probed) ==
  LET key == CfgFor(p, probed) IN
  /\ Remember(p)
  /\ \/ /\ saver[key] = None
        /\ saver' = [saver EXCEPT ![key] = Stored(p, r)]
        /\ shadowed' = IF saver[CfgFor(p, TRUE)] # None THEN shadowed \cup {p} ELSE shadowed
     \/ saver[key] # None /\ UNCHANGED <<saver, shadowed>>

\* resume and get_state: the caller's tenant, or the one used last with that name
ResolveGiven(p, probed) == Exists(p, probed) /\ Remember(p)
ResolveRecent(thread, p, probed) ==
  /\ p = <<recent[thread], thread>> /\ Exists(p, probed)
  /\ UNCHANGED <<bound, recent>>

\* resume, get_state: what is found goes on under the key it is found at; a resume that
\* finds nothing there raises.
Resume(p, probed) ==
  /\ ResolveGiven(p, probed) \/ ResolveRecent(p[2], p, probed)
  /\ UNCHANGED <<saver, shadowed>>

Restart ==
  /\ bound' = {} /\ recent' = [thread \in Thread |-> Nobody]
  /\ UNCHANGED <<saver, shadowed>>

\* what an older release left: under a shared key, what was written last
KeyInit ==
  /\ \E old \in [{LegacyKey(p) : p \in Pair} ->
                   {None} \cup {Stored(p, NoRequest) : p \in Pair}] :
       /\ \A key \in DOMAIN old : \A cp \in old[key] : LegacyKey(cp.pair) = key
       /\ saver = [key \in Key |-> IF key \in DOMAIN old THEN old[key] ELSE None]
  /\ bound = {} /\ recent = [thread \in Thread |-> Nobody] /\ shadowed = {}

KeyNext ==
  \/ \E p \in Pair, probed \in BOOLEAN :
       Resume(p, probed) \/ \E r \in Request : Start(p, r, probed)
  \/ Restart

KeySpec == KeyInit /\ [][KeyNext]_keyVars

-----------------------------------------------------------------------------
(* Properties *)

\* _cfg_for, _checkpoint_thread_key: however names are cut, and whether a probe fails or
\* not, the key of a pair leads to that pair's checkpoint or to none.
OnlyItsOwn ==
  \A p \in Pair, probed \in BOOLEAN : \A cp \in saver[CfgFor(p, probed)] : cp.pair = p

\* _cfg_for, _checkpoint_exists: where a checkpoint is, one of its pair's is found again, by
\* later releases and processes too; a pair has two only when a failing probe hid the older
\* one from a start, and that one is not reached any more.
FoundAgain ==
  /\ \A key \in Key : \A cp \in saver[key] : saver[CfgFor(cp.pair, TRUE)] # None
  /\ \A p \in Pair : Own(p, saver[CheckpointKey(p)]) /\ Own(p, saver[LegacyKey(p)])
       => p \in shadowed

\* _cfg_for: across releases, processes and failing probes, a pair's key leads to a
\* checkpoint of its own or to none, to none only if it has none or the probe fails, and
\* to the newer of two where a failing probe let a start make a second (see FailsClosed).
KeysLeadHome == OnlyItsOwn /\ FoundAgain

\* "checkpoint probe is fail-closed" (runner.py:566): whether probes fail or not, no pair
\* has a second checkpoint beside the one it had.
FailsClosed ==
  \A p \in Pair : ~ (Own(p, saver[CheckpointKey(p)]) /\ Own(p, saver[LegacyKey(p)]))
=============================================================================
