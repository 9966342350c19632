------------------------------ MODULE ThreadsProof ------------------------------
(***************************************************************************)
(* A thread of the workflow and what is kept for it: its lease (LeaseTable), *)
(* the key of its checkpoint (ThreadKeys), the audit events it lists         *)
(* (AuditIds), the request it began with (Intake); and the ids and citations *)
(* of policy documents (KnowledgeStore), strings joined with separators as a *)
(* thread's keys are.  For any values of their constants.                    *)
(***************************************************************************)
EXTENDS LeaseTable, ThreadKeys, AuditIds, Intake, KnowledgeStore, FiniteSetTheorems,
        SequenceTheorems, TLAPS

-----------------------------------------------------------------------------
(* LeaseTable: an owner that lost its lease can neither free the thread nor  *)
(* take it back                                                              *)

\* The variables keep their types.
LEMMA LeaseTypes == LeaseSpec => []LeaseTypeOK
<1>1. LeaseInit => LeaseTypeOK
  BY DEF LeaseInit, NoLease, LeaseTypeOK
<1>2. LeaseTypeOK /\ [LeaseNext]_leaseVars => LeaseTypeOK'
  <2> SUFFICES ASSUME LeaseTypeOK, [LeaseNext]_leaseVars
               PROVE  LeaseTypeOK'
    OBVIOUS
  <2> USE DEF LeaseTypeOK
  <2>1. ASSUME NEW o \in Owner, NEW p \in Fingerprint, ClaimThread(o, p) PROVE LeaseTypeOK'
    BY <2>1 DEF ClaimThread
  <2>2. ASSUME NEW o \in Owner, ReleaseThread(o) PROVE LeaseTypeOK'
    BY <2>2 DEF ReleaseThread
  <2>3. CASE Expire
    BY <2>3 DEF Expire
  <2>4. CASE UNCHANGED leaseVars
    BY <2>4 DEF leaseVars
  <2>5. QED
    BY <2>1, <2>2, <2>3, <2>4 DEF LeaseNext
<1>3. QED
  BY <1>1, <1>2, PTL DEF LeaseSpec

\* A row has a time exactly when it has an owner: what NewestClaimHolds needs to be
\* inductive, and NoTakeOver to know of whom it speaks.
Timed == lease.owner # NoOwner <=> lease.time # "none"

LEMMA HoldsStep ==
  ASSUME LeaseTypeOK, NewestClaimHolds, Timed, [LeaseNext]_leaseVars
  PROVE  NewestClaimHolds' /\ Timed'
<1> USE LeaseAssumption DEF LeaseTypeOK, NewestClaimHolds, Timed
<1>1. ASSUME NEW o \in Owner, NEW p \in Fingerprint, ClaimThread(o, p)
      PROVE  NewestClaimHolds' /\ Timed'
  \* the new generation is greater than every one claimed before
  <2>1. /\ lease'.owner = o /\ lease'.time = "running"
        /\ lease'.generation = lease.generation + 1 /\ claimed'[o] = lease'.generation
        /\ \A u \in Owner \ {o} : claimed'[u] = claimed[u]
    BY <1>1 DEF ClaimThread
  <2>2. \A u \in Owner \ {o} : claimed[u] # 0 => claimed[u] < lease'.generation
    BY <2>1
  <2>3. QED
    BY <2>1, <2>2
<1>2. ASSUME NEW o \in Owner, ReleaseThread(o)
      PROVE  NewestClaimHolds' /\ Timed'
  <2>1. claimed'[o] = 0 /\ \A u \in Owner \ {o} : claimed'[u] = claimed[u]
    BY <1>2 DEF ReleaseThread
  <2>2. CASE lease.owner = o
    \* nobody else had the generation of the row
    <3>1. /\ lease'.owner = NoOwner /\ lease'.time = "none"
          /\ lease'.generation = lease.generation
      BY <1>2, <2>2 DEF ReleaseThread, Released
    <3>2. \A u \in Owner \ {o} : claimed[u] # 0 => claimed[u] # lease.generation
      BY <2>2
    <3>3. QED
      BY <2>1, <3>1, <3>2
  <2>3. CASE lease.owner # o
    <3>1. lease' = lease
      BY <1>2, <2>3 DEF ReleaseThread, Released
    <3>2. QED
      BY <2>1, <2>3, <3>1
  <2>4. QED
    BY <2>2, <2>3
<1>3. CASE Expire
  BY <1>3 DEF Expire
<1>4. CASE UNCHANGED leaseVars
  BY <1>4 DEF leaseVars
<1>5. QED
  BY <1>1, <1>2, <1>3, <1>4 DEF LeaseNext

LEMMA AlwaysHolds == LeaseSpec => [](NewestClaimHolds /\ Timed)
<1>1. LeaseInit => NewestClaimHolds /\ Timed
  BY DEF LeaseInit, NoLease, NewestClaimHolds, Timed
<1>2. QED
  BY <1>1, LeaseTypes, HoldsStep, PTL DEF LeaseSpec

\* release_thread: whoever claimed last and has not released holds the row, for any
\* number of owners and claims.
THEOREM NewestHolds == LeaseSpec => []NewestClaimHolds
  BY AlwaysHolds, PTL

\* claim_thread: no running lease passes to another owner, and the fingerprint stays.
THEOREM LeasesAreNotTaken == LeaseSpec => NoTakeOver
<1> DEFINE Kept ==
      /\ lease.time = "running" => lease'.owner \in {lease.owner, NoOwner}
      /\ lease.time = "running" /\ lease'.owner = NoOwner => claimed'[lease.owner] = 0
      /\ lease.print # "none" => lease'.print = lease.print
<1>1. LeaseTypeOK /\ Timed /\ [LeaseNext]_leaseVars => [Kept]_leaseVars
  <2> SUFFICES ASSUME LeaseTypeOK, Timed, LeaseNext PROVE Kept
    OBVIOUS
  <2> USE LeaseAssumption DEF LeaseTypeOK, Timed
  <2>1. ASSUME NEW o \in Owner, NEW p \in Fingerprint, ClaimThread(o, p) PROVE Kept
    BY <2>1 DEF ClaimThread, Claimable, NoLease
  <2>2. ASSUME NEW o \in Owner, ReleaseThread(o) PROVE Kept
    BY <2>2 DEF ReleaseThread, Released
  <2>3. CASE Expire
    BY <2>3 DEF Expire
  <2>4. QED
    BY <2>1, <2>2, <2>3 DEF LeaseNext
<1>2. QED
  BY <1>1, LeaseTypes, AlwaysHolds, PTL DEF LeaseSpec, NoTakeOver

-----------------------------------------------------------------------------
(* Intake: any messages and order numbers, any number of questions and       *)
(* answers                                                                   *)

\* A number that is known was named, the field goes first, and until the next parse a
\* number in the message counts as known.
Remembered ==
  /\ orderId # NoOrder => orderId \in named
  /\ field # NoOrder => orderId = field
  /\ named # {} => orderId # NoOrder \/ (phase = "parse" /\ request.order # NoOrder)
  /\ phase = "parse" /\ request.order # NoOrder => request.order \in named

\* Nothing is missing before the first parse and between an answer and the next one.
Settled == phase \in {"start", "parse"} => missing = {}

IntakeInv == Remembered /\ Settled /\ EvidenceHasItsInputs /\ NoNumberAskedTwice

LEMMA IntakeBegins == IntakeInit => IntakeInv
  BY DEF IntakeInit, IntakeInv, Remembered, Settled, EvidenceHasItsInputs, NoNumberAskedTwice

LEMMA ReceiveKeeps ==
  ASSUME IntakeInv, NEW t \in Text, NEW hint, Receive(t, hint)
  PROVE  IntakeInv'
<1> USE DEF IntakeInv, Settled
<1>1. missing = {} /\ missing' = {} /\ phase' = "parse"
  BY DEF Receive
<1>2. orderId' = hint /\ field' = hint /\ request' = t
  BY DEF Receive
<1>3. named' = Numbers(t) \cup ({hint} \ {NoOrder})
  BY DEF Receive
<1>4. Remembered'
  BY <1>1, <1>2, <1>3 DEF Remembered, Numbers
<1>5. QED
  BY <1>1, <1>4 DEF EvidenceHasItsInputs, NoNumberAskedTwice

LEMMA ClarifyKeeps ==
  ASSUME IntakeInv, NEW t, NEW order, Clarify(t, order)
  PROVE  IntakeInv'
<1> USE DEF IntakeInv, Settled
<1>1. phase = "clarify" /\ missing' = {} /\ phase' = "parse"
  BY DEF Clarify
<1>2. /\ orderId' = IF order # NoOrder THEN order ELSE orderId
      /\ field' = IF order # NoOrder THEN order ELSE field
      /\ request' = t
      /\ named' = named \cup Numbers(t) \cup ({order} \ {NoOrder})
  BY DEF Clarify
<1>3. Remembered'
  BY <1>1, <1>2 DEF Remembered, Numbers
<1>4. QED
  BY <1>1, <1>3 DEF EvidenceHasItsInputs, NoNumberAskedTwice

LEMMA ParseKeeps ==
  ASSUME IntakeInv, Parse
  PROVE  IntakeInv'
<1> DEFINE order == OrderOf(request, orderId)
<1> DEFINE fields == Missing(request, order)
<1>1. /\ phase = "parse" /\ orderId' = order /\ missing' = fields
      /\ parsed' = [intent |-> IntentOf(request), tags |-> TagsOf(request)]
      /\ phase' = RouteAfterParse(IntentOf(request), fields)
      /\ request' = request /\ field' = field /\ named' = named
  BY DEF Parse
<1>2. phase' = "clarify" <=> fields # {}
  BY <1>1 DEF RouteAfterParse
<1>3. phase' \in {"clarify", "gather_evidence", "escalate"}
  BY <1>1 DEF RouteAfterParse
\* the number that is used was named, and if any was, there is one
<1>4. /\ order # NoOrder => order \in named
      /\ field # NoOrder => order = field
      /\ named # {} => order # NoOrder
  BY <1>1 DEF IntakeInv, Remembered, OrderOf
<1>5. Remembered'
  BY <1>1, <1>3, <1>4 DEF Remembered
<1>6. Settled'
  BY <1>3 DEF Settled
<1>7. NoNumberAskedTwice'
  <2>1. "order_id" \in fields => order = NoOrder
    BY DEF Missing
  <2>2. QED
    BY <1>1, <1>2, <1>4, <2>1 DEF NoNumberAskedTwice
<1>8. EvidenceHasItsInputs'
  <2> SUFFICES ASSUME phase' = "gather_evidence"
               PROVE  /\ parsed'.intent = "refund" /\ parsed'.tags # {}
                      /\ orderId' \in named' /\ (field' # NoOrder => orderId' = field')
    BY DEF EvidenceHasItsInputs
  <2>1. IntentOf(request) = "refund" /\ fields = {}
    BY <1>1 DEF RouteAfterParse
  <2>2. order # NoOrder /\ TagsOf(request) # {}
    BY <2>1 DEF Missing
  <2>3. QED
    BY <1>1, <1>4, <2>1, <2>2
<1>9. QED
  BY <1>5, <1>6, <1>7, <1>8 DEF IntakeInv

LEMMA IntakeAlways == IntakeSpec => []IntakeInv
<1>1. IntakeInv /\ [IntakeNext]_intakeVars => IntakeInv'
  <2> SUFFICES ASSUME IntakeInv, [IntakeNext]_intakeVars PROVE IntakeInv'
    OBVIOUS
  <2>1. CASE IntakeNext
    BY <2>1, ReceiveKeeps, ClarifyKeeps, ParseKeeps DEF IntakeNext
  <2>2. CASE UNCHANGED intakeVars
    BY <2>2 DEF intakeVars, IntakeInv, Remembered, Settled, EvidenceHasItsInputs,
                NoNumberAskedTwice
  <2>3. QED
    BY <2>1, <2>2
<1>2. QED
  BY <1>1, IntakeBegins, PTL DEF IntakeSpec

\* extract_intent, clarify: after any conversation, evidence is gathered only for a refund
\* whose order was named and whose goods were described, and nobody who has named an order
\* is asked for its number again.
THEOREM ConversationsInOrder == IntakeSpec => []IntakeInOrder
  BY IntakeAlways, PTL DEF IntakeInv, IntakeInOrder

-----------------------------------------------------------------------------
(* ThreadKeys: the key of a pair                                             *)

\* The characters of names and keys.  No prover knows a literal to be in STRING.
Char == STRING \cup {"v", "2", "c", "|", ":", "@", "#"}
Name == Seq(Char)

\* A name of a part of the characters is a name.
LEMMA OfFewer ==
  ASSUME NEW S \in SUBSET Char, NEW s \in Seq(S)
  PROVE  s \in Name /\ Len(s) \in Nat /\ \A i \in 1 .. Len(s) : s[i] \in S
<1>1. s \in [1 .. Len(s) -> S] /\ Len(s) \in Nat
  BY LenProperties
<1>2. QED
  BY <1>1 DEF Name

\* Concatenation of names.
LEMMA Joined ==
  ASSUME NEW s \in Name, NEW t \in Name
  PROVE  /\ s \o t \in Name /\ Len(s) \in Nat /\ Len(s \o t) = Len(s) + Len(t)
         /\ \A i \in 1 .. Len(s) : (s \o t)[i] = s[i]
         /\ \A i \in 1 .. Len(t) : (s \o t)[Len(s) + i] = t[i]
<1>1. /\ s \o t \in Name /\ Len(s \o t) = Len(s) + Len(t)
      /\ \A i \in 1 .. Len(s) + Len(t) :
           (s \o t)[i] = IF i <= Len(s) THEN s[i] ELSE t[i - Len(s)]
  BY ConcatProperties, Zenon DEF Name
<1>2. Len(s) \in Nat /\ Len(t) \in Nat
  BY DEF Name
<1>3. ASSUME NEW i \in 1 .. Len(s) PROVE (s \o t)[i] = s[i]
  BY <1>1, <1>2
<1>4. ASSUME NEW i \in 1 .. Len(t) PROVE (s \o t)[Len(s) + i] = t[i]
  <2>1. Len(s) + i \in 1 .. Len(s) + Len(t) /\ ~ Len(s) + i <= Len(s) /\ (Len(s) + i) - Len(s) = i
    BY <1>2
  <2>2. QED
    BY <2>1, <1>1
<1>5. QED
  BY <1>1, <1>2, <1>3, <1>4

LEMMA Separator == <<"|">> \in Name /\ Len(<<"|">>) = 1 /\ <<"|">>[1] = "|"
<1>1. "|" \in Char
  BY DEF Char
<1>2. QED
  BY <1>1 DEF Name

LEMMA Prefix == <<"v", "2", "|">> \in Name
<1>1. "v" \in Char /\ "2" \in Char /\ "|" \in Char
  BY DEF Char
<1>2. QED
  BY <1>1 DEF Name

\* What stands where, in a name that is behind its length.
LEMMA BlockPlaces ==
  ASSUME NEW d \in Name, NEW a \in Name, NEW x \in Name,
         NEW key, key = (d \o <<"|">> \o a) \o x
  PROVE  /\ \A i \in 1 .. Len(d) : key[i] = d[i]
         /\ key[Len(d) + 1] = "|"
         /\ \A i \in 1 .. Len(a) : key[Len(d) + 1 + i] = a[i]
<1> DEFINE m == d \o <<"|">>
<1> DEFINE n == m \o a
<1>1. /\ m \in Name /\ Len(m) = Len(d) + 1 /\ Len(d) \in Nat
      /\ \A i \in 1 .. Len(d) : m[i] = d[i]
      /\ m[Len(d) + 1] = "|"
  BY Joined, Separator
<1> HIDE DEF m
<1>2. /\ n \in Name /\ Len(n) = Len(m) + Len(a) /\ Len(a) \in Nat
      /\ \A i \in 1 .. Len(m) : n[i] = m[i]
      /\ \A i \in 1 .. Len(a) : n[Len(m) + i] = a[i]
  BY <1>1, Joined
<1> HIDE DEF n
<1>3. \A i \in 1 .. Len(n) : (n \o x)[i] = n[i]
  BY <1>2, Joined
<1>4. \A i \in 1 .. Len(m) : (n \o x)[i] = m[i]
  BY <1>1, <1>2, <1>3
<1>5. \A i \in 1 .. Len(a) : (n \o x)[Len(m) + i] = a[i]
  BY <1>1, <1>2, <1>3
<1>6. /\ \A i \in 1 .. Len(d) : (n \o x)[i] = d[i]
      /\ (n \o x)[Len(d) + 1] = "|"
  <2>1. Len(d) + 1 \in 1 .. Len(m) /\ 1 .. Len(d) \subseteq 1 .. Len(m)
    BY <1>1
  <2>2. QED
    BY <2>1, <1>1, <1>4
<1>7. \A i \in 1 .. Len(a) : (n \o x)[Len(d) + 1 + i] = a[i]
  BY <1>1, <1>5
<1>8. key = n \o x
  BY DEF m, n
<1>9. QED
  BY <1>6, <1>7, <1>8

\* The same characters in front can be taken away.
LEMMA FrontIsTaken ==
  ASSUME NEW h \in Name, NEW x \in Name, NEW y \in Name, h \o x = h \o y
  PROVE  x = y
  BY ConcatSimplifications, Zenon DEF Name

\* A length ends at the first separator behind it, the name where the length says: what
\* begins with a name after its length tells the name and the rest.
LEMMA BlockIsRead ==
  ASSUME NEW a \in Name, NEW b \in Name, Len(a) \in Length, Len(b) \in Length,
         NEW x \in Name, NEW y \in Name, Block(a) \o x = Block(b) \o y
  PROVE  a = b /\ x = y
<1> DEFINE c == Decimal[Len(a)]
<1> DEFINE d == Decimal[Len(b)]
<1>1. c \in Seq(STRING \ {"|"}) /\ d \in Seq(STRING \ {"|"}) /\ (c = d => Len(a) = Len(b))
  BY DecimalAssumption
<1>2. PICK key : /\ key = (c \o <<"|">> \o a) \o x /\ key = (d \o <<"|">> \o b) \o y
  BY DEF Block
<1> HIDE DEF c, d
<1>3. /\ c \in Name /\ Len(c) \in Nat /\ \A i \in 1 .. Len(c) : c[i] # "|"
      /\ d \in Name /\ Len(d) \in Nat /\ \A i \in 1 .. Len(d) : d[i] # "|"
  <2>1. STRING \ {"|"} \in SUBSET Char
    BY DEF Char
  <2>2. \A s \in Seq(STRING \ {"|"}) :
          s \in Name /\ Len(s) \in Nat /\ \A i \in 1 .. Len(s) : s[i] \in STRING \ {"|"}
    BY <2>1, OfFewer
  <2>3. QED
    BY <1>1, <2>2
<1>4. /\ \A i \in 1 .. Len(c) : key[i] = c[i]
      /\ key[Len(c) + 1] = "|"
      /\ \A i \in 1 .. Len(a) : key[Len(c) + 1 + i] = a[i]
  <2>1. c \in Name /\ key = (c \o <<"|">> \o a) \o x
    BY <1>2, <1>3
  <2>2. QED
    BY <2>1, BlockPlaces
<1>5. /\ \A i \in 1 .. Len(d) : key[i] = d[i]
      /\ key[Len(d) + 1] = "|"
      /\ \A i \in 1 .. Len(b) : key[Len(d) + 1 + i] = b[i]
  <2>1. d \in Name /\ key = (d \o <<"|">> \o b) \o y
    BY <1>2, <1>3
  <2>2. QED
    BY <2>1, BlockPlaces
<1>6. Len(c) = Len(d)
  <2>1. ~ Len(c) < Len(d)
    <3>1. Len(c) < Len(d) => Len(c) + 1 \in 1 .. Len(d)
      BY <1>3
    <3>2. QED
      BY <3>1, <1>3, <1>4, <1>5
  <2>2. ~ Len(d) < Len(c)
    <3>1. Len(d) < Len(c) => Len(d) + 1 \in 1 .. Len(c)
      BY <1>3
    <3>2. QED
      BY <3>1, <1>3, <1>4, <1>5
  <2>3. QED
    BY <2>1, <2>2, <1>3
<1>7. c = d
  <2>1. \A i \in 1 .. Len(c) : c[i] = d[i]
    BY <1>4, <1>5, <1>6
  <2>2. QED
    BY <2>1, <1>3, <1>6, SeqEqual, Zenon DEF Name
<1>8. Len(a) = Len(b)
  BY <1>1, <1>7
<1>9. a = b
  <2>1. \A i \in 1 .. Len(a) : a[i] = b[i]
    BY <1>4, <1>5, <1>6, <1>8
  <2>2. QED
    BY <2>1, <1>8, SeqEqual, Zenon DEF Name
<1>10. x = y
  <2>1. c \o <<"|">> \o a \in Name
    BY <1>3, Joined, Separator
  <2>2. (c \o <<"|">> \o a) \o x = (c \o <<"|">> \o a) \o y
    BY <1>2, <1>7, <1>9
  <2>3. QED
    BY <2>1, <2>2, FrontIsTaken
<1>11. QED
  BY <1>9, <1>10

LEMMA BlockIsName ==
  ASSUME NEW a \in Name, Len(a) \in Length
  PROVE  Block(a) \in Name
<1>1. Decimal[Len(a)] \in Name
  <2>1. Decimal[Len(a)] \in Seq(STRING \ {"|"})
    BY DecimalAssumption
  <2>2. STRING \ {"|"} \in SUBSET Char
    BY DEF Char
  <2>3. QED
    BY <2>1, <2>2, OfFewer
<1>2. QED
  <2> DEFINE d == Decimal[Len(a)]
  <2>1. d \in Name
    BY <1>1
  <2> HIDE DEF d
  <2>2. d \o <<"|">> \o a \in Name
    BY <2>1, Joined, Separator
  <2>3. QED
    BY <2>2 DEF Block, d

LEMMA PairIsNames ==
  ASSUME NEW p \in Pair
  PROVE  /\ p = <<p[1], p[2]>> /\ p[1] \in Name /\ p[2] \in Name
         /\ Len(p[1]) \in Length /\ Len(p[2]) \in Length
<1>1. p = <<p[1], p[2]>> /\ p[1] \in Seq(STRING) /\ p[2] \in Seq(STRING)
  BY PairAssumption
<1>2. STRING \in SUBSET Char
  BY DEF Char
<1>3. p[1] \in Name /\ p[2] \in Name
  BY <1>1, <1>2, OfFewer
<1>4. QED
  BY <1>1, <1>3 DEF Length

\* _checkpoint_thread_key: however names are cut, two pairs have two keys.
THEOREM KeysTellPairsApart ==
  ASSUME NEW p \in Pair, NEW q \in Pair, CheckpointKey(p) = CheckpointKey(q)
  PROVE  p = q
<1> DEFINE h == <<"v", "2", "|">>
<1> DEFINE x == <<"|">> \o Block(p[2])
<1> DEFINE y == <<"|">> \o Block(q[2])
<1>1. /\ p[1] \in Name /\ p[2] \in Name /\ q[1] \in Name /\ q[2] \in Name
      /\ Len(p[1]) \in Length /\ Len(p[2]) \in Length
      /\ Len(q[1]) \in Length /\ Len(q[2]) \in Length
  BY PairIsNames
<1>2. /\ Block(p[1]) \in Name /\ Block(p[2]) \in Name
      /\ Block(q[1]) \in Name /\ Block(q[2]) \in Name
  BY <1>1, BlockIsName
<1>3. <<"|">> \in Name /\ h \in Name
  BY Prefix, Separator
<1>4. /\ x \in Name /\ y \in Name
      /\ Block(p[1]) \o x \in Name /\ Block(q[1]) \o y \in Name
  BY <1>2, <1>3, Joined
<1>5. h \o (Block(p[1]) \o x) = h \o (Block(q[1]) \o y)
  BY DEF CheckpointKey
<1> HIDE DEF h
<1>6. Block(p[1]) \o x = Block(q[1]) \o y
  <2> HIDE DEF x, y
  <2>1. QED
    BY <1>3, <1>4, <1>5, FrontIsTaken
<1>7. p[1] = q[1] /\ x = y
  <2> DEFINE a == p[1]
  <2> DEFINE b == q[1]
  <2>1. a \in Name /\ b \in Name /\ Len(a) \in Length /\ Len(b) \in Length
    BY <1>1
  <2>2. Block(a) \o x = Block(b) \o y /\ x \in Name /\ y \in Name
    BY <1>4, <1>6
  <2> HIDE DEF a, b, x, y
  <2>3. a = b
    BY <2>1, <2>2, BlockIsRead
  <2>4. x = y
    <3>1. Block(a) \in Name /\ Block(a) \o x = Block(a) \o y
      BY <2>1, <2>2, <2>3, BlockIsName
    <3>2. QED
      BY <2>2, <3>1, FrontIsTaken
  <2>5. QED
    BY <2>3, <2>4 DEF a, b
<1>8. Block(p[2]) = Block(q[2])
  BY <1>2, <1>3, <1>7, FrontIsTaken
<1>9. p[2] = q[2]
  <2> DEFINE a == p[2]
  <2> DEFINE b == q[2]
  <2> DEFINE e == <<>>
  <2>1. a \in Name /\ b \in Name /\ Len(a) \in Length /\ Len(b) \in Length
    BY <1>1
  <2>2. e \in Name /\ Block(a) \o e = Block(b) \o e
    BY <1>8 DEF Name
  <2> HIDE DEF a, b, e
  <2>3. a = b
    BY <2>1, <2>2, BlockIsRead
  <2>4. QED
    BY <2>3 DEF a, b
<1>10. QED
  BY <1>7, <1>9, PairIsNames

LEMMA ThreeOf ==
  ASSUME NEW S, NEW s \in Seq(S), Len(s) = 3
  PROVE  s = <<s[1], s[2], s[3]>>
  OBVIOUS

\* No key of an older release looks like a versioned one.
LEMMA KeysOfReleasesDiffer ==
  ASSUME NEW p \in Pair, NEW q \in Pair
  PROVE  LegacyKey(p) # CheckpointKey(q)
<1> DEFINE t == p[1]
<1> DEFINE old == LegacyKey(p)
<1> DEFINE new == CheckpointKey(q)
<1>1. t \in Name /\ p[2] \in Name /\ q[1] \in Name /\ q[2] \in Name
      /\ Len(q[1]) \in Length /\ Len(q[2]) \in Length
  BY PairIsNames
<1>2. new[1] = "v" /\ new[2] = "2" /\ new[3] = "|"
  <2>1. Block(q[1]) \in Name /\ Block(q[2]) \in Name
    BY <1>1, BlockIsName
  <2>2. Block(q[1]) \o (<<"|">> \o Block(q[2])) \in Name
    BY <2>1, Joined, Separator
  <2>3. ASSUME NEW r \in Name
        PROVE  /\ (<<"v", "2", "|">> \o r)[1] = "v" /\ (<<"v", "2", "|">> \o r)[2] = "2"
               /\ (<<"v", "2", "|">> \o r)[3] = "|"
    BY DEF Name
  <2>4. QED
    BY <2>2, <2>3 DEF CheckpointKey
<1>3. Len(t) \in Nat /\ (\A i \in 1 .. Len(t) : old[i] = t[i]) /\ old[Len(t) + 1] = ":"
  <2>1. <<":">> \in Name /\ Len(<<":">>) = 1 /\ <<":">>[1] = ":"
    <3>1. ":" \in Char
      BY DEF Char
    <3>2. QED
      BY <3>1 DEF Name
  <2>2. /\ t \o <<":">> \in Name /\ Len(t) \in Nat /\ Len(t \o <<":">>) = Len(t) + 1
        /\ \A i \in 1 .. Len(t) : (t \o <<":">>)[i] = t[i]
        /\ (t \o <<":">>)[Len(t) + 1] = ":"
    <3> DEFINE c == <<":">>
    <3>1. c \in Name /\ Len(c) = 1 /\ c[1] = ":"
      BY <2>1
    <3> HIDE DEF c
    <3>2. /\ t \o c \in Name /\ Len(t) \in Nat /\ Len(t \o c) = Len(t) + 1
          /\ \A i \in 1 .. Len(t) : (t \o c)[i] = t[i]
          /\ (t \o c)[Len(t) + 1] = ":"
      <4>1. /\ t \o c \in Name /\ Len(t) \in Nat /\ Len(t \o c) = Len(t) + Len(c)
            /\ \A i \in 1 .. Len(t) : (t \o c)[i] = t[i]
            /\ \A i \in 1 .. Len(c) : (t \o c)[Len(t) + i] = c[i]
        BY <1>1, <3>1, Joined, Zenon
      <4>2. QED
        BY <3>1, <4>1
    <3>3. QED
      BY <3>2 DEF c
  <2>3. \A i \in 1 .. Len(t \o <<":">>) : old[i] = (t \o <<":">>)[i]
    BY <1>1, <2>2, Joined DEF LegacyKey
  <2>4. QED
    BY <2>2, <2>3
<1>4. CASE Len(t) < 3
  BY <1>2, <1>3, <1>4
<1>5. CASE Len(t) >= 3
  <2>1. SubSeq(t, 1, 3) = <<t[1], t[2], t[3]>>
    <3>1. \A i \in 1 .. 3 : t[i] \in Char
      BY <1>1, <1>3, <1>5 DEF Name
    <3>2. /\ SubSeq(t, 1, 3) \in Name /\ Len(SubSeq(t, 1, 3)) = 3
          /\ \A i \in 1 .. 3 : SubSeq(t, 1, 3)[i] = t[i]
      <4>1. \A i \in 1 .. 3 - 1 + 1 : SubSeq(t, 1, 3)[i] = t[1 + i - 1]
        BY <3>1, SubSeqProperties DEF Name
      <4>2. SubSeq(t, 1, 3) \in Name /\ Len(SubSeq(t, 1, 3)) = 3 - 1 + 1
        BY <3>1, SubSeqProperties DEF Name
      <4>3. QED
        BY <4>1, <4>2
    <3>3. SubSeq(t, 1, 3) = <<SubSeq(t, 1, 3)[1], SubSeq(t, 1, 3)[2], SubSeq(t, 1, 3)[3]>>
      BY <3>2, ThreeOf DEF Name
    <3>4. QED
      BY <3>2, <3>3
  <2>2. <<t[1], t[2], t[3]>> # <<"v", "2", "|">>
    BY <2>1, <1>3, <1>5, TenantAssumption
  <2>3. t[1] = old[1] /\ t[2] = old[2] /\ t[3] = old[3]
    BY <1>3, <1>5
  <2>4. QED
    BY <1>2, <2>2, <2>3
<1>6. QED
  BY <1>3, <1>4, <1>5

-----------------------------------------------------------------------------
(* ThreadKeys: what is found there                                           *)

\* A key has at most one checkpoint, and it is of a pair that has that key; who has one
\* under each of its keys was started by a failed probe.
KeyInv ==
  /\ saver = [key \in Key |-> saver[key]]
  /\ \A key \in Key : \A c, d \in saver[key] : c = d
  /\ \A key \in Key : \A cp \in saver[key] :
       cp.pair \in Pair /\ key \in {CheckpointKey(cp.pair), LegacyKey(cp.pair)}
  /\ \A p \in Pair : Own(p, saver[CheckpointKey(p)]) /\ Own(p, saver[LegacyKey(p)])
       => p \in shadowed

LEMMA KeysBegin == KeyInit => KeyInv
<1> SUFFICES ASSUME KeyInit PROVE KeyInv
  OBVIOUS
<1>1. PICK old \in [{LegacyKey(p) : p \in Pair} ->
                      {None} \cup {Stored(p, NoRequest) : p \in Pair}] :
        /\ \A key \in DOMAIN old : \A cp \in old[key] : LegacyKey(cp.pair) = key
        /\ saver = [key \in Key |-> IF key \in DOMAIN old THEN old[key] ELSE None]
  BY DEF KeyInit
<1>2. saver = [key \in Key |-> saver[key]]
  BY <1>1
<1>3. ASSUME NEW key \in Key, NEW cp \in saver[key]
      PROVE  /\ key = LegacyKey(cp.pair)
             /\ \E p \in Pair : saver[key] = Stored(p, NoRequest)
  <2>1. key \in DOMAIN old /\ cp \in old[key]
    BY <1>1, <1>3 DEF None
  <2>2. old[key] \in {None} \cup {Stored(p, NoRequest) : p \in Pair}
    BY <1>1, <2>1
  <2>3. \E p \in Pair : old[key] = Stored(p, NoRequest)
    BY <2>1, <2>2 DEF None
  <2>4. saver[key] = old[key]
    BY <1>1, <2>1
  <2>5. QED
    BY <1>1, <2>1, <2>3, <2>4
<1>4. ASSUME NEW key \in Key, NEW c \in saver[key], NEW d \in saver[key] PROVE c = d
  BY <1>3 DEF Stored
<1>5. ASSUME NEW key \in Key, NEW cp \in saver[key] PROVE cp.pair \in Pair
  BY <1>3 DEF Stored
<1>6. ASSUME NEW p \in Pair PROVE ~ Own(p, saver[CheckpointKey(p)])
  <2>1. CheckpointKey(p) \in Key
    BY DEF Key
  <2>2. ASSUME NEW cp \in saver[CheckpointKey(p)] PROVE FALSE
    <3>1. cp.pair \in Pair /\ CheckpointKey(p) = LegacyKey(cp.pair)
      BY <2>1, <1>3, <1>5
    <3>2. QED
      BY <3>1, KeysOfReleasesDiffer
  <2>3. QED
    BY <2>2 DEF Own
<1>7. QED
  BY <1>2, <1>3, <1>4, <1>5, <1>6 DEF KeyInv

\* A start that finds nothing under its key writes the versioned one: the other key is
\* taken only for what is there.
LEMMA StartKeeps ==
  ASSUME KeyInv, NEW p \in Pair, NEW r \in Request, NEW probed \in BOOLEAN, Start(p, r, probed)
  PROVE  KeyInv'
<1> DEFINE own == CheckpointKey(p)
<1>1. own \in Key /\ \A q \in Pair : CheckpointKey(q) \in Key /\ LegacyKey(q) \in Key
  BY DEF Key
<1>2. CASE UNCHANGED <<saver, shadowed>>
  BY <1>2 DEF KeyInv
<1>3. CASE ~ UNCHANGED <<saver, shadowed>>
  <2>1. /\ saver[CfgFor(p, probed)] = None
        /\ saver' = [saver EXCEPT ![CfgFor(p, probed)] = Stored(p, r)]
        /\ shadowed' = IF saver[CfgFor(p, TRUE)] # None THEN shadowed \cup {p} ELSE shadowed
    BY <1>3 DEF Start
  <2>2. CfgFor(p, probed) = own
    BY <2>1 DEF CfgFor, Own, None
  <2>3. /\ saver[own] = {} /\ saver'[own] = {[pair |-> p, request |-> r]}
        /\ saver' = [key \in Key |-> saver'[key]]
        /\ \A key \in Key \ {own} : saver'[key] = saver[key]
    BY <1>1, <2>1, <2>2 DEF KeyInv, Stored, None
  <2>4. \A key \in Key : \A c, d \in saver'[key] : c = d
    BY <2>3 DEF KeyInv
  <2>5. \A key \in Key : \A cp \in saver'[key] :
          cp.pair \in Pair /\ key \in {CheckpointKey(cp.pair), LegacyKey(cp.pair)}
    BY <2>3 DEF KeyInv
  <2>6. ASSUME NEW q \in Pair,
               Own(q, saver'[CheckpointKey(q)]), Own(q, saver'[LegacyKey(q)])
        PROVE  q \in shadowed'
    <3>1. LegacyKey(q) # own /\ saver'[LegacyKey(q)] = saver[LegacyKey(q)]
      BY <1>1, <2>3, KeysOfReleasesDiffer
    <3>2. Own(q, saver[LegacyKey(q)])
      BY <2>6, <3>1
    <3>3. CASE q = p
      <4>1. CfgFor(p, TRUE) = LegacyKey(p)
        BY <2>3, <3>2, <3>3 DEF CfgFor, None
      <4>2. saver[LegacyKey(p)] # None
        BY <3>2, <3>3 DEF Own, None
      <4>3. QED
        BY <2>1, <3>3, <4>1, <4>2
    <3>4. CASE q # p
      <4>1. saver'[CheckpointKey(q)] = saver[CheckpointKey(q)]
        BY <1>1, <2>3, <3>4, KeysTellPairsApart
      <4>2. q \in shadowed
        BY <2>6, <3>2, <4>1 DEF KeyInv
      <4>3. QED
        BY <2>1, <4>2
    <3>5. QED
      BY <3>3, <3>4
  <2>7. QED
    BY <2>3, <2>4, <2>5, <2>6 DEF KeyInv
<1>4. QED
  BY <1>2, <1>3

LEMMA KeysLead == KeyInv => KeysLeadHome
<1> SUFFICES ASSUME KeyInv PROVE KeysLeadHome
  OBVIOUS
<1>1. \A p \in Pair : CheckpointKey(p) \in Key /\ LegacyKey(p) \in Key
  BY DEF Key
<1>2. ASSUME NEW p \in Pair, NEW cp \in saver[CheckpointKey(p)] PROVE cp.pair = p
  <2>1. cp.pair \in Pair /\ CheckpointKey(p) \in {CheckpointKey(cp.pair), LegacyKey(cp.pair)}
    BY <1>1 DEF KeyInv
  <2>2. CheckpointKey(p) = CheckpointKey(cp.pair)
    BY <2>1, KeysOfReleasesDiffer
  <2>3. QED
    BY <2>1, <2>2, KeysTellPairsApart
<1>3. OnlyItsOwn
  <2> SUFFICES ASSUME NEW p \in Pair, NEW probed \in BOOLEAN, NEW cp \in saver[CfgFor(p, probed)]
               PROVE  cp.pair = p
    BY DEF OnlyItsOwn
  <2>1. CASE CfgFor(p, probed) = CheckpointKey(p)
    BY <1>2, <2>1
  <2>2. CASE CfgFor(p, probed) # CheckpointKey(p)
    <3>1. CfgFor(p, probed) = LegacyKey(p) /\ Own(p, saver[LegacyKey(p)])
      BY <2>2 DEF CfgFor
    <3>2. PICK own \in saver[LegacyKey(p)] : own.pair = p
      BY <3>1 DEF Own
    <3>3. cp = own
      BY <1>1, <3>1, <3>2 DEF KeyInv
    <3>4. QED
      BY <3>2, <3>3
  <2>3. QED
    BY <2>1, <2>2
<1>4. ASSUME NEW key \in Key, NEW cp \in saver[key]
      PROVE  saver[CfgFor(cp.pair, TRUE)] # None
  <2>1. cp.pair \in Pair /\ key \in {CheckpointKey(cp.pair), LegacyKey(cp.pair)}
    BY DEF KeyInv
  <2>2. CASE saver[CheckpointKey(cp.pair)] = None
    <3>1. key = LegacyKey(cp.pair)
      BY <2>1, <2>2 DEF None
    <3>2. Own(cp.pair, saver[LegacyKey(cp.pair)])
      BY <3>1 DEF Own
    <3>3. CfgFor(cp.pair, TRUE) = key
      BY <2>2, <3>1, <3>2 DEF CfgFor
    <3>4. QED
      BY <3>3 DEF None
  <2>3. CASE saver[CheckpointKey(cp.pair)] # None
    BY <2>3 DEF CfgFor
  <2>4. QED
    BY <2>2, <2>3
<1>5. FoundAgain
  BY <1>4 DEF FoundAgain, KeyInv
<1>6. QED
  BY <1>3, <1>5 DEF KeysLeadHome

\* _cfg_for, _checkpoint_exists: however many pairs and however their names are cut, a
\* pair's key leads to a checkpoint of its own or to none, to none only if it has none or
\* the probe fails; a pair has two only when a failing probe let a start make the second.
THEOREM PairsKeepTheirCheckpoints == KeySpec => []KeysLeadHome
<1>1. KeyInv /\ [KeyNext]_keyVars => KeyInv'
  <2> SUFFICES ASSUME KeyInv, [KeyNext]_keyVars PROVE KeyInv'
    OBVIOUS
  <2>1. ASSUME UNCHANGED <<saver, shadowed>> PROVE KeyInv'
    BY <2>1 DEF KeyInv
  <2>2. ASSUME NEW p \in Pair, NEW probed \in BOOLEAN, Resume(p, probed) PROVE KeyInv'
    BY <2>1, <2>2 DEF Resume
  <2>3. ASSUME Restart PROVE KeyInv'
    BY <2>1, <2>3 DEF Restart
  <2>4. CASE UNCHANGED keyVars
    BY <2>1, <2>4 DEF keyVars
  <2>5. QED
    BY <2>2, <2>3, <2>4, StartKeeps DEF KeyNext
<1>2. QED
  BY <1>1, KeysBegin, KeysLead, PTL DEF KeySpec

-----------------------------------------------------------------------------
(* AuditIds: a set of ids in order                                           *)

\* The place of an id among those of a set.
Below(S, x) == {y \in S : y <= x}

LEMMA PlacesGrow ==
  ASSUME NEW S \in SUBSET Nat, IsFiniteSet(S)
  PROVE  /\ \A x \in S : Cardinality(Below(S, x)) \in 1 .. Cardinality(S)
         /\ \A x, y \in S : x < y => Cardinality(Below(S, x)) < Cardinality(Below(S, y))
<1>1. ASSUME NEW x \in S
      PROVE  /\ Below(S, x) \in SUBSET S /\ IsFiniteSet(Below(S, x))
             /\ Cardinality(Below(S, x)) \in Nat
             /\ Cardinality(Below(S, x)) <= Cardinality(S)
  <2>1. Below(S, x) \in SUBSET S
    BY DEF Below
  <2>2. IsFiniteSet(Below(S, x)) /\ Cardinality(Below(S, x)) <= Cardinality(S)
    BY <2>1, FS_Subset
  <2>3. QED
    BY <2>1, <2>2, FS_CardinalityType
<1>2. Cardinality(S) \in Nat
  BY FS_CardinalityType
<1>3. ASSUME NEW x \in S PROVE Cardinality(Below(S, x)) # 0
  <2>1. x \in Below(S, x)
    BY DEF Below
  <2>2. QED
    BY <1>1, <2>1, FS_EmptySet
<1>4. ASSUME NEW x \in S, NEW y \in S, x < y
      PROVE  Cardinality(Below(S, x)) < Cardinality(Below(S, y))
  <2>1. Below(S, x) \in SUBSET Below(S, y) /\ y \in Below(S, y) /\ y \notin Below(S, x)
    <3>1. x \in Nat /\ y \in Nat /\ \A z \in S : z \in Nat
      OBVIOUS
    <3>2. \A z \in S : z <= x => z <= y
      BY <1>4, <3>1
    <3>3. y <= y /\ ~ y <= x
      BY <1>4, <3>1
    <3>4. QED
      BY <3>2, <3>3 DEF Below
  <2>2. /\ Cardinality(Below(S, x)) <= Cardinality(Below(S, y))
        /\ Cardinality(Below(S, x)) # Cardinality(Below(S, y))
    BY <1>1, <2>1, FS_Subset
  <2>3. QED
    BY <1>1, <2>2
<1>5. QED
  BY <1>1, <1>2, <1>3, <1>4

\* sorted: a finite set of ids has an order, and in order it is written out once each.
LEMMA OrderExists ==
  ASSUME NEW S \in SUBSET Nat, IsFiniteSet(S)
  PROVE  \E s \in [1 .. Cardinality(S) -> S] : \A i, j \in DOMAIN s : i < j => s[i] < s[j]
<1> DEFINE n == Cardinality(S)
<1> DEFINE place == [x \in S |-> Cardinality(Below(S, x))]
<1>1. n \in Nat /\ IsFiniteSet(1 .. n) /\ Cardinality(1 .. n) = n
  <2>1. n \in Nat
    BY FS_CardinalityType
  <2>2. QED
    BY <2>1, FS_Interval
<1>2. place \in [S -> 1 .. n] /\ \A x, y \in S : x < y => place[x] < place[y]
  BY PlacesGrow
<1>3. \A x \in S : place[x] \in Nat
  BY <1>1, <1>2
<1> HIDE DEF n, place
<1>4. \A x, y \in S : place[x] = place[y] => x = y
  <2> SUFFICES ASSUME NEW x \in S, NEW y \in S, x # y PROVE place[x] # place[y]
    OBVIOUS
  <2>1. x < y \/ y < x
    OBVIOUS
  <2>2. QED
    BY <1>2, <1>3, <2>1
<1>5. place \in Injection(S, 1 .. n)
  BY <1>2, <1>4 DEF Injection, IsInjective
<1>6. place \in Surjection(S, 1 .. n)
  BY <1>1, <1>5, FS_Injection DEF n
<1>7. \A i \in 1 .. n : \E x \in S : place[x] = i
  BY <1>6 DEF Surjection
<1> DEFINE s == [i \in 1 .. n |-> CHOOSE x \in S : place[x] = i]
<1>8. s \in [1 .. n -> S] /\ \A i \in 1 .. n : place[s[i]] = i
  BY <1>7
<1> HIDE DEF s
<1>9. ASSUME NEW i \in 1 .. n, NEW j \in 1 .. n, i < j PROVE s[i] < s[j]
  <2>1. /\ s[i] \in S /\ s[j] \in S /\ place[s[i]] = i /\ place[s[j]] = j
        /\ s[i] \in Nat /\ s[j] \in Nat
    BY <1>8
  <2>2. ~ s[j] < s[i]
    BY <1>2, <1>9, <2>1
  <2>3. s[i] # s[j]
    BY <1>9, <2>1
  <2>4. QED
    BY <2>1, <2>2, <2>3
<1>10. QED
  BY <1>8, <1>9 DEF n

\* The sequence has as many places as ids, and every id one of them.
LEMMA OrderIsWhole ==
  ASSUME NEW S \in SUBSET Nat, IsFiniteSet(S)
  PROVE  /\ InOrder(S) \in Seq(S) /\ Len(InOrder(S)) = Cardinality(S)
         /\ {InOrder(S)[i] : i \in 1 .. Len(InOrder(S))} = S
<1> DEFINE n == Cardinality(S)
<1> DEFINE s == InOrder(S)
<1>1. n \in Nat /\ IsFiniteSet(1 .. n) /\ Cardinality(1 .. n) = n
  <2>1. n \in Nat
    BY FS_CardinalityType
  <2>2. QED
    BY <2>1, FS_Interval
<1>2. s \in [1 .. n -> S] /\ \A i, j \in DOMAIN s : i < j => s[i] < s[j]
  BY OrderExists DEF InOrder
<1> HIDE DEF n, s
<1>3. s \in Seq(S) /\ Len(s) = n
  BY <1>1, <1>2
<1>4. \A i, j \in 1 .. n : s[i] = s[j] => i = j
  <2> SUFFICES ASSUME NEW i \in 1 .. n, NEW j \in 1 .. n, i # j PROVE s[i] # s[j]
    OBVIOUS
  <2>1. i < j \/ j < i
    BY <1>1
  <2>2. s[i] \in Nat /\ s[j] \in Nat
    BY <1>2
  <2>3. QED
    BY <1>2, <2>1, <2>2
<1>5. s \in Injection(1 .. n, S)
  BY <1>2, <1>4 DEF Injection, IsInjective
<1>6. s \in Surjection(1 .. n, S)
  BY <1>1, <1>5, FS_Injection DEF n
<1>7. {s[i] : i \in 1 .. Len(s)} = S
  BY <1>2, <1>3, <1>6 DEF Surjection
<1>8. QED
  BY <1>3, <1>7 DEF n, s

-----------------------------------------------------------------------------
(* AuditIds: the ids of each thread                                          *)

AuditTypeOK ==
  /\ log \in Seq(AThread)
  /\ handed \in [Process -> [AThread -> SUBSET Nat]]
  /\ taken \in [Process -> [AThread -> SUBSET Nat]]
  /\ ids \in [AThread -> Seq(Nat)]
  /\ failed \in [Process -> SUBSET AThread]

\* What a process is about to save is the thread's, is not saved yet, and nobody else is
\* about to save anything.
OneCollects ==
  \A p \in Process, th \in AThread :
    /\ taken[p][th] \subseteq About(th) \ Saved(th)
    /\ taken[p][th] # {} => \A q \in Process \ {p} : taken[q][th] = {}

AuditInv == AuditTypeOK /\ OneCollects /\ IdsAreOwn /\ NothingForgotten

LEMMA AboutIsFinite ==
  ASSUME AuditTypeOK, NEW th
  PROVE  About(th) \in SUBSET Nat /\ IsFiniteSet(About(th))
<1>1. Len(log) \in Nat
  BY DEF AuditTypeOK
<1>2. IsFiniteSet(1 .. Len(log)) /\ About(th) \in SUBSET (1 .. Len(log))
  BY <1>1, FS_Interval DEF About
<1>3. IsFiniteSet(About(th))
  BY <1>2, FS_Subset
<1>4. QED
  BY <1>1, <1>2, <1>3

LEMMA AuditBegins == AuditInit => AuditInv
<1> SUFFICES ASSUME AuditInit PROVE AuditInv
  OBVIOUS
<1>1. AuditTypeOK
  BY DEF AuditInit, AuditTypeOK
<1>2. \A th \in AThread : Saved(th) = {} /\ Len(ids[th]) = 0
  BY DEF AuditInit, Saved
<1>3. Cardinality({}) = 0
  BY FS_EmptySet
<1>4. IdsAreOwn
  BY <1>2, <1>3 DEF IdsAreOwn
<1>5. OneCollects /\ NothingForgotten
  BY DEF AuditInit, OneCollects, NothingForgotten
<1>6. QED
  BY <1>1, <1>4, <1>5 DEF AuditInv

\* An event more changes no saved list.
LEMMA EventKeeps ==
  ASSUME AuditInv, NEW new \in AThread, Event(new)
  PROVE  AuditInv'
<1>1. log' = Append(log, new) /\ UNCHANGED <<handed, taken, ids, failed>>
  BY DEF Event
<1>2. log \in Seq(AThread) /\ log' \in Seq(AThread) /\ Len(log') = Len(log) + 1 /\ Len(log) \in Nat
      /\ \A i \in 1 .. Len(log) : log'[i] = log[i]
  BY <1>1 DEF AuditInv, AuditTypeOK
<1>3. AuditTypeOK'
  BY <1>1, <1>2 DEF AuditInv, AuditTypeOK
<1>4. \A th \in AThread : About(th) \subseteq About(th)'
  BY <1>2 DEF About
<1>5. \A th \in AThread : Saved(th)' = Saved(th)
  BY <1>1 DEF Saved
<1>6. OneCollects' /\ IdsAreOwn' /\ NothingForgotten'
  BY <1>1, <1>4, <1>5 DEF AuditInv, OneCollects, IdsAreOwn, NothingForgotten
<1>7. QED
  BY <1>3, <1>6 DEF AuditInv

LEMMA CollectKeeps ==
  ASSUME AuditInv, NEW p \in Process, NEW th \in AThread, Collect(p, th)
  PROVE  AuditInv'
<1> DEFINE new == About(th) \ Known(p, th)
<1>1. /\ \A q \in Process : taken[q][th] = {}
      /\ taken' = [taken EXCEPT ![p][th] = new]
      /\ handed' = [handed EXCEPT ![p][th] = Marked(p, th, new)]
      /\ UNCHANGED <<log, ids, failed>>
  BY DEF Collect
<1>2. /\ AuditTypeOK
      /\ Saved(th) \subseteq About(th) /\ new \in SUBSET Nat
      /\ Marked(p, th, new) = handed[p][th] \cup Saved(th) \cup new
      /\ Marked(p, th, new) \in SUBSET Nat
  <2>1. AuditTypeOK /\ Saved(th) \subseteq About(th)
    BY DEF AuditInv, IdsAreOwn
  <2>2. handed[p][th] \in SUBSET Nat
    BY <2>1 DEF AuditTypeOK
  <2>3. QED
    BY <2>1, <2>2, AboutIsFinite DEF Marked, Known
<1>3. /\ taken'[p][th] = new /\ handed'[p][th] = handed[p][th] \cup Saved(th) \cup new
      /\ \A q \in Process, u \in AThread :
           q # p \/ u # th => taken'[q][u] = taken[q][u] /\ handed'[q][u] = handed[q][u]
  BY <1>1, <1>2 DEF AuditTypeOK
<1>4. AuditTypeOK'
  BY <1>1, <1>2 DEF AuditTypeOK
<1>5. \A u \in AThread : About(u)' = About(u) /\ Saved(u)' = Saved(u)
  BY <1>1 DEF About, Saved
<1>6. new \subseteq About(th) \ Saved(th)
  BY DEF Known
<1> HIDE DEF new
<1>7. OneCollects'
  <2> SUFFICES ASSUME NEW q \in Process, NEW u \in AThread
               PROVE  /\ taken'[q][u] \subseteq About(u) \ Saved(u)
                      /\ taken'[q][u] # {} => \A r \in Process \ {q} : taken'[r][u] = {}
    BY <1>5 DEF OneCollects
  <2>1. CASE u = th
    BY <1>1, <1>3, <1>6, <2>1
  <2>2. CASE u # th
    BY <1>3, <2>2 DEF AuditInv, OneCollects
  <2>3. QED
    BY <2>1, <2>2
<1>8. NothingForgotten'
  <2> SUFFICES ASSUME NEW q \in Process, NEW u \in AThread, u \notin failed[q]
               PROVE  handed'[q][u] \subseteq Saved(u) \cup taken'[q][u]
    BY <1>1, <1>5 DEF NothingForgotten
  <2>1. handed[q][u] \subseteq Saved(u) \cup taken[q][u]
    BY DEF AuditInv, NothingForgotten
  <2>2. CASE q = p /\ u = th
    BY <1>1, <1>3, <2>1, <2>2
  <2>3. CASE ~ (q = p /\ u = th)
    BY <1>3, <2>1, <2>3
  <2>4. QED
    BY <2>2, <2>3
<1>9. IdsAreOwn'
  BY <1>1, <1>5 DEF AuditInv, IdsAreOwn
<1>10. QED
  BY <1>4, <1>7, <1>8, <1>9 DEF AuditInv

\* The list is longer by what was collected, which was not in it.
LEMMA SaveKeeps ==
  ASSUME AuditInv, NEW p \in Process, NEW th \in AThread, Save(p, th)
  PROVE  AuditInv'
<1> DEFINE new == taken[p][th]
<1>1. /\ new # {} /\ ids' = [ids EXCEPT ![th] = ids[th] \o InOrder(new)]
      /\ taken' = [taken EXCEPT ![p][th] = {}]
      /\ UNCHANGED <<log, handed, failed>>
  BY DEF Save
<1>2. AuditTypeOK /\ new \subseteq About(th) \ Saved(th) /\ Saved(th) \subseteq About(th)
      /\ Cardinality(Saved(th)) = Len(ids[th])
  BY DEF AuditInv, OneCollects, IdsAreOwn
<1>3. About(th) \in SUBSET Nat /\ IsFiniteSet(About(th))
  BY <1>2, AboutIsFinite
<1>4. new \in SUBSET Nat /\ IsFiniteSet(new) /\ IsFiniteSet(Saved(th))
  <2>1. new \in SUBSET About(th) /\ Saved(th) \in SUBSET About(th)
    BY <1>2
  <2>2. QED
    BY <1>3, <2>1, FS_Subset
<1>5. /\ InOrder(new) \in Seq(Nat) /\ Len(InOrder(new)) = Cardinality(new)
      /\ {InOrder(new)[i] : i \in 1 .. Len(InOrder(new))} = new
  <2>1. /\ InOrder(new) \in Seq(new) /\ Len(InOrder(new)) = Cardinality(new)
        /\ {InOrder(new)[i] : i \in 1 .. Len(InOrder(new))} = new
    BY <1>4, OrderIsWhole
  <2>2. \A S \in SUBSET Nat : \A s \in Seq(S) : s \in Seq(Nat)
    <3>1. ASSUME NEW S \in SUBSET Nat, NEW s \in Seq(S) PROVE s \in Seq(Nat)
      <4>1. s \in [1 .. Len(s) -> S] /\ Len(s) \in Nat
        BY LenProperties
      <4>2. s \in [1 .. Len(s) -> Nat]
        BY <4>1
      <4>3. \E n \in Nat : s \in [1 .. n -> Nat]
        BY <4>1, <4>2
      <4>4. QED
        BY <4>3
    <3>2. QED
      BY <3>1
  <2>3. QED
    BY <1>4, <2>1, <2>2
<1>6. /\ taken'[p][th] = {}
      /\ \A q \in Process, u \in AThread : q # p \/ u # th => taken'[q][u] = taken[q][u]
  BY <1>1, <1>2 DEF AuditTypeOK
<1>7. /\ ids'[th] = ids[th] \o InOrder(new) /\ ids[th] \in Seq(Nat)
      /\ \A u \in AThread \ {th} : ids'[u] = ids[u]
  BY <1>1, <1>2 DEF AuditTypeOK
<1> HIDE DEF new
<1>8. /\ ids'[th] \in Seq(Nat) /\ Len(ids'[th]) = Len(ids[th]) + Cardinality(new)
      /\ Len(ids[th]) \in Nat /\ Cardinality(new) \in Nat
      /\ \A i \in 1 .. Len(ids[th]) + Cardinality(new) :
           ids'[th][i] = IF i <= Len(ids[th]) THEN ids[th][i] ELSE InOrder(new)[i - Len(ids[th])]
  <2>1. ids'[th] \in Seq(Nat) /\ Len(ids'[th]) = Len(ids[th]) + Len(InOrder(new))
        /\ \A i \in 1 .. Len(ids[th]) + Len(InOrder(new)) :
             ids'[th][i] = IF i <= Len(ids[th]) THEN ids[th][i] ELSE InOrder(new)[i - Len(ids[th])]
    <3>1. \A s, t \in Seq(Nat) :
            /\ s \o t \in Seq(Nat) /\ Len(s \o t) = Len(s) + Len(t)
            /\ \A i \in 1 .. Len(s) + Len(t) :
                 (s \o t)[i] = IF i <= Len(s) THEN s[i] ELSE t[i - Len(s)]
      BY ConcatProperties, Zenon
    <3>2. PICK s, t : s = ids[th] /\ t = InOrder(new)
      OBVIOUS
    <3>3. s \in Seq(Nat) /\ t \in Seq(Nat) /\ ids'[th] = s \o t
      BY <1>5, <1>7, <3>2
    <3>4. /\ s \o t \in Seq(Nat) /\ Len(s \o t) = Len(s) + Len(t)
          /\ \A i \in 1 .. Len(s) + Len(t) :
               (s \o t)[i] = IF i <= Len(s) THEN s[i] ELSE t[i - Len(s)]
      BY <3>1, <3>3, Zenon
    <3>5. QED
      BY <3>2, <3>3, <3>4
  <2>2. Len(ids[th]) \in Nat
    BY <1>7
  <2>3. Cardinality(new) \in Nat
    BY <1>4, FS_CardinalityType
  <2>4. QED
    BY <1>5, <2>1, <2>2, <2>3
<1>9. Saved(th)' = Saved(th) \cup new
  <2>1. ASSUME NEW x \in Saved(th)' PROVE x \in Saved(th) \cup new
    <3>1. PICK i \in 1 .. Len(ids'[th]) : x = ids'[th][i]
      BY <2>1 DEF Saved
    <3>2. CASE i <= Len(ids[th])
      <4>1. i \in 1 .. Len(ids[th]) /\ i \in 1 .. Len(ids[th]) + Cardinality(new)
        BY <1>8, <3>1, <3>2
      <4>2. x = ids[th][i]
        BY <1>8, <3>1, <3>2, <4>1
      <4>3. QED
        BY <4>1, <4>2 DEF Saved
    <3>3. CASE ~ i <= Len(ids[th])
      <4>1. i - Len(ids[th]) \in 1 .. Cardinality(new) /\ x = InOrder(new)[i - Len(ids[th])]
        BY <1>8, <3>1, <3>3
      <4>2. QED
        BY <1>5, <4>1
    <3>4. QED
      BY <3>2, <3>3
  <2>2. ASSUME NEW x \in Saved(th) PROVE x \in Saved(th)'
    <3>1. PICK i \in 1 .. Len(ids[th]) : x = ids[th][i]
      BY <2>2 DEF Saved
    <3>2. i \in 1 .. Len(ids'[th]) /\ x = ids'[th][i]
      BY <1>8, <3>1
    <3>3. QED
      BY <3>2 DEF Saved
  <2>3. ASSUME NEW x \in new PROVE x \in Saved(th)'
    <3>1. PICK i \in 1 .. Cardinality(new) : x = InOrder(new)[i]
      BY <1>5, <2>3
    <3>2. Len(ids[th]) + i \in 1 .. Len(ids'[th]) /\ ~ Len(ids[th]) + i <= Len(ids[th])
          /\ (Len(ids[th]) + i) - Len(ids[th]) = i
      BY <1>8
    <3>3. ids'[th][Len(ids[th]) + i] = x
      BY <1>8, <3>1, <3>2
    <3>4. QED
      BY <3>2, <3>3 DEF Saved
  <2>4. QED
    BY <2>1, <2>2, <2>3
<1>10. Cardinality(Saved(th)') = Len(ids'[th])
  <2>1. Saved(th) \cap new = {}
    BY <1>2 DEF new
  <2>2. Cardinality(Saved(th) \cup new)
          = Cardinality(Saved(th)) + Cardinality(new) - Cardinality(Saved(th) \cap new)
    BY <1>4, FS_Union
  <2>3. Cardinality({}) = 0
    BY FS_EmptySet
  <2>4. Cardinality(Saved(th) \cup new) = Len(ids[th]) + Cardinality(new) - 0
    BY <1>2, <2>1, <2>2, <2>3
  <2>5. Cardinality(Saved(th)') = Cardinality(Saved(th) \cup new)
    BY <1>9
  <2>6. QED
    BY <1>8, <2>4, <2>5
<1>11. AuditTypeOK'
  <2>1. ids' \in [AThread -> Seq(Nat)]
    BY <1>1, <1>2, <1>7, <1>8 DEF AuditTypeOK
  <2>2. QED
    BY <1>1, <1>2, <2>1 DEF AuditTypeOK
<1>12. /\ \A u \in AThread : About(u)' = About(u)
       /\ \A u \in AThread \ {th} : Saved(u)' = Saved(u)
  BY <1>1, <1>7 DEF About, Saved
<1>13. IdsAreOwn'
  <2> SUFFICES ASSUME NEW u \in AThread
               PROVE  Saved(u)' \subseteq About(u) /\ Cardinality(Saved(u)') = Len(ids'[u])
    BY <1>12 DEF IdsAreOwn
  <2>1. CASE u = th
    BY <1>2, <1>9, <1>10, <2>1 DEF new
  <2>2. CASE u # th
    BY <1>7, <1>12, <2>2 DEF AuditInv, IdsAreOwn
  <2>3. QED
    BY <2>1, <2>2
<1>14. \A q \in Process \ {p} : taken[q][th] = {}
  BY <1>1 DEF AuditInv, OneCollects, new
<1>15. OneCollects'
  <2> SUFFICES ASSUME NEW q \in Process, NEW u \in AThread
               PROVE  /\ taken'[q][u] \subseteq About(u) \ Saved(u)'
                      /\ taken'[q][u] # {} => \A r \in Process \ {q} : taken'[r][u] = {}
    BY <1>12 DEF OneCollects
  <2>1. CASE u = th
    BY <1>6, <1>14, <2>1
  <2>2. CASE u # th
    BY <1>6, <1>12, <2>2 DEF AuditInv, OneCollects
  <2>3. QED
    BY <2>1, <2>2
<1>16. NothingForgotten'
  <2> SUFFICES ASSUME NEW q \in Process, NEW u \in AThread, u \notin failed[q]
               PROVE  handed[q][u] \subseteq Saved(u)' \cup taken'[q][u]
    BY <1>1 DEF NothingForgotten
  <2>1. handed[q][u] \subseteq Saved(u) \cup taken[q][u]
    BY DEF AuditInv, NothingForgotten
  <2>2. CASE u = th
    BY <1>6, <1>9, <1>14, <2>1, <2>2 DEF new
  <2>3. CASE u # th
    BY <1>6, <1>12, <2>1, <2>3
  <2>4. QED
    BY <2>2, <2>3
<1>17. QED
  BY <1>11, <1>13, <1>15, <1>16 DEF AuditInv

\* A process that loses what it collected, or all it knows, makes no list wrong.
LEMMA LossKeeps ==
  ASSUME AuditInv, NEW p \in Process,
         (\E th \in AThread : SaveFails(p, th)) \/ RestartProcess(p)
  PROVE  AuditInv'
<1>1. /\ UNCHANGED <<log, ids>>
      /\ AuditTypeOK'
      /\ \A q \in Process, u \in AThread :
           taken'[q][u] \in {{}, taken[q][u]}
      /\ \A q \in Process, u \in AThread :
           \/ handed'[q][u] = {}
           \/ u \in failed'[q]
           \/ handed'[q][u] = handed[q][u] /\ taken'[q][u] = taken[q][u] /\ u \notin failed[q]
  <2>1. ASSUME NEW th \in AThread, SaveFails(p, th)
        PROVE  <1>1!1 /\ <1>1!2 /\ <1>1!3 /\ <1>1!4
    BY <2>1 DEF SaveFails, AuditInv, AuditTypeOK
  <2>2. CASE RestartProcess(p)
    BY <2>2 DEF RestartProcess, AuditInv, AuditTypeOK
  <2>3. QED
    BY <2>1, <2>2
<1>2. \A u \in AThread : About(u)' = About(u) /\ Saved(u)' = Saved(u)
  BY <1>1 DEF About, Saved
<1>3. IdsAreOwn'
  BY <1>1, <1>2 DEF AuditInv, IdsAreOwn
<1>4. OneCollects'
  BY <1>1, <1>2 DEF AuditInv, OneCollects
<1>5. NothingForgotten'
  <2> SUFFICES ASSUME NEW q \in Process, NEW u \in AThread, u \notin failed'[q]
               PROVE  handed'[q][u] \subseteq Saved(u) \cup taken'[q][u]
    BY <1>2 DEF NothingForgotten
  <2>1. u \notin failed[q] => handed[q][u] \subseteq Saved(u) \cup taken[q][u]
    BY DEF AuditInv, NothingForgotten
  <2>2. QED
    BY <1>1, <2>1
<1>6. QED
  BY <1>1, <1>3, <1>4, <1>5 DEF AuditInv

\* collect_audit_events: for any processes and threads, a thread's list has its own events
\* once each, and misses none but those of a failed write.
THEOREM ListsStayExact == AuditSpec => []AuditIdsExact
<1>1. AuditInv /\ [AuditNext]_auditVars => AuditInv'
  <2> SUFFICES ASSUME AuditInv, [AuditNext]_auditVars PROVE AuditInv'
    OBVIOUS
  <2>1. CASE UNCHANGED auditVars
    <3>1. UNCHANGED <<log, handed, taken, ids, failed>>
      BY <2>1 DEF auditVars
    <3>2. \A th \in AThread : About(th)' = About(th) /\ Saved(th)' = Saved(th)
      BY <3>1 DEF About, Saved
    <3>3. AuditTypeOK' /\ OneCollects' /\ NothingForgotten'
      BY <3>1, <3>2 DEF AuditInv, AuditTypeOK, OneCollects, NothingForgotten
    <3>4. IdsAreOwn'
      BY <3>1, <3>2 DEF AuditInv, IdsAreOwn
    <3>5. QED
      BY <3>3, <3>4 DEF AuditInv
  <2>2. QED
    BY <2>1, EventKeeps, CollectKeeps, SaveKeeps, LossKeeps DEF AuditNext
<1>2. AuditInv => AuditIdsExact
  BY DEF AuditInv, AuditIdsExact
<1>3. QED
  BY <1>1, <1>2, AuditBegins, PTL DEF AuditSpec

-----------------------------------------------------------------------------
(* KnowledgeStore: a chunk is a piece of a registered document, and an id of *)
(* plain names says of which                                                 *)

NoneIn(ch, s) == \A i \in 1 .. Len(s) : s[i] # ch

\* One character between two names.
With(x, ch, y) == x \o (<<ch>> \o y)

Between(s, x, ch, y) ==
  /\ s \in Name /\ Len(x) \in Nat /\ Len(y) \in Nat
  /\ Len(s) = Len(x) + 1 + Len(y)
  /\ \A i \in 1 .. Len(x) : s[i] = x[i]
  /\ s[Len(x) + 1] = ch
  /\ \A i \in 1 .. Len(y) : s[Len(x) + 1 + i] = y[i]

LEMMA Around ==
  ASSUME NEW ch \in Char, NEW x \in Name, NEW y \in Name
  PROVE  Between(With(x, ch, y), x, ch, y)
<1> DEFINE m == <<ch>>
           r == m \o y
           s == x \o r
<1>1. m \in Name /\ Len(m) = 1 /\ m[1] = ch
  BY DEF Name
<1> HIDE DEF m
<1>2. /\ r \in Name /\ Len(r) = 1 + Len(y) /\ r[1] = ch /\ Len(y) \in Nat
      /\ \A i \in 1 .. Len(y) : r[1 + i] = y[i]
  <2>1. /\ r \in Name /\ Len(r) = Len(m) + Len(y)
        /\ \A i \in 1 .. Len(m) : r[i] = m[i]
        /\ \A i \in 1 .. Len(y) : r[Len(m) + i] = y[i]
    BY <1>1, Joined, Zenon
  <2>2. Len(y) \in Nat
    BY DEF Name
  <2> QED
    BY <1>1, <2>1, <2>2
<1> HIDE DEF r
<1>3. /\ s \in Name /\ Len(x) \in Nat /\ Len(s) = Len(x) + Len(r)
      /\ \A i \in 1 .. Len(x) : s[i] = x[i]
      /\ \A i \in 1 .. Len(r) : s[Len(x) + i] = r[i]
  BY <1>2, Joined, Zenon
<1> HIDE DEF s
<1>4. \A i \in 1 .. Len(y) : s[Len(x) + 1 + i] = y[i]
  <2> SUFFICES ASSUME NEW i \in 1 .. Len(y) PROVE s[Len(x) + 1 + i] = y[i]
    OBVIOUS
  <2>1. 1 + i \in 1 .. Len(r) /\ Len(x) + (1 + i) = Len(x) + 1 + i
    BY <1>2, <1>3
  <2>2. s[Len(x) + (1 + i)] = r[1 + i]
    BY <1>3, <2>1
  <2> QED
    BY <1>2, <2>1, <2>2
<1>5. s[Len(x) + 1] = ch
  <2>1. 1 \in 1 .. Len(r)
    BY <1>2
  <2> QED
    BY <1>2, <1>3, <2>1
<1>6. s = With(x, ch, y)
  BY DEF s, r, m, With
<1>7. Len(s) = Len(x) + 1 + Len(y)
  BY <1>2, <1>3
<1> QED
  BY <1>2, <1>3, <1>4, <1>5, <1>6, <1>7 DEF Between

\* What is before a separator, when its length is known, and what is behind it.
LEMMA SameFront ==
  ASSUME NEW ch \in Char, NEW x \in Name, NEW y \in Name, NEW x2 \in Name, NEW y2 \in Name,
         With(x, ch, y) = With(x2, ch, y2), Len(x) = Len(x2)
  PROVE  x = x2 /\ y = y2
<1> DEFINE s == With(x, ch, y)
<1>1. Between(s, x, ch, y) /\ Between(s, x2, ch, y2)
  BY Around, Zenon
<1> HIDE DEF s
<1>2. Len(y) = Len(y2)
  BY <1>1 DEF Between
<1>3. (\A i \in 1 .. Len(x) : x[i] = x2[i]) /\ (\A i \in 1 .. Len(y) : y[i] = y2[i])
  BY <1>1, <1>2 DEF Between
<1> QED
  BY <1>2, <1>3, SeqEqual, Zenon DEF Name

\* What is before the first separator, and what is behind it.
LEMMA FirstSeparator ==
  ASSUME NEW ch \in Char, NEW x \in Name, NEW y \in Name, NEW x2 \in Name, NEW y2 \in Name,
         NoneIn(ch, x), NoneIn(ch, x2), With(x, ch, y) = With(x2, ch, y2)
  PROVE  x = x2 /\ y = y2
<1> DEFINE s == With(x, ch, y)
<1>1. Between(s, x, ch, y) /\ Between(s, x2, ch, y2)
  BY Around, Zenon
<1> HIDE DEF s
<1>2. (\A i \in 1 .. Len(x) : s[i] = x[i]) /\ s[Len(x) + 1] = ch /\ Len(x) \in Nat
  BY <1>1 DEF Between
<1>3. (\A i \in 1 .. Len(x2) : s[i] = x2[i]) /\ s[Len(x2) + 1] = ch /\ Len(x2) \in Nat
  BY <1>1 DEF Between
<1>4. ~ Len(x) < Len(x2)
  <2>1. Len(x) < Len(x2) => Len(x) + 1 \in 1 .. Len(x2)
    BY <1>2, <1>3
  <2> QED
    BY <2>1, <1>2, <1>3 DEF NoneIn
<1>5. ~ Len(x2) < Len(x)
  <2>1. Len(x2) < Len(x) => Len(x2) + 1 \in 1 .. Len(x)
    BY <1>2, <1>3
  <2> QED
    BY <2>1, <1>2, <1>3 DEF NoneIn
<1>6. Len(x) = Len(x2)
  BY <1>2, <1>3, <1>4, <1>5
<1> QED
  BY <1>6, SameFront

\* Where the colons of an id are.
Parts(t, p, d, e) == With(t, ":", With(p, ":", With(d, ":", e)))

Placed(s, t, p, d, e) ==
  /\ s \in Name
  /\ Len(t) \in Nat /\ Len(p) \in Nat /\ Len(d) \in Nat /\ Len(e) \in Nat
  /\ Len(s) = Len(t) + Len(p) + Len(d) + Len(e) + 3
  /\ s[Len(t) + 1] = ":" /\ s[Len(t) + Len(p) + 2] = ":"
  /\ s[Len(t) + Len(p) + Len(d) + 3] = ":"
  /\ \A i \in 1 .. Len(t) : s[i] = t[i]
  /\ \A i \in 1 .. Len(p) : s[Len(t) + 1 + i] = p[i]
  /\ \A i \in 1 .. Len(d) : s[Len(t) + Len(p) + 2 + i] = d[i]
  /\ \A i \in 1 .. Len(e) : s[Len(t) + Len(p) + Len(d) + 3 + i] = e[i]

LEMMA PartsPlaces ==
  ASSUME NEW t \in Name, NEW p \in Name, NEW d \in Name, NEW e \in Name
  PROVE  Placed(Parts(t, p, d, e), t, p, d, e)
<1>0. ":" \in Char
  BY DEF Char
<1> DEFINE u == With(d, ":", e)
           v == With(p, ":", u)
           s == With(t, ":", v)
<1>a. s = Parts(t, p, d, e)
  BY DEF Parts
<1>b. Between(u, d, ":", e)
  BY <1>0, Around, Zenon
<1>1. /\ u \in Name /\ Len(u) = Len(d) + 1 + Len(e) /\ Len(d) \in Nat /\ Len(e) \in Nat
      /\ u[Len(d) + 1] = ":" /\ (\A i \in 1 .. Len(d) : u[i] = d[i])
      /\ \A i \in 1 .. Len(e) : u[Len(d) + 1 + i] = e[i]
  <2> HIDE DEF u
  <2> QED
    BY <1>b DEF Between
<1> HIDE DEF u
<1>c. Between(v, p, ":", u)
  BY <1>0, <1>1, Around, Zenon
<1>2. /\ v \in Name /\ Len(v) = Len(p) + 1 + Len(u) /\ Len(p) \in Nat
      /\ v[Len(p) + 1] = ":" /\ (\A i \in 1 .. Len(p) : v[i] = p[i])
      /\ \A i \in 1 .. Len(u) : v[Len(p) + 1 + i] = u[i]
  <2> HIDE DEF v
  <2> QED
    BY <1>c DEF Between
<1> HIDE DEF v
<1>d. Between(s, t, ":", v)
  BY <1>0, <1>2, Around, Zenon
<1> HIDE DEF s
<1>3. /\ s \in Name /\ Len(s) = Len(t) + 1 + Len(v) /\ Len(t) \in Nat
      /\ s[Len(t) + 1] = ":" /\ (\A i \in 1 .. Len(t) : s[i] = t[i])
      /\ \A i \in 1 .. Len(v) : s[Len(t) + 1 + i] = v[i]
  BY <1>d DEF Between
<1>4. \A i \in 1 .. Len(p) : s[Len(t) + 1 + i] = p[i]
  <2> SUFFICES ASSUME NEW i \in 1 .. Len(p) PROVE s[Len(t) + 1 + i] = p[i]
    OBVIOUS
  <2>1. i \in 1 .. Len(v)
    BY <1>1, <1>2
  <2> QED
    BY <1>2, <1>3, <2>1
<1>5. s[Len(t) + Len(p) + 2] = ":"
  <2>1. Len(p) + 1 \in 1 .. Len(v) /\ Len(t) + 1 + (Len(p) + 1) = Len(t) + Len(p) + 2
    BY <1>1, <1>2, <1>3
  <2>2. s[Len(t) + 1 + (Len(p) + 1)] = v[Len(p) + 1]
    BY <1>3, <2>1
  <2> QED
    BY <1>2, <2>1, <2>2
<1>6. \A i \in 1 .. Len(u) : s[Len(t) + Len(p) + 2 + i] = u[i]
  <2> SUFFICES ASSUME NEW i \in 1 .. Len(u) PROVE s[Len(t) + Len(p) + 2 + i] = u[i]
    OBVIOUS
  <2>1. /\ Len(p) + 1 + i \in 1 .. Len(v)
        /\ Len(t) + 1 + (Len(p) + 1 + i) = Len(t) + Len(p) + 2 + i
    BY <1>1, <1>2, <1>3
  <2>2. s[Len(t) + 1 + (Len(p) + 1 + i)] = v[Len(p) + 1 + i]
    BY <1>3, <2>1
  <2> QED
    BY <1>2, <2>1, <2>2
<1>7. s[Len(t) + Len(p) + Len(d) + 3] = ":"
  <2>1. /\ Len(d) + 1 \in 1 .. Len(u)
        /\ Len(t) + Len(p) + 2 + (Len(d) + 1) = Len(t) + Len(p) + Len(d) + 3
    BY <1>1, <1>2, <1>3
  <2>2. s[Len(t) + Len(p) + 2 + (Len(d) + 1)] = u[Len(d) + 1]
    BY <1>6, <2>1
  <2> QED
    BY <1>1, <2>1, <2>2
<1>8. \A i \in 1 .. Len(d) : s[Len(t) + Len(p) + 2 + i] = d[i]
  <2> SUFFICES ASSUME NEW i \in 1 .. Len(d) PROVE s[Len(t) + Len(p) + 2 + i] = d[i]
    OBVIOUS
  <2>1. i \in 1 .. Len(u)
    BY <1>1
  <2> QED
    BY <1>1, <1>6, <2>1
<1>9. \A i \in 1 .. Len(e) : s[Len(t) + Len(p) + Len(d) + 3 + i] = e[i]
  <2> SUFFICES ASSUME NEW i \in 1 .. Len(e) PROVE s[Len(t) + Len(p) + Len(d) + 3 + i] = e[i]
    OBVIOUS
  <2>1. /\ Len(d) + 1 + i \in 1 .. Len(u)
        /\ Len(t) + Len(p) + 2 + (Len(d) + 1 + i) = Len(t) + Len(p) + Len(d) + 3 + i
    BY <1>1, <1>2, <1>3
  <2>2. s[Len(t) + Len(p) + 2 + (Len(d) + 1 + i)] = u[Len(d) + 1 + i]
    BY <1>6, <2>1
  <2> QED
    BY <1>1, <2>1, <2>2
<1>10. Len(s) = Len(t) + Len(p) + Len(d) + Len(e) + 3
  BY <1>1, <1>2, <1>3
<1>11. Placed(s, t, p, d, e)
  BY <1>1, <1>2, <1>3, <1>4, <1>5, <1>7, <1>8, <1>9, <1>10 DEF Placed
<1> QED
  BY <1>11, <1>a

\* Three colons in one id, at least three in the other: they are in the same places.
AllNames(t, p, d, e) == t \in Name /\ p \in Name /\ d \in Name /\ e \in Name
NoColons(t, p, d, e) ==
  NoneIn(":", t) /\ NoneIn(":", p) /\ NoneIn(":", d) /\ NoneIn(":", e)

LEMMA PartsAreRead ==
  ASSUME NEW t, NEW p, NEW d, NEW e, AllNames(t, p, d, e), NoColons(t, p, d, e),
         NEW t2, NEW p2, NEW d2, NEW e2, AllNames(t2, p2, d2, e2),
         Parts(t, p, d, e) = Parts(t2, p2, d2, e2)
  PROVE  t = t2 /\ p = p2 /\ d = d2 /\ e = e2
<1> USE DEF AllNames, NoColons
<1> DEFINE s == Parts(t, p, d, e)
<1>1. Placed(s, t, p, d, e) /\ Placed(s, t2, p2, d2, e2)
  BY PartsPlaces, Zenon
<1> HIDE DEF s
<1>2. PICK a, b, c \in Nat : a = Len(t) /\ b = Len(p) /\ c = Len(d)
  BY DEF Name
<1>3. PICK a2, b2, c2 \in Nat : a2 = Len(t2) /\ b2 = Len(p2) /\ c2 = Len(d2)
  BY DEF Name
<1>4. \A i \in 1 .. Len(s) : s[i] = ":" => i \in {a + 1, a + b + 2, a + b + c + 3}
  <2> SUFFICES ASSUME NEW i \in 1 .. Len(s), i \notin {a + 1, a + b + 2, a + b + c + 3}
               PROVE  s[i] # ":"
    OBVIOUS
  <2>0. Len(e) \in Nat /\ Len(s) = a + b + c + Len(e) + 3
    BY <1>1, <1>2 DEF Placed
  <2>1. CASE i \in 1 .. a
    BY <1>1, <1>2, <2>1 DEF Placed, NoneIn
  <2>2. CASE i - (a + 1) \in 1 .. b
    <3>1. s[a + 1 + (i - (a + 1))] = p[i - (a + 1)]
      BY <1>1, <1>2, <2>2 DEF Placed
    <3>2. a + 1 + (i - (a + 1)) = i
      BY <2>0
    <3> QED
      BY <1>2, <2>2, <3>1, <3>2 DEF NoneIn
  <2>3. CASE i - (a + b + 2) \in 1 .. c
    <3>1. s[a + b + 2 + (i - (a + b + 2))] = d[i - (a + b + 2)]
      BY <1>1, <1>2, <2>3 DEF Placed
    <3>2. a + b + 2 + (i - (a + b + 2)) = i
      BY <2>0
    <3> QED
      BY <1>2, <2>3, <3>1, <3>2 DEF NoneIn
  <2>4. CASE i - (a + b + c + 3) \in 1 .. Len(e)
    <3>1. s[a + b + c + 3 + (i - (a + b + c + 3))] = e[i - (a + b + c + 3)]
      BY <1>1, <1>2, <2>4 DEF Placed
    <3>2. a + b + c + 3 + (i - (a + b + c + 3)) = i
      BY <2>0
    <3> QED
      BY <2>4, <3>1, <3>2 DEF NoneIn
  <2> QED
    BY <2>0, <2>1, <2>2, <2>3, <2>4
<1>5. s[a2 + 1] = ":" /\ s[a2 + b2 + 2] = ":" /\ s[a2 + b2 + c2 + 3] = ":"
  BY <1>1, <1>3 DEF Placed
<1>6. Len(e2) \in Nat /\ Len(s) = a2 + b2 + c2 + Len(e2) + 3
  BY <1>1, <1>3 DEF Placed
<1>7. /\ a2 + 1 \in {a + 1, a + b + 2, a + b + c + 3}
      /\ a2 + b2 + 2 \in {a + 1, a + b + 2, a + b + c + 3}
      /\ a2 + b2 + c2 + 3 \in {a + 1, a + b + 2, a + b + c + 3}
  <2>1. a2 + 1 \in 1 .. Len(s) /\ a2 + b2 + 2 \in 1 .. Len(s) /\ a2 + b2 + c2 + 3 \in 1 .. Len(s)
    BY <1>6
  <2> QED
    BY <1>4, <1>5, <2>1
<1>8. a = a2 /\ b = b2 /\ c = c2
  BY <1>7
<1> DEFINE u == With(d, ":", e)
           v == With(p, ":", u)
           u2 == With(d2, ":", e2)
           v2 == With(p2, ":", u2)
<1>9. ":" \in Char
  BY DEF Char
<1>10. u \in Name /\ u2 \in Name
  <2>1. Between(u, d, ":", e) /\ Between(u2, d2, ":", e2)
    BY <1>9, Around, Zenon
  <2> HIDE DEF u, u2
  <2> QED
    BY <2>1 DEF Between
<1>11. v \in Name /\ v2 \in Name
  <2> HIDE DEF u, u2
  <2>1. Between(v, p, ":", u) /\ Between(v2, p2, ":", u2)
    BY <1>9, <1>10, Around, Zenon
  <2> HIDE DEF v, v2
  <2> QED
    BY <2>1 DEF Between
<1>12. t = t2 /\ v = v2
  <2>1. With(t, ":", v) = With(t2, ":", v2) /\ Len(t) = Len(t2)
    BY <1>2, <1>3, <1>8 DEF Parts
  <2> HIDE DEF v, v2
  <2> QED
    BY <1>9, <1>11, <2>1, SameFront, Zenon
<1>13. p = p2 /\ u = u2
  <2>1. With(p, ":", u) = With(p2, ":", u2)
    BY <1>12
  <2>2. Len(p) = Len(p2)
    BY <1>2, <1>3, <1>8
  <2> HIDE DEF u, u2, v, v2
  <2>3. p = p2 /\ u = u2
    BY <1>9, <1>10, <2>1, <2>2, SameFront
  <2> QED
    BY <2>3
<1>14. d = d2 /\ e = e2
  <2>1. With(d, ":", e) = With(d2, ":", e2)
    BY <1>13
  <2>2. Len(d) = Len(d2)
    BY <1>2, <1>3, <1>8
  <2> HIDE DEF u, u2, v, v2
  <2> QED
    BY <1>9, <2>1, <2>2, SameFront
<1> QED
  BY <1>12, <1>13, <1>14

\* The names of a document, and the characters of its numbers.
LEMMA KeyNames ==
  ASSUME NEW key \in DocKey
  PROVE  /\ key[1] \in Name /\ key[2] \in Name /\ key[3] \in Number
         /\ key = <<key[1], key[2], key[3]>>
<1>1. /\ key[1] \in Seq(STRING) /\ key[2] \in Seq(STRING)
      /\ key = <<key[1], key[2], key[3]>>
  BY DocKeyAssumption
<1>2. STRING \in SUBSET Char
  BY DEF Char
<1>3. key[1] \in Name /\ key[2] \in Name
  BY <1>1, <1>2, OfFewer
<1>4. key[3] \in Number
  BY DEF Number
<1> QED
  BY <1>1, <1>3, <1>4

LEMMA NumberNames ==
  ASSUME NEW n \in Number
  PROVE  /\ Digits[n] \in Name
         /\ NoneIn(":", Digits[n]) /\ NoneIn("@", Digits[n]) /\ NoneIn("#", Digits[n])
<1>1. Digits[n] \in Seq(STRING \ {":", "@", "#"})
  BY DigitsAssumption
<1>2. STRING \ {":", "@", "#"} \in SUBSET Char
  BY DEF Char
<1>3. Digits[n] \in Name /\ \A i \in 1 .. Len(Digits[n]) : Digits[n][i] \in STRING \ {":", "@", "#"}
  BY <1>1, <1>2, OfFewer
<1> QED
  BY <1>3 DEF NoneIn

\* The end of an id: "c" and a number.
LEMMA EndOfId ==
  ASSUME NEW n \in Number
  PROVE  <<"c">> \o Digits[n] \in Name /\ NoneIn(":", <<"c">> \o Digits[n])
<1> DEFINE h == <<"c">>
           g == Digits[n]
<1>1. "c" \in Char /\ "c" # ":"
  BY DEF Char
<1>2. h \in Name /\ Len(h) = 1 /\ h[1] = "c"
  BY <1>1 DEF Name
<1>3. g \in Name /\ NoneIn(":", g)
  BY NumberNames
<1>4. Len(g) \in Nat
  BY <1>3 DEF Name
<1> HIDE DEF h, g
<1>5. /\ h \o g \in Name /\ Len(h \o g) = Len(h) + Len(g)
      /\ \A i \in 1 .. Len(h) : (h \o g)[i] = h[i]
      /\ \A i \in 1 .. Len(g) : (h \o g)[Len(h) + i] = g[i]
  BY <1>2, <1>3, Joined, Zenon
<1>6. ASSUME NEW i \in 1 .. Len(h \o g) PROVE (h \o g)[i] # ":"
  <2>1. CASE i = 1
    BY <1>1, <1>2, <1>5, <2>1
  <2>2. CASE i # 1
    <3>1. PICK j : j = i - 1
      OBVIOUS
    <3>2. j \in 1 .. Len(g) /\ Len(h) + j = i
      BY <1>2, <1>4, <1>5, <2>2, <3>1
    <3>3. (h \o g)[Len(h) + j] = g[j]
      BY <1>5, <3>2
    <3> QED
      BY <1>3, <3>2, <3>3 DEF NoneIn
  <2> QED
    BY <2>1, <2>2
<1>7. h \o g \in Name /\ NoneIn(":", h \o g)
  BY <1>5, <1>6 DEF NoneIn
<1> QED
  BY <1>7 DEF h, g

LEMMA PlainNames ==
  ASSUME NEW t \in Name, NEW p \in Name, Plain(t, p)
  PROVE  NoneIn(":", t) /\ NoneIn(":", p) /\ NoneIn("@", p)
<1>1. DOMAIN t = 1 .. Len(t) /\ DOMAIN p = 1 .. Len(p)
  BY DEF Name
<1> QED
  BY <1>1 DEF Plain, Characters, NoneIn

\* The id of a chunk of plain names is the id of no other chunk, whatever its names.
LEMMA IdsAreUnique ==
  ASSUME NEW key \in DocKey, NEW key2 \in DocKey, NEW seq \in Number, NEW seq2 \in Number,
         Plain(key[1], key[2]), ChunkId(key, seq) = ChunkId(key2, seq2)
  PROVE  key = key2 /\ seq = seq2
<1>1. PICK t, p, v : t = key[1] /\ p = key[2] /\ v = key[3] /\ key = <<t, p, v>>
  BY KeyNames
<1>2. PICK t2, p2, v2 : t2 = key2[1] /\ p2 = key2[2] /\ v2 = key2[3] /\ key2 = <<t2, p2, v2>>
  BY KeyNames
<1>3. PICK d, e : d = Digits[v] /\ e = <<"c">> \o Digits[seq]
  OBVIOUS
<1>4. PICK d2, e2 : d2 = Digits[v2] /\ e2 = <<"c">> \o Digits[seq2]
  OBVIOUS
<1>5. /\ t \in Name /\ p \in Name /\ v \in Number /\ t2 \in Name /\ p2 \in Name /\ v2 \in Number
      /\ Plain(t, p)
  BY <1>1, <1>2, KeyNames
<1>6. d \in Name /\ d2 \in Name /\ NoneIn(":", d)
  BY <1>3, <1>4, <1>5, NumberNames
<1>7. e \in Name /\ e2 \in Name /\ NoneIn(":", e)
  BY <1>3, <1>4, EndOfId
<1>8. NoneIn(":", t) /\ NoneIn(":", p)
  BY <1>5, PlainNames
<1>9. Parts(t, p, d, e) = Parts(t2, p2, d2, e2)
  BY <1>1, <1>2, <1>3, <1>4 DEF ChunkId, Place, Parts, With
<1>10. t = t2 /\ p = p2 /\ d = d2 /\ e = e2
  <2>1. AllNames(t, p, d, e) /\ NoColons(t, p, d, e) /\ AllNames(t2, p2, d2, e2)
    BY <1>5, <1>6, <1>7, <1>8 DEF AllNames, NoColons
  <2> QED
    BY <1>9, <2>1, PartsAreRead
<1>11. v = v2
  BY <1>3, <1>4, <1>5, <1>10, DigitsAssumption
<1>12. seq = seq2
  <2>1. Digits[seq] \in Name /\ Digits[seq2] \in Name
    BY NumberNames
  <2>2. "c" \in Char
    BY DEF Char
  <2>3. <<"c">> \in Name
    BY <2>2 DEF Name
  <2>4. <<"c">> \o Digits[seq] = <<"c">> \o Digits[seq2]
    BY <1>3, <1>4, <1>10
  <2>5. Digits[seq] = Digits[seq2]
    BY <2>1, <2>3, <2>4, FrontIsTaken, Zenon
  <2> QED
    BY <2>5, DigitsAssumption
<1> QED
  BY <1>1, <1>2, <1>10, <1>11, <1>12

\* A citation of a policy without an "@" names one policy, version and place.
LEMMA CitationIsRead ==
  ASSUME NEW p \in Name, NEW p2 \in Name, NoneIn("@", p), NoneIn("@", p2),
         NEW v \in Number, NEW v2 \in Number, NEW seq \in Number, NEW seq2 \in Number,
         Citation(p, v, seq) = Citation(p2, v2, seq2)
  PROVE  p = p2 /\ v = v2 /\ seq = seq2
<1>1. PICK d, e, d2, e2 : d = Digits[v] /\ e = Digits[seq] /\ d2 = Digits[v2] /\ e2 = Digits[seq2]
  OBVIOUS
<1>2. /\ d \in Name /\ e \in Name /\ d2 \in Name /\ e2 \in Name
      /\ NoneIn("#", d) /\ NoneIn("#", d2)
  BY <1>1, NumberNames
<1>3. "@" \in Char /\ "#" \in Char
  BY DEF Char
<1> DEFINE r == With(d, "#", e)
           r2 == With(d2, "#", e2)
<1>4. r \in Name /\ r2 \in Name
  <2>1. Between(r, d, "#", e) /\ Between(r2, d2, "#", e2)
    BY <1>2, <1>3, Around
  <2> HIDE DEF r, r2
  <2> QED
    BY <2>1 DEF Between
<1>5. With(p, "@", r) = With(p2, "@", r2)
  BY <1>1 DEF Citation, With
<1>6. p = p2 /\ r = r2
  <2> HIDE DEF r, r2
  <2> QED
    BY <1>3, <1>4, <1>5, FirstSeparator
<1>7. d = d2 /\ e = e2
  BY <1>2, <1>3, <1>6, FirstSeparator
<1> QED
  BY <1>1, <1>6, <1>7, DigitsAssumption

DocsTyped == docs \in [DocKey -> {NoDoc} \cup [content : Content, active : BOOLEAN]]

PieceOf(c, key) ==
  /\ docs[key] # NoDoc /\ docs[key].active
  /\ c.seq \in DOMAIN docs[key].content
  /\ c = Chunk(key, docs[key].content, c.seq)

ChunksArePieces == \A c \in chunks : \E key \in DocKey : PieceOf(c, key)

HitsAreClean ==
  \A c \in found.hits :
    /\ c.tenant = found.tenant /\ c.text # "injection"
    /\ Plain(c.tenant, c.policy) => c \in chunks

StoreInv == DocsTyped /\ ChunksArePieces /\ HitsAreClean

\* A chunk's own fields are the key of its document, and its id is made of it.
LEMMA PieceKey ==
  ASSUME DocsTyped, NEW c, NEW key \in DocKey, PieceOf(c, key)
  PROVE  /\ key = <<c.tenant, c.policy, c.version>>
         /\ c.tenant = key[1] /\ c.policy = key[2] /\ c.version = key[3]
         /\ c.id = ChunkId(key, c.seq) /\ c.seq \in Number
         /\ c.text = docs[key].content[c.seq]
<1>1. /\ c.tenant = key[1] /\ c.policy = key[2] /\ c.version = key[3]
      /\ c.id = ChunkId(key, c.seq) /\ c.text = docs[key].content[c.seq]
  BY DEF PieceOf, Chunk
<1>2. docs[key].content \in Content
  BY DEF PieceOf, DocsTyped
<1>3. c.seq \in Number
  BY <1>2 DEF PieceOf, Number
<1> QED
  BY <1>1, <1>3, KeyNames

LEMMA PiecesAreCitable == StoreInv => FoundStaysCitable
<1> SUFFICES ASSUME StoreInv, NEW c \in found.hits
             PROVE  /\ c.tenant = found.tenant /\ c.text # "injection"
                    /\ Plain(c.tenant, c.policy) =>
                         /\ ValidateCitation(found.tenant, Citation(c.policy, c.version, c.seq)) = {c}
                         /\ docs[<<c.tenant, c.policy, c.version>>].content[c.seq] = c.text
  BY DEF FoundStaysCitable
<1>1. c.tenant = found.tenant /\ c.text # "injection"
  BY DEF StoreInv, HitsAreClean
<1>2. SUFFICES ASSUME Plain(c.tenant, c.policy)
               PROVE  /\ ValidateCitation(found.tenant, Citation(c.policy, c.version, c.seq)) = {c}
                      /\ docs[<<c.tenant, c.policy, c.version>>].content[c.seq] = c.text
  BY <1>1
<1>3. c \in chunks
  BY <1>2 DEF StoreInv, HitsAreClean
<1>4. PICK key \in DocKey : PieceOf(c, key)
  BY <1>3 DEF StoreInv, ChunksArePieces
<1>5. /\ key = <<c.tenant, c.policy, c.version>> /\ c.id = ChunkId(key, c.seq)
      /\ c.tenant = key[1] /\ c.policy = key[2] /\ c.version = key[3] /\ c.seq \in Number
      /\ c.text = docs[key].content[c.seq]
  BY <1>4, PieceKey DEF StoreInv
<1>6. key[1] \in Name /\ key[2] \in Name /\ key[3] \in Number /\ Plain(key[1], key[2])
  BY <1>2, <1>5, KeyNames
<1>7. NoneIn("@", key[2])
  BY <1>6, PlainNames
<1>8. ASSUME NEW d \in chunks, d.id = ChunkId(key, c.seq)
      PROVE  d = c
  <2>1. PICK k \in DocKey : PieceOf(d, k)
    BY DEF StoreInv, ChunksArePieces
  <2>2. d.id = ChunkId(k, d.seq) /\ d.seq \in Number
    BY <2>1, PieceKey DEF StoreInv
  <2>3. k = key /\ d.seq = c.seq
    BY <1>5, <1>6, <1>8, <2>2, IdsAreUnique
  <2> QED
    BY <1>4, <2>1, <2>3 DEF PieceOf
<1> DEFINE cited == Citation(c.policy, c.version, c.seq)
<1>9. ASSUME NEW k \in DocKey, NEW seq \in Number,
             k[1] = found.tenant, "@" \notin Characters(k[2]), cited = Citation(k[2], k[3], seq)
      PROVE  k = key /\ seq = c.seq
  <2>1. k[2] \in Name /\ k[3] \in Number /\ k = <<k[1], k[2], k[3]>>
    BY KeyNames
  <2>2. NoneIn("@", k[2])
    <3>1. DOMAIN k[2] = 1 .. Len(k[2])
      BY <2>1 DEF Name
    <3> QED
      BY <1>9, <3>1 DEF Characters, NoneIn
  <2>3. Citation(key[2], key[3], c.seq) = Citation(k[2], k[3], seq)
    BY <1>5, <1>9
  <2>4. key[2] = k[2] /\ key[3] = k[3] /\ c.seq = seq
    BY <1>5, <1>6, <1>7, <2>1, <2>2, <2>3, CitationIsRead
  <2> QED
    BY <1>1, <1>5, <1>9, <2>1, <2>4
<1>10. "@" \notin Characters(key[2]) /\ key[1] = found.tenant
  BY <1>1, <1>5, <1>6 DEF Plain
<1>11. docs[key] # NoDoc /\ docs[key].active
  BY <1>4 DEF PieceOf
<1>12. \A d \in chunks : d \in ValidateCitation(found.tenant, cited) => d.id = ChunkId(key, c.seq)
  <2> HIDE DEF cited
  <2> QED
    BY <1>9 DEF ValidateCitation
<1>13. cited = Citation(key[2], key[3], c.seq)
  BY <1>5
<1> HIDE DEF cited
<1>14. c \in ValidateCitation(found.tenant, cited)
  BY <1>3, <1>5, <1>10, <1>11, <1>13 DEF ValidateCitation
<1>15. ValidateCitation(found.tenant, cited) = {c}
  <2>1. ValidateCitation(found.tenant, cited) \subseteq chunks
    BY DEF ValidateCitation
  <2> QED
    BY <1>8, <1>12, <1>14, <2>1
<1> QED
  BY <1>5, <1>15 DEF cited

\* A new document takes no plain chunk's place, and no document changes.
LEMMA RegisterKeeps ==
  ASSUME StoreInv, NEW key \in DocKey, NEW content \in Content, NEW active \in BOOLEAN,
         Register(key, [content |-> content, active |-> active])
  PROVE  StoreInv'
<1> DEFINE doc == [content |-> content, active |-> active]
           new == IF active THEN Cut(key, content) ELSE {}
<1>1. /\ docs[key] = NoDoc /\ docs' = [docs EXCEPT ![key] = doc] /\ UNCHANGED found
      /\ chunks' = {c \in chunks : c.id \notin {n.id : n \in new}} \cup new
  BY DEF Register
<1>2. DocsTyped'
  BY <1>1 DEF StoreInv, DocsTyped
<1>3. \A c, k : k \in DocKey /\ PieceOf(c, k) => PieceOf(c, k)'
  BY <1>1 DEF StoreInv, DocsTyped, PieceOf
<1>4. docs'[key] = doc /\ doc # NoDoc
  BY <1>1, NoDocAssumption DEF StoreInv, DocsTyped
<1>5. \A n \in new : PieceOf(n, key)' /\ n.id = ChunkId(key, n.seq) /\ n.seq \in Number
  <2> SUFFICES ASSUME NEW n \in new
               PROVE  PieceOf(n, key)' /\ n.id = ChunkId(key, n.seq) /\ n.seq \in Number
    OBVIOUS
  <2>1. active /\ \E seq \in DOMAIN content : n = Chunk(key, content, seq)
    BY DEF Cut
  <2>2. PICK seq \in DOMAIN content : n = Chunk(key, content, seq)
    BY <2>1
  <2>3. n.seq = seq /\ n.id = ChunkId(key, seq)
    BY <2>2 DEF Chunk
  <2>4. seq \in Number
    BY DEF Number
  <2> QED
    BY <1>4, <2>1, <2>2, <2>3, <2>4 DEF PieceOf
<1>6. \A c \in chunks, n \in new : Plain(c.tenant, c.policy) => c.id # n.id
  <2> SUFFICES ASSUME NEW c \in chunks, NEW n \in new, Plain(c.tenant, c.policy), c.id = n.id
               PROVE  FALSE
    OBVIOUS
  <2>1. PICK k \in DocKey : PieceOf(c, k)
    BY DEF StoreInv, ChunksArePieces
  <2>2. c.id = ChunkId(k, c.seq) /\ c.seq \in Number /\ c.tenant = k[1] /\ c.policy = k[2]
    BY <2>1, PieceKey DEF StoreInv
  <2>3. /\ ChunkId(k, c.seq) = ChunkId(key, n.seq) /\ n.seq \in Number
        /\ Plain(k[1], k[2])
    BY <1>5, <2>2
  <2>4. k = key
    BY <2>2, <2>3, IdsAreUnique
  <2> QED
    BY <1>1, <2>1, <2>4 DEF PieceOf
<1> HIDE DEF new, doc
<1>7. \A c \in chunks : Plain(c.tenant, c.policy) => c \in chunks'
  BY <1>1, <1>6
<1>8. ChunksArePieces'
  BY <1>1, <1>3, <1>5 DEF StoreInv, ChunksArePieces
<1>9. HitsAreClean'
  BY <1>1, <1>7 DEF StoreInv, HitsAreClean
<1> QED
  BY <1>2, <1>8, <1>9 DEF StoreInv

LEMMA SearchKeeps ==
  ASSUME StoreInv, NEW tenant \in KTenant, Search(tenant) \/ SearchNothing(tenant)
  PROVE  StoreInv'
<1>1. UNCHANGED <<docs, chunks>>
  BY DEF Search, SearchNothing
<1>2. CASE SearchNothing(tenant)
  BY <1>1, <1>2 DEF SearchNothing, StoreInv, DocsTyped, ChunksArePieces, PieceOf, HitsAreClean
<1>3. CASE Search(tenant)
  <2>1. PICK hits \in SUBSET {c \in Matching(tenant) : ~ Excluded(c)} :
          found' = [tenant |-> tenant, hits |-> hits]
    BY <1>3 DEF Search
  <2>2. HitsAreClean'
    BY <1>1, <2>1 DEF HitsAreClean, Matching, Excluded
  <2> QED
    BY <1>1, <2>2 DEF StoreInv, DocsTyped, ChunksArePieces, PieceOf
<1> QED
  BY <1>2, <1>3

\* What a tenant was ever answered from a document of plain names stays citable by it, as
\* the very text of that document, whatever is registered later under any names, those with
\* separators included (register, search, validate_citation).
THEOREM AnswersStayCitable == StoreSpec => []FoundStaysCitable
<1>1. StoreInit => StoreInv
  BY DEF StoreInit, StoreInv, DocsTyped, ChunksArePieces, HitsAreClean
<1>2. StoreInv /\ [StoreNext]_storeVars => StoreInv'
  <2> SUFFICES ASSUME StoreInv, UNCHANGED storeVars PROVE StoreInv'
    BY RegisterKeeps, SearchKeeps DEF StoreNext
  <2> QED
    BY DEF storeVars, StoreInv, DocsTyped, ChunksArePieces, PieceOf, HitsAreClean
<1> QED
  BY <1>1, <1>2, PiecesAreCitable, PTL DEF StoreSpec
=============================================================================
