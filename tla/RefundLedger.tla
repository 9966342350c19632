----------------------------- MODULE RefundLedger -----------------------------
(***************************************************************************)
(* What the command service promises about money, without sessions, locks, *)
(* versions, tickets or audit: one refund per idempotency key, moving in    *)
(* atomic steps                                                            *)
(*                                                                         *)
(*    unused -> proposed -> authorised -> paid                             *)
(*                 |             |         ^                               *)
(*                 v             v         |                               *)
(*              refused      uncertain ----+--> unpaid                     *)
(*                                                                         *)
(* Nothing is paid that was not authorised, no order pays out more than    *)
(* was paid for it, and while the outcome of a refund is uncertain nothing *)
(* new is proposed for its order.                                          *)
(***************************************************************************)
EXTENDS Integers, FiniteSets

CONSTANTS Order, Paid, Amount, Key, Unused

VARIABLE refund   \* what became of each key

State == {"proposed", "authorised", "refused", "paid", "uncertain", "unpaid"}

Refund == [order: Order, amount: Amount, state: State]

Used == {k \in Key : refund[k] # Unused}

PaidCents(o) ==
  UNION {{k} \X (1 .. refund[k].amount) :
           k \in {j \in Used : refund[j].order = o /\ refund[j].state = "paid"}}

Fits(o, amount) == Cardinality(PaidCents(o)) + amount <= Paid[o]

Init == refund = [k \in Key |-> Unused]

Propose(k, o, a) ==
  /\ refund[k] = Unused
  /\ \A j \in Used : refund[j].order = o => refund[j].state # "uncertain"
  /\ Fits(o, a)
  /\ refund' = [refund EXCEPT ![k] = [order |-> o, amount |-> a, state |-> "proposed"]]

Move(k, from, to) ==
  /\ k \in Used
  /\ refund[k].state = from
  /\ refund' = [refund EXCEPT ![k].state = to]

Authorise(k) == Move(k, "proposed", "authorised")
Decline(k) == Move(k, "proposed", "refused")
PayOut(k) == Move(k, "authorised", "paid") /\ Fits(refund[k].order, refund[k].amount)
LoseTrack(k) == Move(k, "authorised", "uncertain")
SettlePaid(k) == Move(k, "uncertain", "paid") /\ Fits(refund[k].order, refund[k].amount)
SettleUnpaid(k) == Move(k, "uncertain", "unpaid")

Next ==
  \E k \in Key :
    \/ \E o \in Order, a \in Amount : Propose(k, o, a)
    \/ Authorise(k) \/ Decline(k) \/ PayOut(k)
    \/ LoseTrack(k) \/ SettlePaid(k) \/ SettleUnpaid(k)

Spec == Init /\ [][Next]_refund
=============================================================================
