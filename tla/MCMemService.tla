---------------------------- MODULE MCMemService ----------------------------
(* Small instances of MemService and MemLedger for TLC. *)
EXTENDS MemLedger, TLC

CONSTANTS o1, o2, r1

OnePaid == [o \in {o1} |-> 3]
TwoPaid == [o \in {o1, o2} |-> 1]
AllCovered == Order \X Request

ThreadSymmetry == Permutations(Thread)
OrderSymmetry == Permutations(Order)
=============================================================================
