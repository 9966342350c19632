---------------------------- MODULE MCPgCommands ----------------------------
(* Small instances of PgCommands and of its refinement for TLC. *)
EXTENDS PgLedger, TLC

CONSTANTS o1, o2, r1, r2

\* one order of three cents: two refunds of two cents do not both fit
OnePaid == [o \in {o1} |-> 3]
OneOrder == {<<o1, r1>>}

\* two orders of one cent each; the customer of r2 owns o1 only, and no policy
\* covers its request there
TwoPaid == [o \in {o1, o2} |-> 1]
TwoOwners == {<<o1, r1>>, <<o2, r1>>, <<o1, r2>>}
TwoCovered == {<<o1, r1>>, <<o2, r1>>}

SessionSymmetry == Permutations(Session)
=============================================================================
