------------------------------ MODULE MCThreadKeys ------------------------------
(* A small instance of ThreadKeys for TLC: two pairs that share an older key. *)
EXTENDS ThreadKeys, TLC

Pairs == {<< <<"a">>, <<"b", ":", "c">> >>, << <<"a", ":", "b">>, <<"c">> >>}
Decimals == [n \in 0 .. 9 |-> <<ToString(n)>>]
=============================================================================
