----------------------------- MODULE MCTCPpeer -----------------------------
(* TCPpeer for TLC: two peers, a file of three bytes in chunks of two.  Both *)
(* draw the names of what they receive from one set, as when they draw the   *)
(* same random number in the same second.                                    *)
EXTENDS TCPpeer

TheFile       == <<1, 2, 3>>
DrawnNames == [p \in {0, 1} |-> {"a", "b"}]
=============================================================================
