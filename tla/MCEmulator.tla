----------------------------- MODULE MCEmulator -----------------------------
(***************************************************************************)
(* Small instances of Emulator for TLC.  Latencies come from configuration *)
(* files, as ConfigParser reads them; one millisecond is one unit of time. *)
(***************************************************************************)
EXTENDS Emulator

CP == INSTANCE ConfigParser WITH MILLISECOND <- 1, INT_MAX <- 127

\* The matrix of a file, its entries in the order of the lines.
File(entries) == [numbers |-> entries, lines |-> << <<"./dummy">> >>, newline |-> FALSE]

\* Three processes; 1 is far from the others, 2 near to 1 only in one direction.
ThreeUneven == CP!latency_matrix(File(<<0, 1, 1,
                                 2, 0, 2,
                                 2, 1, 0>>))

\* IPv4 between any two processes (and to oneself), and frames that the emulator
\* drops: IPv6, and an unknown address.
ThreeMixed == {4} \X EmIds \cup {<<6, 0>>, <<4, Unknown>>}

\* IPv4 to process 2.
ToThird == {<<4, 2>>}
=============================================================================
