---------------------------- MODULE ConfigParser ----------------------------
(***************************************************************************)
(* What the constructor of ConfigParser makes of a configuration file.  A  *)
(* file is given from the latency matrix on: numbers are the entries that  *)
(* are there, at least one and at most procs * procs, lines the words of   *)
(* each line that follows, and newline says whether the last one is ended. *)
(***************************************************************************)
EXTENDS Integers, Sequences, FiniteSetsExt

CONSTANTS
    procs,         \* number of processes, read from the file before
    MILLISECOND,   \* nanoseconds of a millisecond (10^6 in utils.hpp)
    INT_MAX        \* greatest int

EmIds == 0 .. procs - 1

\* What config >> lat leaves in lat for an entry of the matrix: a word that is
\* no number gives 0, at the end of the file lat keeps the entry read last.
lat(file, i, j) ==
    LET k == (i * procs) + j + 1
    IN  IF k =< Len(file.numbers) THEN file.numbers[k]
        ELSE IF file.lines # <<>> THEN 0
        ELSE file.numbers[Len(file.numbers)]

\* The constructor ends the program for an entry on the diagonal that is not 0.
Accepted(file) == \A i \in EmIds : lat(file, i, i) = 0

\* An int that overflows wraps around in the builds of the project.
AsInt(n) == ((n + INT_MAX + 1) % (2 * (INT_MAX + 1))) - (INT_MAX + 1)

\* The member latency: latency[i][j] is entry j of line i.
latency_matrix(file) == [i \in EmIds |-> [j \in EmIds |-> AsInt(lat(file, i, j) * MILLISECOND)]]

\* The line that getline leaves for process i.  After an entry that could not be
\* read every getline fails, and one at the end of the file leaves the last
\* line as it was, unless a newline ended that one.
Line(file, i) ==
    IF Len(file.numbers) < procs * procs THEN <<>>
    ELSE IF i < Len(file.lines) THEN file.lines[i + 1]
    ELSE IF file.newline \/ file.lines = <<>> THEN <<>>
    ELSE file.lines[Len(file.lines)]

\* program_path is not reset between two lines: an empty line repeats it.
program_paths(file, i) ==
    LET named == {j \in 0 .. i : Line(file, j) # <<>>}
    IN  IF named = {} THEN "" ELSE Head(Line(file, Max(named)))

program_args(file, i) == IF Line(file, i) = <<>> THEN <<>> ELSE Tail(Line(file, i))
=============================================================================
