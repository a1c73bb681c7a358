---------------------------- MODULE ConfigProofs ----------------------------
(***************************************************************************)
(* Which configuration files give the emulator what its modules assume of  *)
(* the latencies, and each process the program written on its line.        *)
(***************************************************************************)
EXTENDS ConfigParser, TLAPS

LEMMA AsIntKeeps ==
    ASSUME INT_MAX \in Nat, NEW n \in 0 .. INT_MAX
    PROVE  AsInt(n) = n
<1> DEFINE w == 2 * (INT_MAX + 1)
           m == n + INT_MAX + 1
<1>1. w \in Nat \ {0} /\ m \in 0 .. w - 1
    OBVIOUS
<1>2. m % w = m
    <2> HIDE DEF w, m
    <2> QED
        BY <1>1
<1> QED
    BY <1>2 DEF AsInt

LEMMA EntryOfFile ==
    ASSUME procs \in Nat, NEW file, NEW S, 0 \in S,
           file.numbers \in Seq(S), file.numbers # <<>>,
           NEW i \in EmIds, NEW j \in EmIds
    PROVE  lat(file, i, j) \in S
<1> DEFINE k == (i * procs) + j + 1
<1>1. k \in Nat \ {0}
    <2>1. i \in Nat /\ j \in Nat
        BY DEF EmIds
    <2>2. i * procs \in Nat
        BY <2>1
    <2> QED
        BY <2>1, <2>2
<1>2. Len(file.numbers) \in Nat \ {0}
    OBVIOUS
<1> HIDE DEF k
<1>3. k =< Len(file.numbers) => file.numbers[k] \in S
    BY <1>1, <1>2
<1>4. file.numbers[Len(file.numbers)] \in S
    BY <1>2
<1> QED
    BY <1>3, <1>4 DEF lat, k

\* ConfigParser, config-parser.hpp:70-82: every file the constructor accepts, also
\* one that ends too early, gives the latencies that module Emulator assumes, if no
\* entry is negative or longer than an int of nanoseconds: 2147 ms.
THEOREM AcceptedLatencies ==
    ASSUME procs \in Nat \ {0}, MILLISECOND \in Nat \ {0}, INT_MAX \in Nat,
           NEW file, file.numbers # <<>>,
           file.numbers \in Seq({n \in Nat : n * MILLISECOND =< INT_MAX}),
           Accepted(file)
    PROVE  /\ latency_matrix(file) \in [EmIds -> [EmIds -> Nat]]
           /\ \A p \in EmIds : latency_matrix(file)[p][p] = 0
           /\ \A p, q \in EmIds : latency_matrix(file)[p][q] = lat(file, p, q) * MILLISECOND
<1> DEFINE S == {n \in Nat : n * MILLISECOND =< INT_MAX}
<1>1. \A p, q \in EmIds : lat(file, p, q) \in S
    <2>1. 0 \in S
        OBVIOUS
    <2> HIDE DEF S
    <2>2. file.numbers \in Seq(S)
        BY DEF S
    <2> QED
        BY <2>1, <2>2, EntryOfFile
<1>2. ASSUME NEW p \in EmIds, NEW q \in EmIds
      PROVE  /\ lat(file, p, q) * MILLISECOND \in Nat
             /\ AsInt(lat(file, p, q) * MILLISECOND) = lat(file, p, q) * MILLISECOND
    <2>1. lat(file, p, q) \in Nat /\ lat(file, p, q) * MILLISECOND =< INT_MAX
        BY <1>1
    <2>2. lat(file, p, q) * MILLISECOND \in Nat
        BY <2>1
    <2>3. lat(file, p, q) * MILLISECOND \in 0 .. INT_MAX
        BY <2>1, <2>2
    <2> QED
        BY <2>2, <2>3, AsIntKeeps
<1>3. \A p \in EmIds : lat(file, p, p) * MILLISECOND = 0
    BY DEF Accepted
<1> QED
    BY <1>2, <1>3 DEF latency_matrix

LEMMA AsIntTurnsNegative ==
    ASSUME INT_MAX \in Nat, NEW n \in INT_MAX + 1 .. (2 * INT_MAX) + 1
    PROVE  AsInt(n) < 0
<1> DEFINE w == 2 * (INT_MAX + 1)
           r == n - (INT_MAX + 1)
<1>1. w \in Nat \ {0} /\ r \in 0 .. INT_MAX /\ r < w
    OBVIOUS
<1>2. n + INT_MAX + 1 = r + w
    OBVIOUS
<1>3. (r + w) % w = r
    <2> HIDE DEF w, r
    <2> QED
        BY <1>1
<1> QED
    BY <1>1, <1>2, <1>3 DEF AsInt

\* Two entries of a matrix have the same place in the file only if they are the same.
LEMMA Places ==
    ASSUME procs \in Nat \ {0}, NEW i \in EmIds, NEW j \in EmIds
    PROVE  /\ (i * procs) + j + 1 \in 1 .. procs * procs
           /\ \A a, b \in EmIds : (a * procs) + b + 1 = (i * procs) + j + 1 => a = i /\ b = j
<1>1. i \in Int /\ j \in Int /\ 0 =< i /\ i =< procs - 1 /\ 0 =< j /\ j =< procs - 1
    BY DEF EmIds
<1>2. i * procs \in Int /\ 0 =< i * procs /\ i * procs =< (procs - 1) * procs
    BY <1>1
<1>3. (procs - 1) * procs + procs = procs * procs /\ procs * procs \in Nat
    OBVIOUS
<1>4. (i * procs) + j + 1 \in 1 .. procs * procs
    BY <1>1, <1>2, <1>3
<1>5. ASSUME NEW a \in EmIds, NEW b \in EmIds, (a * procs) + b + 1 = (i * procs) + j + 1
      PROVE  a = i /\ b = j
    <2>1. a \in Int /\ b \in Int /\ 0 =< b /\ b =< procs - 1 /\ a * procs \in Int
        BY DEF EmIds
    <2>2. (a - i) * procs = (a * procs) - (i * procs)
        BY <1>1, <2>1
    <2>3. (a - i) * procs = j - b
        BY <1>1, <1>2, <1>5, <2>1, <2>2
    <2>4. ~ (a - i >= 1)
        <3>1. a - i >= 1 => (a - i) * procs >= procs
            BY <1>1, <2>1
        <3> QED
            BY <1>1, <2>1, <2>3, <3>1
    <2>5. ~ (a - i =< -1)
        <3>1. a - i =< -1 => (a - i) * procs =< -procs
            BY <1>1, <2>1
        <3> QED
            BY <1>1, <2>1, <2>3, <3>1
    <2>6. a = i
        BY <1>1, <2>1, <2>4, <2>5
    <2> QED
        BY <1>1, <1>2, <1>5, <2>1, <2>6
<1> QED
    BY <1>4, <1>5

\* ConfigParser, config-parser.hpp:75-82: the bound is sharp.  A longer latency, up to
\* twice that, makes an entry of the matrix negative in every file that has it and is
\* accepted, and between any two processes there is such a file.
THEOREM LongLatencyTurnsNegative ==
    ASSUME procs \in Nat \ {0}, MILLISECOND \in Nat \ {0}, INT_MAX \in Nat,
           NEW n \in Nat, n * MILLISECOND \in INT_MAX + 1 .. (2 * INT_MAX) + 1,
           NEW i \in EmIds, NEW j \in EmIds
    PROVE  /\ \A file : Accepted(file) /\ lat(file, i, j) = n =>
                  i # j /\ latency_matrix(file)[i][j] < 0
           /\ i # j => \E file : /\ file.numbers \in Seq(Nat)
                                 /\ Len(file.numbers) = procs * procs
                                 /\ Accepted(file) /\ lat(file, i, j) = n
<1>1. ASSUME NEW file, Accepted(file), lat(file, i, j) = n
      PROVE  i # j /\ latency_matrix(file)[i][j] < 0
    <2>1. n # 0
        OBVIOUS
    <2>2. i # j
        BY <1>1, <2>1 DEF Accepted
    <2>3. AsInt(n * MILLISECOND) < 0
        BY AsIntTurnsNegative
    <2>4. latency_matrix(file)[i][j] = AsInt(n * MILLISECOND)
        BY <1>1 DEF latency_matrix
    <2> QED
        BY <2>2, <2>3, <2>4
<1>2. ASSUME i # j
      PROVE  \E file : /\ file.numbers \in Seq(Nat) /\ Len(file.numbers) = procs * procs
                       /\ Accepted(file) /\ lat(file, i, j) = n
    <2> DEFINE place == (i * procs) + j + 1
               numbers == [k \in 1 .. procs * procs |-> IF k = place THEN n ELSE 0]
               f == [numbers |-> numbers, lines |-> <<>>, newline |-> TRUE]
    <2>1. procs * procs \in Nat
        OBVIOUS
    <2>2. numbers \in [1 .. procs * procs -> Nat]
        OBVIOUS
    <2>3. numbers \in Seq(Nat) /\ Len(numbers) = procs * procs
        <3> HIDE DEF numbers
        <3> QED
            BY <2>1, <2>2
    <2>4. ASSUME NEW a \in EmIds, NEW b \in EmIds
          PROVE  lat(f, a, b) = IF (a * procs) + b + 1 = place THEN n ELSE 0
        <3> DEFINE k == (a * procs) + b + 1
        <3>1. k \in 1 .. procs * procs
            BY Places
        <3>2. numbers[k] = IF k = place THEN n ELSE 0
            BY <3>1
        <3>3. f.numbers = numbers
            OBVIOUS
        <3> HIDE DEF numbers, f, place
        <3>4. lat(f, a, b) = numbers[k]
            <4>1. k =< Len(f.numbers)
                BY <2>1, <2>3, <3>1, <3>3
            <4> QED
                BY <3>3, <4>1 DEF lat
        <3> QED
            BY <3>2, <3>4
    <2>5. Accepted(f)
        <3>1. ASSUME NEW a \in EmIds PROVE (a * procs) + a + 1 # place
            BY <1>2, Places
        <3> HIDE DEF f, place
        <3> QED
            BY <2>4, <3>1 DEF Accepted
    <2>6. lat(f, i, j) = n
        BY <2>4
    <2>7. f.numbers \in Seq(Nat) /\ Len(f.numbers) = procs * procs
        BY <2>3
    <2> QED
        BY <2>5, <2>6, <2>7
<1> QED
    BY <1>1, <1>2

\* ConfigParser, config-parser.hpp:85-104: a file with all its entries and a line
\* for each process gives each process the program and arguments of its own line,
\* although program_path is kept from line to line.
THEOREM ProgramOfOwnLine ==
    ASSUME procs \in Nat, NEW file, NEW Words,
           file.lines \in Seq(Seq(Words)),
           procs * procs =< Len(file.numbers), Len(file.numbers) \in Nat,
           procs =< Len(file.lines),
           \A j \in EmIds : file.lines[j + 1] # <<>>,
           NEW i \in EmIds
    PROVE  /\ program_paths(file, i) = Head(file.lines[i + 1])
           /\ program_args(file, i) = Tail(file.lines[i + 1])
<1>1. \A j \in EmIds : Line(file, j) = file.lines[j + 1]
    <2>1. procs * procs \in Nat
        OBVIOUS
    <2> DEFINE square == procs * procs
    <2>2. ~ (Len(file.numbers) < square)
        BY <2>1
    <2>3. \A j \in EmIds : j < Len(file.lines)
        BY DEF EmIds
    <2> QED
        BY <2>2, <2>3 DEF Line
<1>2. {j \in 0 .. i : Line(file, j) # <<>>} = 0 .. i
    <2>1. \A j \in 0 .. i : j \in EmIds
        BY DEF EmIds
    <2>2. \A j \in 0 .. i : Line(file, j) # <<>>
        BY <1>1, <2>1
    <2> QED
        BY <2>2
<1>3. Max(0 .. i) = i
    <2>1. i \in 0 .. i /\ \A j \in 0 .. i : i >= j
        BY DEF EmIds
    <2>2. \A x \in 0 .. i : (\A j \in 0 .. i : x >= j) => x = i
        BY <2>1
    <2> QED
        BY <2>1, <2>2 DEF Max
<1>4. 0 .. i # {}
    <2>1. i \in 0 .. i
        BY DEF EmIds
    <2> QED
        BY <2>1
<1> QED
    BY <1>1, <1>2, <1>3, <1>4 DEF program_paths, program_args
=============================================================================
