---------------------------- MODULE PacketProofs ----------------------------
(***************************************************************************)
(* What the two arithmetics under the emulator compute, for all numbers:   *)
(* time.cpp adds and compares times exactly, and the checksum loops of     *)
(* class Packet compute the checksum of RFC 1071.  And what becomes of a   *)
(* frame, of any length and contents: the setters recompute its checksums  *)
(* as the kernel that composed it would have.                              *)
(*                                                                         *)
(* The fold over the words of a frame is a function defined by recursion   *)
(* on sets; what is known of it follows from the recursion by taking a     *)
(* smallest set that is a counterexample (MinimalSet).                     *)
(***************************************************************************)
EXTENDS Packet, FiniteSetTheorems, WellFoundedInduction, TLAPS

LEMMA DivMod ==
    ASSUME NEW k \in Nat \ {0}, NEW n \in Nat
    PROVE  /\ n \div k \in Nat
           /\ n % k \in Nat /\ n % k < k
           /\ (k * (n \div k)) + (n % k) = n
BY SMT

\* A division of C++ loses nothing: quotient and remainder give the number back,
\* whatever its sign (ts_from_nano and nano_from_ts of time.cpp).
THEOREM RoundTrip ==
    ASSUME NEW n \in Int
    PROVE  /\ ts_from_nano(n) \in Spans
           /\ nano_from_ts(ts_from_nano(n)) = n
<1>1. CASE n >= 0
    <2>1. n \in Nat
        BY <1>1
    <2>2. /\ n \div SECOND \in Nat
          /\ n % SECOND \in Nat /\ n % SECOND < SECOND
          /\ (SECOND * (n \div SECOND)) + (n % SECOND) = n
        BY <2>1, DivMod, SecondAssumption
    <2>3. Quotient(n) = n \div SECOND
        BY <1>1 DEF Quotient
    <2>4. Remainder(n) = n % SECOND
        BY <2>2, <2>3, SecondAssumption DEF Remainder
    <2> QED
        BY <2>2, <2>3, <2>4, SecondAssumption
        DEF ts_from_nano, nano_from_ts, Spans
<1>2. CASE n < 0
    <2> DEFINE m == -n
    <2>1. m \in Nat /\ n = -m
        BY <1>2
    <2>2. Quotient(n) = -(m \div SECOND)
        BY <1>2 DEF Quotient
    <2> HIDE DEF m
    <2>3. /\ m \div SECOND \in Nat
          /\ m % SECOND \in Nat /\ m % SECOND < SECOND
          /\ (SECOND * (m \div SECOND)) + (m % SECOND) = m
        BY <2>1, DivMod, SecondAssumption
    <2>4. Remainder(n) = -(m % SECOND)
        <3> DEFINE q == m \div SECOND
        <3>1. q \in Nat /\ Quotient(n) = -q /\ (SECOND * q) + (m % SECOND) = m
            BY <2>2, <2>3
        <3> HIDE DEF q
        <3>2. SECOND * (-q) = -(SECOND * q)
            BY <3>1, SecondAssumption
        <3> QED
            BY <2>1, <2>3, <3>1, <3>2, SecondAssumption DEF Remainder
    <2>5. nano_from_ts(ts_from_nano(n)) = n
        <3> DEFINE q == m \div SECOND
                   r == m % SECOND
        <3>1. q \in Nat /\ r \in Nat /\ (SECOND * q) + r = m
              /\ Quotient(n) = -q /\ Remainder(n) = -r
            BY <2>2, <2>3, <2>4
        <3> HIDE DEF q, r
        <3>2. SECOND * (-q) = -(SECOND * q)
            BY <3>1, SecondAssumption
        <3> QED
            BY <2>1, <3>1, <3>2, SecondAssumption DEF nano_from_ts, ts_from_nano
    <2> QED
        BY <2>2, <2>3, <2>4, <2>5, SecondAssumption DEF ts_from_nano, Spans
<1> QED
    BY <1>1, <1>2

\* The sum and the difference of two times are exact, and two times of
\* which neither is later are the same time (time.cpp:30-56).
THEOREM TimesAreNumbers ==
    ASSUME NEW t1 \in Spans, NEW t2 \in Spans
    PROVE  /\ nano_from_ts(Plus(t1, t2)) = nano_from_ts(t1) + nano_from_ts(t2)
           /\ nano_from_ts(Minus(t1, t2)) = nano_from_ts(t1) - nano_from_ts(t2)
           /\ Plus(t1, t2) \in Spans /\ Minus(t1, t2) \in Spans
           /\ ~Later(t1, t2) /\ ~Later(t2, t1) => t1 = t2
<1> DEFINE s1 == t1.tv_sec   n1 == t1.tv_nsec
           s2 == t2.tv_sec   n2 == t2.tv_nsec
<1>1. /\ s1 \in Int /\ s2 \in Int /\ n1 \in Int /\ n2 \in Int
      /\ n1 < SECOND /\ -n1 < SECOND /\ n2 < SECOND /\ -n2 < SECOND
      /\ (s1 > 0 => n1 >= 0) /\ (s1 < 0 => n1 =< 0)
      /\ (s2 > 0 => n2 >= 0) /\ (s2 < 0 => n2 =< 0)
      /\ t1 = [tv_sec |-> s1, tv_nsec |-> n1]
      /\ t2 = [tv_sec |-> s2, tv_nsec |-> n2]
    BY DEF Spans
<1>2. /\ nano_from_ts(t1) = (SECOND * s1) + n1
      /\ nano_from_ts(t2) = (SECOND * s2) + n2
    BY DEF nano_from_ts
<1> HIDE DEF s1, n1, s2, n2
<1>3. nano_from_ts(t1) \in Int /\ nano_from_ts(t2) \in Int
    BY <1>1, <1>2, SecondAssumption
<1>4. ASSUME nano_from_ts(t1) = nano_from_ts(t2)
      PROVE  t1 = t2
    <2>1. SECOND * (s1 - s2) = n2 - n1
        <3>1. SECOND * (s1 - s2) = (SECOND * s1) - (SECOND * s2)
            BY <1>1, SecondAssumption
        <3>2. SECOND * s1 \in Int /\ SECOND * s2 \in Int
            BY <1>1, SecondAssumption
        <3> QED
            BY <1>1, <1>2, <1>4, <3>1, <3>2
    <2>2. ~ s1 - s2 > 0
        <3> SUFFICES ASSUME s1 - s2 > 0 PROVE FALSE
            OBVIOUS
        <3>1. SECOND * (s1 - s2) >= SECOND
            BY <1>1, SecondAssumption
        <3> QED
            BY <1>1, <2>1, <3>1, SecondAssumption
    <2>3. ~ s1 - s2 < 0
        <3> SUFFICES ASSUME s1 - s2 < 0 PROVE FALSE
            OBVIOUS
        <3>1. SECOND * (s1 - s2) =< -SECOND
            BY <1>1, SecondAssumption
        <3> QED
            BY <1>1, <2>1, <3>1, SecondAssumption
    <2>4. s1 = s2
        BY <1>1, <2>2, <2>3
    <2>5. n1 = n2
        BY <1>1, <2>1, <2>4, SecondAssumption
    <2> QED
        BY <1>1, <2>4, <2>5
<1>5. /\ nano_from_ts(t1) + nano_from_ts(t2) \in Int
      /\ nano_from_ts(t1) - nano_from_ts(t2) \in Int
    BY <1>3
<1>6. /\ nano_from_ts(Plus(t1, t2)) = nano_from_ts(t1) + nano_from_ts(t2)
      /\ nano_from_ts(Minus(t1, t2)) = nano_from_ts(t1) - nano_from_ts(t2)
      /\ Plus(t1, t2) \in Spans /\ Minus(t1, t2) \in Spans
    BY <1>5, RoundTrip DEF Plus, Minus
<1>7. ~Later(t1, t2) /\ ~Later(t2, t1) => nano_from_ts(t1) = nano_from_ts(t2)
    BY <1>3 DEF Later
<1> QED
    BY <1>4, <1>6, <1>7

\* A span that is not negative is a time.
LEMMA SpanIsTime ==
    ASSUME NEW d \in Spans, nano_from_ts(d) >= 0
    PROVE  d \in Times
<1> DEFINE s == d.tv_sec   n == d.tv_nsec
<1>1. /\ s \in Int /\ n \in Int /\ n < SECOND /\ -n < SECOND
      /\ (s > 0 => n >= 0) /\ (s < 0 => n =< 0)
      /\ d = [tv_sec |-> s, tv_nsec |-> n]
    BY DEF Spans
<1>2. (SECOND * s) + n >= 0
    BY DEF nano_from_ts
<1> HIDE DEF s, n
<1>3. s >= 0
    <2> SUFFICES ASSUME s < 0
                 PROVE  FALSE
        BY <1>1
    <2>1. SECOND * s =< -SECOND
        BY <1>1, SecondAssumption
    <2>2. SECOND * s \in Int
        BY <1>1, SecondAssumption
    <2> QED
        BY <1>1, <1>2, <2>1, <2>2, SecondAssumption
<1>4. s = 0 => n >= 0
    BY <1>1, <1>2, SecondAssumption
<1>5. n \in 0 .. SECOND - 1 /\ s \in Nat
    BY <1>1, <1>3, <1>4, SecondAssumption
<1> QED
    BY <1>1, <1>5 DEF Times

\* get_time_since, time.cpp:64-68: as the clock never goes back, what awake adds to
\* the virtual clock is a time, with less than a second in tv_nsec, and exact.
THEOREM ElapsedIsTime ==
    ASSUME NEW curr_time \in Times, NEW ts1 \in Times, ~ Earlier(curr_time, ts1)
    PROVE  /\ get_time_since(curr_time, ts1) \in Times
           /\ nano_from_ts(get_time_since(curr_time, ts1))
                = nano_from_ts(curr_time) - nano_from_ts(ts1)
<1> DEFINE d == Minus(curr_time, ts1)
<1>1. curr_time \in Spans /\ ts1 \in Spans
    BY SecondAssumption DEF Times, Spans
<1>2. d \in Spans /\ nano_from_ts(d) = nano_from_ts(curr_time) - nano_from_ts(ts1)
    BY <1>1, TimesAreNumbers
<1>3. nano_from_ts(curr_time) \in Int /\ nano_from_ts(ts1) \in Int
    BY SecondAssumption DEF Times, nano_from_ts
<1> HIDE DEF d
<1>4. nano_from_ts(d) >= 0
    BY <1>2, <1>3 DEF Earlier
<1>5. d \in Times
    BY <1>2, <1>4, SpanIsTime
<1> QED
    BY <1>2, <1>5 DEF get_time_since, d
-----------------------------------------------------------------------------
\* The loop "while (sum >> 16)" of packet.hpp ends after two rounds on every sum
\* of 32 bits, with a number of 16 bits that is congruent to the sum.
THEOREM TwoRounds ==
    ASSUME NEW sum \in Nat, sum < 65536 * 65536
    PROVE  /\ Folded(sum) \in Nat /\ Folded(sum) =< 65535
           /\ Folded(sum) % 65535 = sum % 65535
           /\ sum > 0 => Folded(sum) > 0
<1>1. Carry(sum) \in Nat /\ Carry(sum) =< 131070
    BY SMT DEF Carry
<1>2. Carry(sum) % 65535 = sum % 65535
    BY SMT DEF Carry
<1>3. sum > 0 => Carry(sum) > 0
    BY SMT DEF Carry
<1> DEFINE c == Carry(sum)
<1>4. c \in Nat /\ c =< 131070
    BY <1>1
<1> HIDE DEF c
<1>5. Carry(c) \in Nat /\ Carry(c) =< 65535
    BY <1>4, SMT DEF Carry
<1>6. Carry(c) % 65535 = c % 65535
    BY <1>4, SMT DEF Carry
<1>7. c > 0 => Carry(c) > 0
    BY <1>4, SMT DEF Carry
<1> QED
    BY <1>2, <1>3, <1>5, <1>6, <1>7 DEF Folded, c

\* The checksum that the setters store is that of RFC 1071, and it makes the
\* receiver's sum vanish (ip4_checksum and tcp_checksum of packet.hpp).
THEOREM StoredChecksumVerifies ==
    ASSUME NEW sum \in Nat, sum > 0, sum < 65536 * 65536
    PROVE  /\ Complement(Folded(sum)) = RFC1071(sum)
           /\ RFC1071(sum) \in Nat /\ RFC1071(sum) < 65535
           /\ (sum + RFC1071(sum)) % 65535 = 0
<1> DEFINE f == Folded(sum)
<1>1. f \in Nat /\ f =< 65535 /\ f > 0 /\ f % 65535 = sum % 65535
    BY TwoRounds
<1> HIDE DEF f
<1>2. 65535 - f = RFC1071(sum)
    BY <1>1, SMT DEF RFC1071
<1>3. RFC1071(sum) \in Nat /\ RFC1071(sum) < 65535
    BY SMT DEF RFC1071
<1>4. (sum + RFC1071(sum)) % 65535 = 0
    BY SMT DEF RFC1071
<1> QED
    BY <1>2, <1>3, <1>4 DEF Complement, f
-----------------------------------------------------------------------------
(* Sums: what FoldSeq of the community modules computes with +.            *)

Choice(s) == CHOOSE x \in s : TRUE

\* it is the recursive function that sums f over the subsets of S.
IsSumming(it, f, S) ==
    it = [s \in SUBSET S |->
            IF s = {} THEN 0 ELSE f[Choice(s)] + it[s \ {Choice(s)}]]

\* The sum of f over S.
Total(f, S) == (CHOOSE it : IsSumming(it, f, S))[S]

LEMMA SumIsTotal == \A w : SumOf(w) = Total(w, DOMAIN w)
BY DEF SumOf, FoldSeq, FoldFunction, FoldFunctionOnSet, MapThenFoldSet,
       Total, IsSumming, Choice

\* A set of numbers that is not empty has a least one.
LEMMA LeastMember ==
    ASSUME NEW N \in SUBSET Nat, N # {}
    PROVE  \E n \in N : \A m \in N : ~ m < n
<1> DEFINE R == {p \in Nat \X Nat : p[1] < p[2]}
<1>1. IsWellFoundedOn(R, Nat)
    BY NatLessThanWellFounded DEF OpToRel
<1>2. \A Q, U, T : IsWellFoundedOn(Q, U) /\ T \subseteq U /\ T # {}
                => \E x \in T : \A y \in T : ~ (<<y, x>> \in Q)
    BY WFMin
<1> HIDE DEF R
<1>3. PICK n \in N : \A m \in N : ~ (<<m, n>> \in R)
    BY <1>1, <1>2
<1>4. \A m \in N : m < n => <<m, n>> \in R
    BY DEF R
<1> QED
    BY <1>3, <1>4

\* Among subsets of a finite set there is one that contains no other.
LEMMA MinimalSet ==
    ASSUME NEW S, IsFiniteSet(S), NEW F \in SUBSET SUBSET S, F # {}
    PROVE  \E X \in F : \A Y \in F : Y \subseteq X => Y = X
<1>1. \A X \in SUBSET S : IsFiniteSet(X) /\ Cardinality(X) \in Nat
    BY FS_Subset, FS_CardinalityType
<1> DEFINE N == {Cardinality(X) : X \in F}
<1>2. N \in SUBSET Nat /\ N # {}
    BY <1>1
<1>3. PICK n \in N : \A m \in N : ~ m < n
    <2> HIDE DEF N
    <2> QED
        BY <1>2, LeastMember
<1>4. PICK X \in F : n = Cardinality(X)
    OBVIOUS
<1>5. ASSUME NEW Y \in F, Y \subseteq X, Y # X
      PROVE  FALSE
    <2>1. Cardinality(Y) \in N
        OBVIOUS
    <2>2. Cardinality(Y) < Cardinality(X)
        BY <1>1, <1>5, FS_Subset
    <2> QED
        BY <1>3, <1>4, <2>1, <2>2
<1> QED
    BY <1>4, <1>5

\* Two such functions agree where both are defined.
LEMMA SummingAgree ==
    ASSUME NEW f, NEW S1, NEW S2, NEW it1, NEW it2, NEW T, IsFiniteSet(T),
           T \subseteq S1, T \subseteq S2,
           IsSumming(it1, f, S1), IsSumming(it2, f, S2)
    PROVE  it1[T] = it2[T]
<1> SUFFICES ASSUME it1[T] # it2[T]
             PROVE  FALSE
    OBVIOUS
<1> DEFINE F == {X \in SUBSET T : it1[X] # it2[X]}
<1>1. F \in SUBSET SUBSET T /\ F # {}
    OBVIOUS
<1>2. PICK X \in F : \A Y \in F : Y \subseteq X => Y = X
    <2> HIDE DEF F
    <2> QED
        BY <1>1, MinimalSet
<1>3. /\ it1[X] = IF X = {} THEN 0 ELSE f[Choice(X)] + it1[X \ {Choice(X)}]
      /\ it2[X] = IF X = {} THEN 0 ELSE f[Choice(X)] + it2[X \ {Choice(X)}]
    BY DEF IsSumming
<1>4. X # {}
    BY <1>3
<1>5. Choice(X) \in X
    BY <1>4 DEF Choice
<1>6. X \ {Choice(X)} \notin F
    BY <1>2, <1>5
<1> QED
    BY <1>3, <1>6

\* There is such a function for every finite set.
LEMMA SummingExists ==
    ASSUME NEW S, IsFiniteSet(S), NEW f
    PROVE  IsSumming(CHOOSE it : IsSumming(it, f, S), f, S)
<1> DEFINE Sums(X) == \E it : IsSumming(it, f, X)
<1> SUFFICES Sums(S)
    OBVIOUS
<1> SUFFICES ASSUME ~ Sums(S)
             PROVE  FALSE
    OBVIOUS
<1> DEFINE F == {X \in SUBSET S : ~ Sums(X)}
<1>1. F \in SUBSET SUBSET S /\ F # {}
    OBVIOUS
<1> HIDE DEF Sums
<1>2. PICK X \in F : \A Y \in F : Y \subseteq X => Y = X
    <2> HIDE DEF F
    <2> QED
        BY <1>1, MinimalSet
<1>3. \A Y \in SUBSET X : IsFiniteSet(Y)
    BY FS_Subset
<1>4. \A Y \in SUBSET X : Y # X => IsSumming(CHOOSE it : IsSumming(it, f, Y), f, Y)
    BY <1>2 DEF Sums
<1>5. \A Y \in SUBSET X : Y # X =>
        Total(f, Y) = IF Y = {} THEN 0
                      ELSE f[Choice(Y)] + Total(f, Y \ {Choice(Y)})
    <2> TAKE Y \in SUBSET X
    <2> HAVE Y # X
    <2> DEFINE c == Choice(Y)
               Z == Y \ {Choice(Y)}
               itY == CHOOSE it : IsSumming(it, f, Y)
               itZ == CHOOSE it : IsSumming(it, f, Z)
    <2>1. IsSumming(itY, f, Y)
        BY <1>4
    <2>2. itY[Y] = IF Y = {} THEN 0 ELSE f[c] + itY[Z]
        BY <2>1 DEF IsSumming
    <2>3. CASE Y = {}
        BY <2>2, <2>3 DEF Total
    <2>4. CASE Y # {}
        <3>1. c \in Y
            BY <2>4 DEF Choice
        <3>2. Z \in SUBSET X /\ Z # X /\ Z \subseteq Y /\ Z \subseteq Z
            BY <3>1
        <3>3. IsSumming(itZ, f, Z)
            BY <1>4, <3>2
        <3>4. IsFiniteSet(Z)
            BY <1>3, <3>2
        <3> HIDE DEF itY, itZ, Z, c
        <3>5. itY[Z] = itZ[Z]
            BY <2>1, <3>2, <3>3, <3>4, SummingAgree
        <3>6. Total(f, Y) = itY[Y]
            BY DEF Total, itY
        <3>7. Total(f, Z) = itZ[Z]
            BY DEF Total, itZ
        <3>8. Total(f, Y) = f[c] + Total(f, Z)
            BY <2>2, <2>4, <3>5, <3>6, <3>7
        <3> QED
            BY <2>4, <3>8 DEF c, Z
    <2> QED
        BY <2>3, <2>4
<1> DEFINE it == [s \in SUBSET X |->
                    IF s = {} THEN 0 ELSE f[Choice(s)] + Total(f, s \ {Choice(s)})]
<1>6. \A s \in SUBSET X : s # {} => 
         /\ Choice(s) \in s
         /\ s \ {Choice(s)} \in SUBSET X
         /\ s \ {Choice(s)} # X
    BY DEF Choice
<1>7. \A s \in SUBSET X : s # {} => it[s \ {Choice(s)}] = Total(f, s \ {Choice(s)})
    BY <1>5, <1>6
<1>8. IsSumming(it, f, X)
    BY <1>6, <1>7 DEF IsSumming
<1> QED
    BY <1>2, <1>8 DEF Sums

\* The sum is its element of choice and the sum of the others.
LEMMA TotalRecursion ==
    ASSUME NEW S, IsFiniteSet(S), NEW f
    PROVE  Total(f, S) = IF S = {} THEN 0
                         ELSE f[Choice(S)] + Total(f, S \ {Choice(S)})
<1> DEFINE c == Choice(S)
           Z == S \ {Choice(S)}
           itS == CHOOSE it : IsSumming(it, f, S)
           itZ == CHOOSE it : IsSumming(it, f, Z)
<1>1. IsSumming(itS, f, S)
    BY SummingExists
<1>2. IsFiniteSet(Z) /\ Z \subseteq S /\ Z \subseteq Z
    BY FS_Subset
<1>3. IsSumming(itZ, f, Z)
    BY <1>2, SummingExists
<1>4. itS[S] = IF S = {} THEN 0 ELSE f[c] + itS[Z]
    BY <1>1 DEF IsSumming
<1>5. Total(f, S) = itS[S] /\ Total(f, Z) = itZ[Z]
    BY DEF Total
<1> HIDE DEF itS, itZ
<1>6. itS[Z] = itZ[Z]
    BY <1>1, <1>2, <1>3, SummingAgree
<1> QED
    BY <1>4, <1>5, <1>6

\* A sum of numbers is a number.
LEMMA TotalNat ==
    ASSUME NEW S, IsFiniteSet(S), NEW f, \A x \in S : f[x] \in Nat
    PROVE  Total(f, S) \in Nat
<1> SUFFICES ASSUME Total(f, S) \notin Nat
             PROVE  FALSE
    OBVIOUS
<1> DEFINE F == {X \in SUBSET S : Total(f, X) \notin Nat}
<1>1. F \in SUBSET SUBSET S /\ F # {}
    OBVIOUS
<1>2. PICK X \in F : \A Y \in F : Y \subseteq X => Y = X
    <2> HIDE DEF F
    <2> QED
        BY <1>1, MinimalSet
<1>3. Total(f, X) = IF X = {} THEN 0
                    ELSE f[Choice(X)] + Total(f, X \ {Choice(X)})
    BY FS_Subset, TotalRecursion
<1>4. X # {}
    BY <1>3
<1>5. Choice(X) \in X
    BY <1>4 DEF Choice
<1>6. Total(f, X \ {Choice(X)}) \in Nat
    BY <1>2, <1>5
<1> QED
    BY <1>3, <1>4, <1>5, <1>6

\* The sum does not depend on the order of the words.
LEMMA TotalTakeOut ==
    ASSUME NEW S, IsFiniteSet(S), NEW f, \A x \in S : f[x] \in Nat, NEW a \in S
    PROVE  Total(f, S) = f[a] + Total(f, S \ {a})
<1> DEFINE Out(X, x) == Total(f, X) = f[x] + Total(f, X \ {x})
<1> SUFFICES ASSUME ~ Out(S, a)
             PROVE  FALSE
    OBVIOUS
<1> DEFINE F == {X \in SUBSET S : \E x \in X : ~ Out(X, x)}
<1>1. F \in SUBSET SUBSET S /\ F # {}
    OBVIOUS
<1> HIDE DEF Out
<1>2. PICK X \in F : \A Y \in F : Y \subseteq X => Y = X
    <2> HIDE DEF F
    <2> QED
        BY <1>1, MinimalSet
<1>3. PICK x \in X : ~ Out(X, x)
    BY <1>2
<1> DEFINE c == Choice(X)
<1>4. c \in X
    BY DEF Choice
<1>5. Out(X, c)
    BY <1>3, FS_Subset, TotalRecursion DEF Out
<1>6. X \ {c} \notin F /\ X \ {x} \notin F
    BY <1>2, <1>3, <1>4
<1>7. c # x
    BY <1>3, <1>5
<1>8. Out(X \ {c}, x) /\ Out(X \ {x}, c)
    BY <1>3, <1>4, <1>6, <1>7
<1>9. (X \ {c}) \ {x} = (X \ {x}) \ {c}
    OBVIOUS
<1> DEFINE T == Total(f, (X \ {x}) \ {c})
<1>10. /\ Total(f, X) = f[c] + Total(f, X \ {c})
       /\ Total(f, X \ {c}) = f[x] + T
       /\ Total(f, X \ {x}) = f[c] + T
    BY <1>5, <1>8, <1>9 DEF Out
<1>11. f[c] \in Nat /\ f[x] \in Nat
    BY <1>3, <1>4
<1>12. T \in Nat
    BY FS_Subset, TotalNat
<1> HIDE DEF T, c
<1>13. Total(f, X) = f[x] + Total(f, X \ {x})
    BY <1>10, <1>11, <1>12
<1> QED
    BY <1>3, <1>13 DEF Out

\* Functions that agree have the same sum.
LEMMA TotalCongruence ==
    ASSUME NEW S, IsFiniteSet(S), NEW f, NEW g, \A x \in S : f[x] = g[x]
    PROVE  Total(f, S) = Total(g, S)
<1> SUFFICES ASSUME Total(f, S) # Total(g, S)
             PROVE  FALSE
    OBVIOUS
<1> DEFINE F == {X \in SUBSET S : Total(f, X) # Total(g, X)}
<1>1. F \in SUBSET SUBSET S /\ F # {}
    OBVIOUS
<1>2. PICK X \in F : \A Y \in F : Y \subseteq X => Y = X
    <2> HIDE DEF F
    <2> QED
        BY <1>1, MinimalSet
<1>3. /\ Total(f, X) = IF X = {} THEN 0
                       ELSE f[Choice(X)] + Total(f, X \ {Choice(X)})
      /\ Total(g, X) = IF X = {} THEN 0
                       ELSE g[Choice(X)] + Total(g, X \ {Choice(X)})
    BY FS_Subset, TotalRecursion
<1>4. X # {}
    BY <1>2, <1>3
<1>5. Choice(X) \in X
    BY <1>4 DEF Choice
<1>6. Total(f, X \ {Choice(X)}) = Total(g, X \ {Choice(X)})
    BY <1>2, <1>5
<1>7. f[Choice(X)] = g[Choice(X)]
    BY <1>2, <1>5
<1> QED
    BY <1>2, <1>3, <1>4, <1>6, <1>7

\* A sum of numbers of at most b.
LEMMA TotalBound ==
    ASSUME NEW S, IsFiniteSet(S), NEW f, NEW b \in Nat,
           \A x \in S : f[x] \in Nat /\ f[x] =< b
    PROVE  Total(f, S) =< b * Cardinality(S)
<1> DEFINE Bounded(X) == Total(f, X) =< b * Cardinality(X)
<1> SUFFICES ASSUME ~ Bounded(S)
             PROVE  FALSE
    OBVIOUS
<1> DEFINE F == {X \in SUBSET S : ~ Bounded(X)}
<1>1. F \in SUBSET SUBSET S /\ F # {}
    OBVIOUS
<1> HIDE DEF Bounded
<1>2. PICK X \in F : \A Y \in F : Y \subseteq X => Y = X
    <2> HIDE DEF F
    <2> QED
        BY <1>1, MinimalSet
<1>3. Total(f, X) = IF X = {} THEN 0
                    ELSE f[Choice(X)] + Total(f, X \ {Choice(X)})
    BY FS_Subset, TotalRecursion
<1>4. X # {}
    <2> SUFFICES ASSUME X = {}
                 PROVE  FALSE
        OBVIOUS
    <2>1. Cardinality({}) = 0
        BY FS_EmptySet
    <2>2. Total(f, {}) = 0 /\ b * 0 = 0
        BY <1>3
    <2> QED
        BY <1>2, <2>1, <2>2 DEF Bounded
<1> DEFINE c == Choice(X)
<1>5. c \in X
    BY <1>4 DEF Choice
<1>6. Bounded(X \ {c})
    BY <1>2, <1>5
<1>7. IsFiniteSet(X) /\ IsFiniteSet(X \ {c})
    BY FS_Subset
<1>8. /\ Cardinality(X) \in Nat /\ Cardinality(X \ {c}) \in Nat
      /\ Cardinality(X \ {c}) = Cardinality(X) - 1
    BY <1>5, <1>7, FS_CardinalityType, FS_RemoveElement
<1>9. \A x \in X : f[x] \in Nat /\ f[x] =< b
    BY <1>2
<1>10. Total(f, X \ {c}) \in Nat
    BY <1>7, <1>9, TotalNat
<1>11. Total(f, X) = f[c] + Total(f, X \ {c}) /\ f[c] \in Nat /\ f[c] =< b
    BY <1>3, <1>4, <1>5, <1>9
<1>12. \A m, n, t, w \in Nat :
          m = n - 1 /\ t =< b * m /\ w =< b => w + t =< b * n
    <2> TAKE m, n, t, w \in Nat
    <2> HAVE m = n - 1 /\ t =< b * m /\ w =< b
    <2>1. b * n = (b * m) + b /\ b * m \in Nat
        OBVIOUS
    <2> QED
        BY <2>1
<1> HIDE DEF c
<1>13. Bounded(X)
    BY <1>6, <1>8, <1>10, <1>11, <1>12 DEF Bounded
<1> QED
    BY <1>2, <1>13

-----------------------------------------------------------------------------
\* The indices of a sequence.
LEMMA FiniteRange ==
    ASSUME NEW n \in Nat
    PROVE  IsFiniteSet(1 .. n) /\ Cardinality(1 .. n) = n
BY FS_Interval, SMT

\* The sum of the words of a sequence, and each of them is no more than it.
LEMMA SumOfNat ==
    ASSUME NEW w \in Seq(Nat)
    PROVE  /\ SumOf(w) \in Nat
           /\ \A i \in 1 .. Len(w) : w[i] =< SumOf(w)
<1>0. Len(w) \in Nat /\ DOMAIN w = 1 .. Len(w) /\ \A i \in 1 .. Len(w) : w[i] \in Nat
    OBVIOUS
<1>1. IsFiniteSet(1 .. Len(w))
    BY <1>0, FiniteRange
<1>2. SumOf(w) = Total(w, 1 .. Len(w))
    BY <1>0, SumIsTotal
<1>3. SumOf(w) \in Nat
    BY <1>0, <1>1, <1>2, TotalNat
<1>4. ASSUME NEW i \in 1 .. Len(w)
      PROVE  w[i] =< SumOf(w)
    <2>1. SumOf(w) = w[i] + Total(w, (1 .. Len(w)) \ {i})
        BY <1>0, <1>1, <1>2, TotalTakeOut
    <2>2. Total(w, (1 .. Len(w)) \ {i}) \in Nat
        BY <1>0, <1>1, FS_Subset, TotalNat
    <2> QED
        BY <1>0, <2>1, <2>2
<1> QED
    BY <1>3, <1>4

\* Words of at most b.
LEMMA SumOfBound ==
    ASSUME NEW w \in Seq(Nat), NEW b \in Nat, \A i \in 1 .. Len(w) : w[i] =< b
    PROVE  SumOf(w) =< b * Len(w)
<1>1. Len(w) \in Nat /\ DOMAIN w = 1 .. Len(w) /\ \A i \in 1 .. Len(w) : w[i] \in Nat
    OBVIOUS
<1>2. IsFiniteSet(1 .. Len(w)) /\ Cardinality(1 .. Len(w)) = Len(w)
    BY <1>1, FiniteRange
<1>3. SumOf(w) = Total(w, 1 .. Len(w))
    BY <1>1, SumIsTotal
<1>4. Total(w, 1 .. Len(w)) =< b * Cardinality(1 .. Len(w))
    BY <1>1, <1>2, TotalBound
<1> QED
    BY <1>2, <1>3, <1>4

\* A word that changes changes the sum by the difference.
LEMMA SumOfExcept ==
    ASSUME NEW w \in Seq(Nat), NEW i \in 1 .. Len(w), NEW v \in Nat
    PROVE  SumOf([w EXCEPT ![i] = v]) = (SumOf(w) - w[i]) + v
<1> DEFINE x == [w EXCEPT ![i] = v]
           D == 1 .. Len(w)
<1>0. IsFiniteSet(D)
    BY FiniteRange
<1>1. /\ DOMAIN w = D /\ DOMAIN x = D
      /\ \A j \in D : w[j] \in Nat /\ x[j] \in Nat
      /\ \A j \in D \ {i} : x[j] = w[j]
      /\ x[i] = v
    OBVIOUS
<1> HIDE DEF x
<1>2. SumOf(w) = Total(w, D) /\ SumOf(x) = Total(x, D)
    BY <1>1, SumIsTotal
<1> HIDE DEF D
<1>3. Total(w, D) = w[i] + Total(w, D \ {i}) /\ Total(x, D) = x[i] + Total(x, D \ {i})
    BY <1>0, <1>1, TotalTakeOut DEF D
<1>4. Total(w, D \ {i}) = Total(x, D \ {i}) /\ Total(w, D \ {i}) \in Nat
    <2>1. IsFiniteSet(D \ {i})
        BY <1>0, FS_Subset
    <2> QED
        BY <1>1, <2>1, TotalCongruence, TotalNat
<1>5. w[i] \in Nat
    BY DEF D
<1> QED
    BY <1>1, <1>2, <1>3, <1>4, <1>5 DEF x

\* A word that is added adds to the sum.
LEMMA SumOfAppend ==
    ASSUME NEW w \in Seq(Nat), NEW v \in Nat
    PROVE  SumOf(Append(w, v)) = SumOf(w) + v
<1> DEFINE x == Append(w, v)
           n == Len(w)
<1>1. /\ n \in Nat /\ DOMAIN w = 1 .. n /\ DOMAIN x = 1 .. n + 1
      /\ \A j \in 1 .. n : w[j] \in Nat /\ x[j] = w[j]
      /\ x[n + 1] = v
    OBVIOUS
<1> HIDE DEF x, n
<1>2. IsFiniteSet(1 .. n) /\ IsFiniteSet(1 .. n + 1)
    BY <1>1, FiniteRange
<1>3. /\ \A j \in 1 .. n + 1 : x[j] \in Nat
      /\ n + 1 \in 1 .. n + 1
      /\ (1 .. n + 1) \ {n + 1} = 1 .. n
    BY <1>1
<1>4. SumOf(w) = Total(w, 1 .. n) /\ SumOf(x) = Total(x, 1 .. n + 1)
    BY <1>1, SumIsTotal
<1>5. Total(x, 1 .. n + 1) = v + Total(x, 1 .. n)
    BY <1>1, <1>2, <1>3, TotalTakeOut
<1>6. Total(x, 1 .. n) = Total(w, 1 .. n)
    BY <1>1, <1>2, TotalCongruence
<1>7. Total(w, 1 .. n) \in Nat
    BY <1>1, <1>2, TotalNat
<1> QED
    BY <1>4, <1>5, <1>6, <1>7 DEF x
-----------------------------------------------------------------------------
(* Words and bytes.                                                        *)

LEMMA RangeBounds ==
    ASSUME NEW n \in Nat, NEW x
    PROVE  x \in 0 .. n <=> x \in Nat /\ x =< n
BY SMT
LEMMA WordBounds ==
    ASSUME NEW x
    PROVE  x \in Word16 <=> x \in Nat /\ x =< 65535
<1> DEFINE n == 65535
<1>1. n \in Nat
    BY SMT
<1>2. n = 65535
    BY SMT
<1>3. Word16 = 0 .. n
    BY SMT DEF Word16
<1> HIDE DEF n
<1>4. x \in Word16 <=> x \in Nat /\ x =< n
    BY <1>1, <1>3, RangeBounds
<1> QED
    BY <1>2, <1>4, SMT

LEMMA OctetBounds ==
    ASSUME NEW x
    PROVE  x \in Octet <=> x \in Nat /\ x =< 255
<1> DEFINE n == 255
<1>1. n \in Nat
    BY SMT
<1>2. n = 255
    BY SMT
<1>3. Octet = 0 .. n
    BY SMT DEF Octet
<1> HIDE DEF n
<1>4. x \in Octet <=> x \in Nat /\ x =< n
    BY <1>1, <1>3, RangeBounds
<1> QED
    BY <1>2, <1>4, SMT

LEMMA SmallNumberIsWord ==
    ASSUME NEW x \in Nat, x =< 65535
    PROVE  x \in Word16
BY WordBounds, SMT

LEMMA WordRange ==
    ASSUME NEW x \in Octet, NEW y \in Octet
    PROVE  (256 * x) + y \in Word16
<1>1. x \in Nat /\ x =< 255 /\ y \in Nat /\ y =< 255
    BY OctetBounds, SMT
<1> DEFINE v == (256 * x) + y
<1>2. v \in Nat /\ v =< 65535
    BY <1>1, SMT
<1> HIDE DEF v
<1>3. v \in Word16
    BY <1>2, SmallNumberIsWord, SMT
<1> QED
    BY <1>3 DEF v

LEMMA WordSplit ==
    ASSUME NEW w \in Word16
    PROVE  /\ w \div 256 \in Octet /\ w % 256 \in Octet
           /\ (256 * (w \div 256)) + (w % 256) = w
<1> DEFINE p == w \div 256
           q == w % 256
<1>1. w \in Nat /\ w =< 65535
    BY WordBounds, SMT
<1>2. /\ p \in Nat /\ p =< 255 /\ q \in Nat /\ q =< 255
      /\ (256 * p) + q = w
    BY <1>1, SMT
<1> HIDE DEF p, q
<1>3. p \in Octet /\ q \in Octet
    BY <1>2, OctetBounds, SMT
<1> QED
    BY <1>2, <1>3 DEF p, q

LEMMA Halves ==
    ASSUME NEW n \in Nat
    PROVE  /\ n \div 2 \in Nat /\ n % 2 \in {0, 1}
           /\ (2 * (n \div 2)) + (n % 2) = n
           /\ \A i \in 1 .. n \div 2 : 2 * i \in 1 .. n /\ (2 * i) - 1 \in 1 .. n
<1> DEFINE h == n \div 2
           r == n % 2
<1>1. h \in Nat /\ r \in {0, 1} /\ (2 * h) + r = n
    BY SMT
<1> HIDE DEF h, r
<1>2. \A i \in 1 .. h : 2 * i \in 1 .. n /\ (2 * i) - 1 \in 1 .. n
    BY <1>1, SMT
<1> QED
    BY <1>1, <1>2 DEF h, r

LEMMA SeqFacts ==
    ASSUME NEW S, NEW w \in Seq(S)
    PROVE  /\ Len(w) \in Nat /\ DOMAIN w = 1 .. Len(w)
           /\ w \in [1 .. Len(w) -> S] /\ w = [j \in 1 .. Len(w) |-> w[j]]
           /\ \A j \in 1 .. Len(w) : w[j] \in S
OBVIOUS

LEMMA FunctionIsSeq ==
    ASSUME NEW S, NEW n \in Nat, NEW w \in [1 .. n -> S]
    PROVE  w \in Seq(S) /\ Len(w) = n
OBVIOUS

LEMMA AppendFacts ==
    ASSUME NEW S, NEW w \in Seq(S), NEW v \in S
    PROVE  /\ Append(w, v) \in Seq(S) /\ Len(Append(w, v)) = Len(w) + 1
           /\ DOMAIN Append(w, v) = 1 .. Len(w) + 1
           /\ \A j \in 1 .. Len(w) : Append(w, v)[j] = w[j]
           /\ Append(w, v)[Len(w) + 1] = v
OBVIOUS

LEMMA SameFunction ==
    ASSUME NEW D, NEW x, NEW y, x = [j \in D |-> x[j]], y = [j \in D |-> y[j]],
           \A j \in D : x[j] = y[j]
    PROVE  x = y
OBVIOUS

LEMMA TwoChanged ==
    ASSUME NEW D, NEW b, DOMAIN b = D, NEW k \in D, NEW l \in D, k # l, NEW p, NEW q
    PROVE  [b EXCEPT ![k] = p, ![l] = q]
             = [i \in D |-> IF i = l THEN q ELSE IF i = k THEN p ELSE b[i]]
<1> DEFINE x == [b EXCEPT ![k] = p, ![l] = q]
           y == [i \in D |-> IF i = l THEN q ELSE IF i = k THEN p ELSE b[i]]
<1>1. DOMAIN x = D /\ x = [i \in DOMAIN x |-> x[i]]
    OBVIOUS
<1>2. ASSUME NEW i \in D
      PROVE  x[i] = IF i = l THEN q ELSE IF i = k THEN p ELSE b[i]
    OBVIOUS
<1> HIDE DEF x
<1>3. x = [i \in D |-> x[i]]
    BY <1>1
<1>4. y = [i \in D |-> y[i]] /\ \A i \in D : y[i] = x[i]
    BY <1>2
<1> HIDE DEF y
<1>5. x = y
    BY <1>3, <1>4, SameFunction
<1> QED
    BY <1>5 DEF x, y

LEMMA TwoChangedTwice ==
    ASSUME NEW D, NEW b, DOMAIN b = D, NEW k \in D, NEW l \in D, k # l,
           NEW p, NEW q, NEW r, NEW s
    PROVE  [[b EXCEPT ![k] = p, ![l] = q] EXCEPT ![k] = r, ![l] = s]
            = [b EXCEPT ![k] = r, ![l] = s]
<1> DEFINE c == [b EXCEPT ![k] = p, ![l] = q]
<1>1. DOMAIN c = D /\ \A i \in D \ {k, l} : c[i] = b[i]
    BY TwoChanged
<1> HIDE DEF c
<1>2. [c EXCEPT ![k] = r, ![l] = s]
        = [i \in D |-> IF i = l THEN s ELSE IF i = k THEN r ELSE c[i]]
    BY <1>1, TwoChanged, Zenon
<1>3. [b EXCEPT ![k] = r, ![l] = s]
        = [i \in D |-> IF i = l THEN s ELSE IF i = k THEN r ELSE b[i]]
    BY TwoChanged, Zenon
<1>4. [i \in D |-> IF i = l THEN s ELSE IF i = k THEN r ELSE c[i]]
        = [i \in D |-> IF i = l THEN s ELSE IF i = k THEN r ELSE b[i]]
    BY <1>1
<1>5. [c EXCEPT ![k] = r, ![l] = s] = [b EXCEPT ![k] = r, ![l] = s]
    BY <1>2, <1>3, <1>4, Zenon
<1> QED
    BY <1>5 DEF c

LEMMA WordsAreNumbers ==
    ASSUME NEW w \in Seq(Word16)
    PROVE  /\ w \in Seq(Nat)
           /\ \A i \in 1 .. Len(w) : w[i] =< 65535
<1>1. \A x \in Word16 : x \in Nat /\ x =< 65535
    BY WordBounds, SMT
<1>2. /\ Len(w) \in Nat /\ w \in [1 .. Len(w) -> Word16]
      /\ \A j \in 1 .. Len(w) : w[j] \in Word16
    BY SeqFacts
<1>3. w \in [1 .. Len(w) -> Nat]
    BY <1>1, <1>2
<1>4. w \in Seq(Nat)
    BY <1>2, <1>3, FunctionIsSeq
<1> QED
    BY <1>1, <1>2, <1>4

LEMMA WordsType ==
    ASSUME NEW b \in Seq(Octet)
    PROVE  /\ Words(b) \in Seq(Word16)
           /\ Len(Words(b)) = Len(b) \div 2
           /\ \A i \in 1 .. Len(b) \div 2 : Words(b)[i] = Word(b, i)
<1> DEFINE n == Len(b) \div 2
<1>1. Len(b) \in Nat /\ n \in Nat
    BY Halves
<1>2. \A j \in 1 .. Len(b) : b[j] \in Octet
    BY SeqFacts
<1>3. ASSUME NEW i \in 1 .. n
      PROVE  Word(b, i) \in Word16
    <2> DEFINE x == b[(2 * i) - 1]
               y == b[2 * i]
    <2>1. 2 * i \in 1 .. Len(b) /\ (2 * i) - 1 \in 1 .. Len(b)
        BY <1>1, Halves
    <2>2. x \in Octet /\ y \in Octet
        BY <1>2, <2>1
    <2>3. Word(b, i) = (256 * x) + y
        BY DEF Word
    <2> HIDE DEF x, y
    <2> QED
        BY <2>2, <2>3, WordRange
<1>4. Words(b) = [i \in 1 .. n |-> Word(b, i)]
    BY DEF Words
<1> HIDE DEF n
<1>5. \A i \in 1 .. n : Words(b)[i] = Word(b, i)
    BY <1>4
<1>6. Words(b) \in [1 .. n -> Word16]
    BY <1>3, <1>4
<1>7. Words(b) \in Seq(Word16) /\ Len(Words(b)) = n
    BY <1>1, <1>6, FunctionIsSeq
<1> QED
    BY <1>5, <1>7 DEF n

\* Writing a word of the segment changes that word and no other.
LEMMA SetWordWords ==
    ASSUME NEW b \in Seq(Octet), NEW i \in 1 .. Len(b) \div 2,
           NEW w \in Word16
    PROVE  /\ SetWord(b, i, w) \in Seq(Octet)
           /\ Len(SetWord(b, i, w)) = Len(b)
           /\ Words(SetWord(b, i, w)) = [Words(b) EXCEPT ![i] = w]
<1> DEFINE c == SetWord(b, i, w)
           hi == w \div 256
           lo == w % 256
<1>1. /\ Len(b) \in Nat /\ Len(b) \div 2 \in Nat
      /\ 2 * i \in 1 .. Len(b) /\ (2 * i) - 1 \in 1 .. Len(b)
    BY Halves
<1>2. hi \in Octet /\ lo \in Octet /\ (256 * hi) + lo = w
    BY WordSplit
<1>3. c = [b EXCEPT ![(2 * i) - 1] = hi, ![2 * i] = lo]
    BY DEF SetWord
<1> HIDE DEF c, hi, lo
<1>4. c \in Seq(Octet) /\ Len(c) = Len(b)
    BY <1>1, <1>2, <1>3, SeqFacts
<1>5. /\ c[(2 * i) - 1] = hi /\ c[2 * i] = lo
      /\ \A j \in 1 .. Len(b) : j # 2 * i /\ j # (2 * i) - 1 => c[j] = b[j]
    <2>1. (2 * i) - 1 # 2 * i
        BY SMT
    <2>2. DOMAIN b = 1 .. Len(b)
        BY SeqFacts
    <2> DEFINE k == 2 * i
               l == (2 * i) - 1
    <2> HIDE DEF k, l
    <2>3. c = [b EXCEPT ![l] = hi, ![k] = lo]
        BY <1>3 DEF k, l
    <2>4. c = [j \in 1 .. Len(b) |-> IF j = k THEN lo ELSE IF j = l THEN hi ELSE b[j]]
        <3>1. k \in 1 .. Len(b) /\ l \in 1 .. Len(b) /\ l # k
            BY <1>1, <2>1 DEF k, l
        <3> QED
            BY <2>2, <2>3, <3>1, TwoChanged, Zenon
    <2>5. c[l] = hi /\ c[k] = lo
          /\ \A j \in 1 .. Len(b) : j # k /\ j # l => c[j] = b[j]
        BY <1>1, <2>1, <2>4 DEF k, l
    <2> QED
        BY <2>5 DEF k, l
<1>6. Word(c, i) = w
    BY <1>2, <1>5 DEF Word
<1>7. ASSUME NEW j \in 1 .. Len(b) \div 2, j # i
      PROVE  Word(c, j) = Word(b, j)
    <2>1. 2 * j \in 1 .. Len(b) /\ (2 * j) - 1 \in 1 .. Len(b)
        BY <1>1, Halves
    <2>2. 2 * j # 2 * i /\ (2 * j) - 1 # 2 * i /\ 2 * j # (2 * i) - 1
          /\ (2 * j) - 1 # (2 * i) - 1
        BY <1>7, SMT
    <2>3. c[2 * j] = b[2 * j] /\ c[(2 * j) - 1] = b[(2 * j) - 1]
        BY <1>5, <2>1, <2>2
    <2> QED
        BY <2>3, Zenon DEF Word
<1>8. Words(c) = [Words(b) EXCEPT ![i] = w]
    <2> DEFINE x == Words(c)
               y == [Words(b) EXCEPT ![i] = w]
    <2>1. x = [j \in 1 .. Len(b) \div 2 |-> Word(c, j)]
        BY <1>4 DEF Words
    <2>2. Words(b) = [j \in 1 .. Len(b) \div 2 |-> Word(b, j)]
        BY DEF Words
    <2>3. Words(b) \in Seq(Word16) /\ DOMAIN Words(b) = 1 .. Len(b) \div 2
        BY <2>2, WordsType
    <2>4. \A j \in 1 .. Len(b) \div 2 : x[j] = y[j]
        BY <1>6, <1>7, <2>1, <2>2, <2>3
    <2> HIDE DEF x
    <2> DEFINE D == 1 .. Len(b) \div 2
    <2> HIDE DEF D
    <2>5. x = [j \in D |-> x[j]]
        BY <2>1 DEF D
    <2>6. y = [j \in D |-> y[j]]
        <3>1. DOMAIN y = DOMAIN Words(b) /\ y = [j \in DOMAIN y |-> y[j]]
            OBVIOUS
        <3> HIDE DEF y
        <3> QED
            BY <2>3, <3>1 DEF D
    <2> HIDE DEF y
    <2>7. \A j \in D : x[j] = y[j]
        BY <2>4 DEF D
    <2>8. x = y
        BY <2>5, <2>6, <2>7, SameFunction
    <2> QED
        BY <2>8 DEF x, y
<1> QED
    BY <1>4, <1>8 DEF c

LEMMA SetWordTwice ==
    ASSUME NEW b \in Seq(Octet), NEW i \in 1 .. Len(b) \div 2, NEW v, NEW w
    PROVE  SetWord(SetWord(b, i, v), i, w) = SetWord(b, i, w)
<1>0. /\ 2 * i \in 1 .. Len(b) /\ (2 * i) - 1 \in 1 .. Len(b)
      /\ (2 * i) - 1 # 2 * i /\ DOMAIN b = 1 .. Len(b)
    BY Halves, SeqFacts
<1> DEFINE k == (2 * i) - 1
           l == 2 * i
           p == v \div 256
           q == v % 256
           r == w \div 256
           s == w % 256
<1>1. SetWord(SetWord(b, i, v), i, w)
        = [[b EXCEPT ![k] = p, ![l] = q] EXCEPT ![k] = r, ![l] = s]
    BY Zenon DEF SetWord
<1>2. SetWord(b, i, w) = [b EXCEPT ![k] = r, ![l] = s]
    BY Zenon DEF SetWord
<1> HIDE DEF k, l, p, q, r, s
<1>3. [[b EXCEPT ![k] = p, ![l] = q] EXCEPT ![k] = r, ![l] = s]
            = [b EXCEPT ![k] = r, ![l] = s]
    <2>1. k \in 1 .. Len(b) /\ l \in 1 .. Len(b) /\ k # l
        BY <1>0 DEF k, l
    <2> QED
        BY <1>0, <2>1, TwoChangedTwice, Zenon
<1> QED
    BY <1>1, <1>2, <1>3

\* Padding a segment of odd length adds one word, of its last byte.
LEMMA EvenWords ==
    ASSUME NEW b \in Seq(Octet)
    PROVE  /\ Even(b) \in Seq(Octet)
           /\ Len(Even(b)) =< Len(b) + 1
           /\ SumOf(Words(b)) \in Nat
           /\ SumOf(Words(Even(b)))
                = SumOf(Words(b))
                    + (IF Len(b) % 2 = 1 THEN 256 * b[Len(b)] ELSE 0)
<1>1. Words(b) \in Seq(Nat) /\ SumOf(Words(b)) \in Nat
    <2> DEFINE x == Words(b)
    <2>1. x \in Seq(Word16)
        BY WordsType
    <2> HIDE DEF x
    <2>2. x \in Seq(Nat)
        BY <2>1, WordsAreNumbers
    <2>3. x \in Seq(Nat) /\ SumOf(x) \in Nat
        BY <2>2, SumOfNat
    <2> QED
        BY <2>3 DEF x
<1>2. CASE Len(b) % 2 # 1
    BY <1>1, <1>2, SMT DEF Even
<1>3. CASE Len(b) % 2 = 1
    <2> DEFINE n == Len(b) \div 2
               last == b[Len(b)]
               e == Append(b, 0)
    <2>1. n \in Nat /\ Len(b) = (2 * n) + 1 /\ Len(b) \in Nat
        BY <1>3, Halves
    <2>2. last \in Octet
        BY <2>1, SMT
    <2>3. /\ e \in Seq(Octet) /\ Len(e) = Len(b) + 1
          /\ \A j \in 1 .. Len(b) : e[j] = b[j]
          /\ e[Len(b) + 1] = 0
        <3>1. 0 \in Octet
            BY DEF Octet
        <3> QED
            BY <3>1
    <2>4. Even(b) = e
        BY <1>3 DEF Even
    <2> HIDE DEF e
    <2>5. Len(e) \div 2 = n + 1
        BY <2>1, <2>3, SMT
    <2>6. Words(e) = [j \in 1 .. n + 1 |-> Word(e, j)]
          /\ Words(b) = [j \in 1 .. n |-> Word(b, j)]
        BY <2>5 DEF Words
    <2> HIDE DEF n, last
    <2>7. \A j \in 1 .. n : Word(e, j) = Word(b, j)
        <3> TAKE j \in 1 .. n
        <3>1. 2 * j \in 1 .. Len(b) /\ (2 * j) - 1 \in 1 .. Len(b)
            BY <2>1, SMT
        <3> QED
            BY <2>3, <3>1 DEF Word
    <2>8. Word(e, n + 1) = 256 * last
        <3>1. 2 * (n + 1) = Len(b) + 1 /\ (2 * (n + 1)) - 1 = Len(b)
            BY <2>1, SMT
        <3>2. Len(b) \in 1 .. Len(b)
            BY <2>1
        <3>3. e[(2 * (n + 1)) - 1] = last /\ e[2 * (n + 1)] = 0
            BY <2>3, <3>1, <3>2 DEF last
        <3>4. (256 * last) + 0 = 256 * last
            BY <2>2, SMT DEF Octet
        <3>5. Word(e, n + 1) = (256 * last) + 0
            BY <3>3 DEF Word
        <3> QED
            BY <3>4, <3>5
    <2> DEFINE v == 256 * last
    <2>9. v \in Nat
        BY <2>2, SMT DEF Octet
    <2> HIDE DEF v
    <2>10. Words(e) = Append(Words(b), v)
        <3>1. Word(e, n + 1) = v
            BY <2>8 DEF v
        <3> DEFINE x == Words(e)
                   y == Words(b)
        <3>2. y \in Seq(Nat) /\ Len(y) = n
            BY <1>1, <2>1, <2>6
        <3>3. \A j \in 1 .. n : x[j] = y[j]
            BY <2>1, <2>6, <2>7
        <3>4. x[n + 1] = v /\ DOMAIN x = 1 .. n + 1 /\ x = [j \in 1 .. n + 1 |-> x[j]]
            BY <2>1, <2>6, <3>1
        <3> HIDE DEF x, y
        <3>5. x = Append(y, v)
            <4> DEFINE z == Append(y, v)
            <4>1. /\ DOMAIN z = 1 .. n + 1 /\ z \in Seq(Nat) /\ Len(z) = n + 1
                  /\ \A j \in 1 .. n : z[j] = y[j]
                  /\ z[n + 1] = v
                BY <2>9, <3>2, AppendFacts
            <4> HIDE DEF z
            <4>2. z = [j \in 1 .. n + 1 |-> z[j]]
                BY <4>1, SeqFacts
            <4>3. \A j \in 1 .. n + 1 : j \in 1 .. n \/ j = n + 1
                BY <2>1
            <4> HIDE DEF x, y
            <4>4. \A j \in 1 .. n + 1 : z[j] = x[j]
                <5> TAKE j \in 1 .. n + 1
                <5>1. CASE j \in 1 .. n
                    BY <3>3, <4>1, <5>1
                <5>2. CASE j = n + 1
                    BY <3>4, <4>1, <5>2
                <5> QED
                    BY <4>3, <5>1, <5>2
            <4>5. z = x
                BY <3>4, <4>2, <4>4, SameFunction
            <4> QED
                BY <4>5 DEF z
        <3> QED
            BY <3>5 DEF x, y
    <2>11. SumOf(Words(e)) = SumOf(Words(b)) + v
        BY <1>1, <2>9, <2>10, SumOfAppend
    <2> QED
        BY <1>1, <1>3, <2>1, <2>3, <2>4, <2>11 DEF v, last
<1> QED
    BY <1>2, <1>3
-----------------------------------------------------------------------------
(* Checksums of a frame.                                                   *)

\* No sum of a frame needs more than 32 bits.
LEMMA ShortSum ==
    ASSUME NEW w \in Seq(Word16), Len(w) =< 32768
    PROVE  SumOf(w) \in Nat /\ SumOf(w) =< 65535 * 32768
<1>1. w \in Seq(Nat) /\ \A i \in 1 .. Len(w) : w[i] =< 65535
    BY WordsAreNumbers, SMT
<1> DEFINE b == 65535
<1>2. b \in Nat
    BY SMT
<1>3. SumOf(w) \in Nat
    BY <1>1, SumOfNat
<1>4. SumOf(w) =< b * Len(w)
    <2>1. \A i \in 1 .. Len(w) : w[i] =< b
        BY <1>1
    <2> HIDE DEF b
    <2> QED
        BY <1>1, <1>2, <2>1, SumOfBound
<1>5. Len(w) \in Nat
    BY SeqFacts
<1>6. \A n \in Nat : n =< 32768 => 65535 * n =< 65535 * 32768 /\ 65535 * n \in Nat
    BY SMT
<1>7. b * Len(w) =< b * 32768 /\ b * Len(w) \in Nat /\ b * 32768 \in Nat
    BY <1>5, <1>6, SMT
<1> HIDE DEF b
<1>8. SumOf(w) =< b * 32768
    <2> DEFINE u == b * Len(w)
               v == b * 32768
    <2>1. u =< v /\ u \in Nat /\ v \in Nat /\ SumOf(w) =< u
        BY <1>4, <1>7
    <2> HIDE DEF u, v
    <2>2. SumOf(w) =< v
        BY <1>3, <2>1
    <2> QED
        BY <2>2 DEF v
<1> QED
    BY <1>3, <1>8, SMT DEF b

\* ip4_checksum does not see the checksum that the header has.
LEMMA HeaderRecomputed ==
    ASSUME NEW ip \in Seq(Word16), Len(ip) >= 10, ip[6] = 0,
           SumOf(ip) > 0, SumOf(ip) < 65536 * 65536, NEW r \in Word16
    PROVE  ip4_checksum([ip EXCEPT ![6] = r]) = RFC1071(SumOf(ip))
<1> DEFINE c == [ip EXCEPT ![6] = r]
<1>1. ip \in Seq(Nat) /\ r \in Nat /\ 6 \in 1 .. Len(ip)
    BY WordsAreNumbers, WordBounds, SeqFacts, SMT
<1>2. SumOf(ip) \in Nat
    BY <1>1, SumOfNat
<1>3. SumOf(c) = (SumOf(ip) - ip[6]) + r
    BY <1>1, SumOfExcept
<1>4. c[6] = r
    BY <1>1, SeqFacts
<1> HIDE DEF c
<1>5. SumOf(c) - c[6] = SumOf(ip)
    BY <1>1, <1>2, <1>3, <1>4
<1>6. ip4_checksum(c) = Complement(Folded(SumOf(ip)))
    BY <1>5 DEF ip4_checksum
<1>7. Complement(Folded(SumOf(ip))) = RFC1071(SumOf(ip))
    BY <1>2, StoredChecksumVerifies
<1> QED
    BY <1>6, <1>7 DEF c

\* A whole TCP header and what follows it, the checksum 0.
WholeSegment(seg) ==
    /\ seg \in Seq(Octet) /\ Len(seg) >= 20 /\ Len(seg) =< 65535
    /\ seg[17] = 0 /\ seg[18] = 0

\* Its last byte is padded, and one that a char takes for a negative number.
NegativeByte(seg) == Len(seg) % 2 = 1 /\ seg[Len(seg)] >= 128

TextSegment(seg) == WholeSegment(seg) /\ ~ NegativeByte(seg)

\* The sum that the checksum of the segment completes.
SegmentSum(ip, seg) == PseudoSum(ip, seg) + SumOf(Words(Even(seg)))

\* The sum of the pseudo header.
LEMMA PseudoHeader ==
    ASSUME NEW ip \in Seq(Word16), Len(ip) >= 10, NEW n \in Nat
    PROVE  /\ ip[7] + ip[8] + ip[9] + ip[10] + TCP + n \in Nat
           /\ ip[7] + ip[8] + ip[9] + ip[10] + TCP + n > 0
           /\ ip[7] + ip[8] + ip[9] + ip[10] + TCP + n =< 262146 + n
<1> DEFINE i == ip[7]
           j == ip[8]
           k == ip[9]
           l == ip[10]
<1>1. i \in Word16 /\ j \in Word16 /\ k \in Word16 /\ l \in Word16
    <2>1. /\ 7 \in 1 .. Len(ip) /\ 8 \in 1 .. Len(ip)
          /\ 9 \in 1 .. Len(ip) /\ 10 \in 1 .. Len(ip)
        BY SeqFacts, SMT
    <2> QED
        BY <2>1, SeqFacts
<1> HIDE DEF i, j, k, l
<1>2. /\ i \in Nat /\ j \in Nat /\ k \in Nat /\ l \in Nat
      /\ i =< 65535 /\ j =< 65535 /\ k =< 65535 /\ l =< 65535
    BY <1>1, WordBounds, SMT
<1>3. /\ i + j + k + l + 6 + n \in Nat /\ i + j + k + l + 6 + n > 0
      /\ i + j + k + l + 6 + n =< 262146 + n
    BY <1>2, SMT
<1> QED
    BY <1>3 DEF i, j, k, l, TCP

LEMMA PseudoNat ==
    ASSUME NEW ip \in Seq(Word16), Len(ip) >= 10, protocol(ip) = TCP,
           NEW seg, Len(seg) \in Nat
    PROVE  PseudoSum(ip, seg) \in Nat
BY PseudoHeader DEF PseudoSum

\* Nor does the sum of a segment and its pseudo header.
LEMMA SegmentSumBound ==
    ASSUME NEW ip \in Seq(Word16), Len(ip) >= 10, protocol(ip) = TCP,
           NEW seg \in Seq(Octet), Len(seg) =< 65535
    PROVE  /\ SegmentSum(ip, seg) \in Nat /\ SegmentSum(ip, seg) > 0
           /\ SegmentSum(ip, seg) < 65536 * 40000
           /\ SegmentSum(ip, seg) < 65536 * 65536
<1> DEFINE e == Even(seg)
           x == SumOf(Words(e))
<1>1. /\ e \in Seq(Octet) /\ Len(e) =< Len(seg) + 1
      /\ Len(e) \in Nat /\ Len(seg) \in Nat
    BY EvenWords, SeqFacts
<1>2. Words(e) \in Seq(Word16) /\ Len(Words(e)) = Len(e) \div 2
    BY <1>1, WordsType
<1>3. Len(Words(e)) =< 32768
    <2>1. \A n \in Nat : n =< 65536 => n \div 2 =< 32768
        BY SMT
    <2>2. Len(e) =< 65536
        BY <1>1, SMT
    <2> QED
        BY <1>1, <1>2, <2>1, <2>2, SMT
<1>4. x \in Nat /\ x =< 65535 * 32768
    BY <1>2, <1>3, ShortSum
<1> HIDE DEF x, e
<1>6. PseudoSum(ip, seg) = ip[7] + ip[8] + ip[9] + ip[10] + TCP + Len(seg)
    BY DEF PseudoSum
<1> DEFINE p == PseudoSum(ip, seg)
<1>7. p \in Nat /\ p > 0 /\ p =< 262146 + Len(seg)
    BY <1>1, <1>6, PseudoHeader
<1>8. SegmentSum(ip, seg) = p + x
    BY DEF SegmentSum, x, e
<1> HIDE DEF p
<1>9. x + p \in Nat /\ x + p > 0 /\ x + p < 65536 * 40000
      /\ x + p < 65536 * 65536
    BY <1>1, <1>4, <1>7, SMT
<1> QED
    BY <1>4, <1>7, <1>8, <1>9, SMT

\* What storing a checksum in a segment changes.
LEMMA StoredWord ==
    ASSUME NEW seg, WholeSegment(seg), NEW w \in Word16
    PROVE  LET c == SetWord(seg, 9, w)
           IN  /\ c \in Seq(Octet) /\ Len(c) = Len(seg)
               /\ Word(c, 9) = w /\ c[Len(seg)] = seg[Len(seg)]
               /\ SumOf(Words(c)) = SumOf(Words(seg)) + w
<1> DEFINE c == SetWord(seg, 9, w)
           n == Len(seg)
<1>1. /\ seg \in Seq(Octet) /\ n \in Nat /\ n >= 20
      /\ 9 \in 1 .. n \div 2 /\ n \in 1 .. n
    BY SeqFacts, SMT DEF WholeSegment
<1>2. /\ c \in Seq(Octet) /\ Len(c) = n
      /\ Words(c) = [Words(seg) EXCEPT ![9] = w]
    BY <1>1, SetWordWords
<1>3. Words(seg)[9] = 0
    <2>1. Words(seg)[9] = Word(seg, 9)
        BY <1>1, WordsType
    <2>2. Word(seg, 9) = (256 * seg[17]) + seg[18]
        BY SMT DEF Word
    <2> QED
        BY <2>1, <2>2, SMT DEF WholeSegment
<1>4. Words(seg) \in Seq(Nat) /\ w \in Nat /\ 9 \in 1 .. Len(Words(seg))
    <2>1. Words(seg) \in Seq(Word16) /\ Len(Words(seg)) = n \div 2
        BY <1>1, WordsType
    <2> QED
        BY <1>1, <2>1, WordsAreNumbers, WordBounds, SMT
<1>5. SumOf(Words(c)) = SumOf(Words(seg)) + w
    <2>1. SumOf(Words(c)) = (SumOf(Words(seg)) - 0) + w
        BY <1>2, <1>3, <1>4, SumOfExcept
    <2>2. SumOf(Words(seg)) \in Nat
        BY <1>4, SumOfNat
    <2> QED
        BY <1>4, <2>1, <2>2
<1>6. Word(c, 9) = w
    <2>1. Words(c)[9] = w
        BY <1>2, <1>4
    <2>2. Words(c)[9] = Word(c, 9)
        BY <1>1, <1>2, WordsType
    <2> QED
        BY <2>1, <2>2
<1>7. c[n] = seg[n]
    <2>1. c = [seg EXCEPT ![17] = w \div 256, ![18] = w % 256]
        BY SMT DEF SetWord
    <2>2. n # 17 /\ n # 18
        <3>1. \A m \in Nat : m >= 20 => m # 17 /\ m # 18
            BY SMT
        <3> HIDE DEF n
        <3> QED
            BY <1>1, <3>1
    <2> QED
        BY <1>1, <2>1, <2>2, SeqFacts
<1> QED
    BY <1>2, <1>5, <1>6, <1>7

\* Where the segment holds its checksum, the sum grows by just that.
LEMMA CheckedSum ==
    ASSUME NEW seg, WholeSegment(seg), NEW w \in Word16
    PROVE  SumOf(Words(Even(SetWord(seg, 9, w)))) = SumOf(Words(Even(seg))) + w
<1> DEFINE c == SetWord(seg, 9, w)
           n == Len(seg)
           x == SumOf(Words(seg))
           pad == IF n % 2 = 1 THEN 256 * seg[n] ELSE 0
<1>1. /\ c \in Seq(Octet) /\ Len(c) = n /\ c[n] = seg[n]
      /\ SumOf(Words(c)) = x + w
    BY StoredWord
<1>2. seg \in Seq(Octet) /\ n \in Nat /\ n \in 1 .. n /\ w \in Nat
    BY SeqFacts, WordBounds, SMT DEF WholeSegment
<1>3. SumOf(Words(Even(seg))) = x + pad /\ x \in Nat
    BY <1>2, EvenWords
<1>4. SumOf(Words(Even(c))) = SumOf(Words(c)) + pad
    <2> HIDE DEF c
    <2>1. SumOf(Words(Even(c)))
            = SumOf(Words(c)) + (IF Len(c) % 2 = 1 THEN 256 * c[Len(c)] ELSE 0)
        BY <1>1, EvenWords
    <2> QED
        BY <1>1, <2>1
<1>5. pad \in Nat
    <2>1. seg[n] \in Nat
        BY <1>2, SeqFacts, OctetBounds
    <2> QED
        BY <2>1
<1> HIDE DEF pad, x, c
<1>6. SumOf(Words(Even(c))) = SumOf(Words(Even(seg))) + w
    BY <1>1, <1>2, <1>3, <1>4, <1>5
<1> QED
    BY <1>6 DEF c

\* What the sign of a char adds to the sum of the last byte.
Excess(seg) == IF NegativeByte(seg) THEN 256 * 65280 ELSE 0

\* tcp_checksum does not see the checksum that the segment has, and takes its
\* last byte as the kernel does, but for the sign.
LEMMA SegmentFolded ==
    ASSUME NEW ip \in Seq(Word16), Len(ip) >= 10, protocol(ip) = TCP,
           NEW seg, WholeSegment(seg), NEW w \in Word16
    PROVE  tcp_checksum(ip, SetWord(seg, 9, w))
             = Complement(Folded(SegmentSum(ip, seg) + Excess(seg)))
<1> DEFINE c == SetWord(seg, 9, w)
           n == Len(seg)
           pseudo == ip[7] + ip[8] + ip[9] + ip[10] + TCP + n
           odd == IF n % 2 = 1 THEN LastByte(c[n]) ELSE 0
           pad == IF n % 2 = 1 THEN 256 * seg[n] ELSE 0
           x == SumOf(Words(seg))
           e == Excess(seg)
<1>1. /\ Len(c) = n /\ c[n] = seg[n] /\ Word(c, 9) = w
      /\ SumOf(Words(c)) = x + w
    BY StoredWord
<1>2. seg \in Seq(Octet) /\ n \in Nat /\ n \in 1 .. n /\ w \in Nat
    BY SeqFacts, WordBounds, SMT DEF WholeSegment
<1>3. SumOf(Words(Even(seg))) = x + pad /\ x \in Nat
    BY <1>2, EvenWords
<1>4. seg[n] \in Nat
    BY <1>2, SeqFacts, OctetBounds
<1>5. pad \in Nat /\ e \in Nat
    BY <1>4, SMT DEF Excess
<1>6. odd = pad + e
    <2> DEFINE b == seg[n]
    <2>1. \A y \in Nat : LastByte(y) = IF y >= 128 THEN (256 * y) + (256 * 65280)
                                                  ELSE (256 * y) + 0
        BY SMT DEF LastByte
    <2>2. odd = IF n % 2 = 1 THEN LastByte(b) ELSE 0
        BY <1>1
    <2>3. pad = IF n % 2 = 1 THEN 256 * b ELSE 0
        OBVIOUS
    <2>4. e = IF n % 2 = 1 /\ b >= 128 THEN 256 * 65280 ELSE 0
        BY SMT DEF Excess, NegativeByte
    <2>5. b \in Nat
        BY <1>4
    <2> DEFINE k == 256 * 65280
    <2>6. k \in Nat
        BY SMT
    <2> HIDE DEF b, odd, pad, e, k
    <2>7. LastByte(b) = (256 * b) + (IF b >= 128 THEN k ELSE 0)
        <3>1. LastByte(b) = IF b >= 128 THEN (256 * b) + k ELSE (256 * b) + 0
            BY <2>1, <2>5 DEF k
        <3>2. CASE b >= 128
            BY <3>1, <3>2
        <3>3. CASE ~ (b >= 128)
            BY <3>1, <3>3
        <3> QED
            BY <3>2, <3>3
    <2>8. e = IF n % 2 = 1 /\ b >= 128 THEN k ELSE 0
        BY <2>4 DEF k
    <2> HIDE DEF n
    <2>9. CASE n % 2 = 1
        BY <2>2, <2>3, <2>5, <2>6, <2>7, <2>8, <2>9, SMT
    <2>10. CASE n % 2 # 1
        BY <2>2, <2>3, <2>8, <2>10, SMT
    <2> QED
        BY <2>9, <2>10
<1>7. pseudo \in Nat
    BY <1>2, PseudoHeader
<1>8. PseudoSum(ip, seg) = pseudo
    BY DEF PseudoSum
<1>9. tcp_checksum(ip, c)
        = Complement(Folded(pseudo + SumOf(Words(c)) - Word(c, 9) + odd))
    BY <1>1 DEF tcp_checksum
<1> HIDE DEF pseudo, odd, pad, x, c, n, e
<1>10. pseudo + SumOf(Words(c)) - Word(c, 9) + odd = (pseudo + (x + pad)) + e
    BY <1>1, <1>2, <1>3, <1>5, <1>6, <1>7
<1>11. pseudo + (x + pad) = SegmentSum(ip, seg)
    BY <1>3, <1>8 DEF SegmentSum
<1> QED
    BY <1>9, <1>10, <1>11 DEF c, e

LEMMA SegmentRecomputed ==
    ASSUME NEW ip \in Seq(Word16), Len(ip) >= 10, protocol(ip) = TCP,
           NEW seg, TextSegment(seg), NEW w \in Word16
    PROVE  tcp_checksum(ip, SetWord(seg, 9, w)) = RFC1071(SegmentSum(ip, seg))
<1> DEFINE t == SegmentSum(ip, seg)
<1>1. t \in Nat /\ t > 0 /\ t < 65536 * 65536
    <2>1. seg \in Seq(Octet) /\ Len(seg) =< 65535
        BY SMT DEF TextSegment, WholeSegment
    <2> QED
        BY <2>1, SegmentSumBound, SMT
<1>2. Excess(seg) = 0
    <2>1. ~ NegativeByte(seg)
        BY SMT DEF TextSegment
    <2> QED
        BY <2>1, SMT DEF Excess
<1>3. tcp_checksum(ip, SetWord(seg, 9, w)) = Complement(Folded(t + Excess(seg)))
    BY SegmentFolded DEF TextSegment
<1> HIDE DEF t
<1>4. t + Excess(seg) = t
    BY <1>1, <1>2, SMT
<1>5. Complement(Folded(t)) = RFC1071(t)
    BY <1>1, StoredChecksumVerifies
<1> QED
    BY <1>3, <1>4, <1>5 DEF t

\* The other frames, whatever they hold, are lost: what tcp_checksum stores for a
\* segment of odd length with a last byte of 128 or more never verifies
\* (packet.hpp:621; the run odd_byte shows one such frame).
THEOREM NegativeByteFails ==
    ASSUME NEW ip \in Seq(Word16), Len(ip) >= 10, protocol(ip) = TCP, Whole(ip),
           NEW seg, WholeSegment(seg), NegativeByte(seg), NEW w \in Word16
    PROVE  LET g == SetWord(seg, 9, tcp_checksum(ip, SetWord(seg, 9, w)))
           IN  ~ SegmentVerifies([ip |-> ip, seg |-> g])
<1> DEFINE t == SegmentSum(ip, seg)
           k == 256 * 65280
           r == RFC1071(t + k)
           g == SetWord(seg, 9, r)
           f == [ip |-> ip, seg |-> g]
<1>1. t \in Nat /\ t > 0 /\ t < 65536 * 40000
    <2>1. seg \in Seq(Octet) /\ Len(seg) =< 65535
        BY SMT DEF WholeSegment
    <2> QED
        BY <2>1, SegmentSumBound, SMT
<1>2. Excess(seg) = k
    BY SMT DEF Excess
<1>3. tcp_checksum(ip, SetWord(seg, 9, w)) = Complement(Folded(t + k))
    BY <1>2, SegmentFolded
<1>4. t = PseudoSum(ip, seg) + SumOf(Words(Even(seg)))
    BY DEF SegmentSum
<1>5. PseudoSum(ip, seg) \in Nat /\ SumOf(Words(Even(seg))) \in Nat
    <2>1. seg \in Seq(Octet) /\ Len(seg) \in Nat
        BY SeqFacts DEF WholeSegment
    <2>2. SumOf(Words(Even(seg))) \in Nat
        <3>1. Words(Even(seg)) \in Seq(Word16)
            BY <2>1, EvenWords, WordsType
        <3> QED
            BY <3>1, WordsAreNumbers, SumOfNat
    <2> QED
        BY <2>1, <2>2, PseudoNat
<1> HIDE DEF t
<1>6. t + k \in Nat /\ t + k > 0 /\ t + k < 65536 * 65536
    BY <1>1, SMT
<1>7. /\ Complement(Folded(t + k)) = r /\ r \in Nat /\ r < 65535
      /\ ((t + k) + r) % 65535 = 0
    <2> DEFINE u == t + k
    <2> HIDE DEF u
    <2>1. /\ Complement(Folded(u)) = RFC1071(u)
          /\ RFC1071(u) \in Nat /\ RFC1071(u) < 65535
          /\ (u + RFC1071(u)) % 65535 = 0
        BY <1>6, StoredChecksumVerifies DEF u
    <2> QED
        BY <2>1 DEF u
<1> HIDE DEF r
<1>8. (t + r) % 65535 # 0
    <2>1. \A y \in Nat : (y + k) % 65535 = 0 => y % 65535 # 0
        BY SMT
    <2>2. (t + r) + k = (t + k) + r /\ t + r \in Nat
        BY <1>1, <1>7, SMT
    <2> QED
        BY <1>7, <2>1, <2>2, SMT
<1>9. r \in Word16
    BY <1>7, SmallNumberIsWord, SMT
<1>10. SumOf(Words(Even(g))) = SumOf(Words(Even(seg))) + r /\ Len(g) = Len(seg)
    BY <1>9, CheckedSum, StoredWord
<1> HIDE DEF g
<1>11. PseudoSum(ip, g) = PseudoSum(ip, seg)
    BY <1>10 DEF PseudoSum
<1>12. PseudoSum(ip, g) + SumOf(Words(Even(g))) = t + r
    BY <1>4, <1>5, <1>7, <1>10, <1>11
<1>13. ~ SegmentVerifies(f)
    BY <1>8, <1>12 DEF SegmentVerifies
<1> QED
    BY <1>3, <1>7, <1>13 DEF g
-----------------------------------------------------------------------------
(* Frames: what the setters make of one that a kernel composed.            *)

\* The IP header of Composed before its checksum.
Addressed(h, seg, s, d) ==
    [h EXCEPT ![2] = (2 * Len(h)) + Len(seg), ![7] = s[1],
              ![8] = s[2], ![9] = d[1], ![10] = d[2]]

LEMMA AddressFacts ==
    ASSUME NEW a \in Addresses
    PROVE  a[1] \in Word16 /\ a[2] \in Word16
BY Zenon DEF Addresses

\* The lengths and fields of the frames of text.
LEMMA HeaderFacts ==
    ASSUME NEW h, NEW seg, TextFrame(h, seg)
    PROVE  /\ h \in Seq(Word16) /\ seg \in Seq(Octet)
           /\ Len(h) \in Nat /\ Len(h) >= 10 /\ Len(h) =< 32767
           /\ Len(seg) \in Nat /\ Len(seg) =< 65535
           /\ (2 * Len(h)) + Len(seg) \in Word16
           /\ 2 \in 1 .. Len(h) /\ 4 \in 1 .. Len(h) /\ 5 \in 1 .. Len(h)
           /\ 6 \in 1 .. Len(h) /\ 7 \in 1 .. Len(h) /\ 8 \in 1 .. Len(h)
           /\ 9 \in 1 .. Len(h) /\ 10 \in 1 .. Len(h)
           /\ h[6] = 0 /\ protocol(h) = TCP
<1>1. /\ h \in Seq(Word16) /\ seg \in Seq(Octet)
      /\ Len(h) >= 10 /\ (2 * Len(h)) + Len(seg) =< 65535
      /\ h[6] = 0 /\ protocol(h) = TCP
    BY SMT DEF TextFrame
<1>2. Len(h) \in Nat /\ Len(seg) \in Nat
    BY <1>1, SeqFacts
<1> DEFINE n == Len(h)
           m == Len(seg)
           t == (2 * n) + m
<1>3. n \in Nat /\ m \in Nat /\ n >= 10 /\ t =< 65535
    BY <1>1, <1>2
<1> HIDE DEF n, m
<1>4. t \in Nat /\ n =< 32767 /\ m =< 65535
    BY <1>3, SMT
<1>5. t \in Word16
    <2>1. t \in Nat /\ t =< 65535
        BY <1>3, <1>4
    <2> HIDE DEF t
    <2> QED
        BY <2>1, WordBounds, SMT
<1>6. /\ 2 \in 1 .. n /\ 4 \in 1 .. n /\ 5 \in 1 .. n /\ 6 \in 1 .. n
      /\ 7 \in 1 .. n /\ 8 \in 1 .. n /\ 9 \in 1 .. n /\ 10 \in 1 .. n
    BY <1>3, SMT
<1> QED
    BY <1>1, <1>3, <1>4, <1>5, <1>6, SMT DEF n, m

\* What filling in lengths and addresses changes.
LEMMA AddressedFacts ==
    ASSUME NEW h, NEW seg, TextFrame(h, seg),
           NEW s \in Addresses, NEW d \in Addresses
    PROVE  LET b == Addressed(h, seg, s, d)
           IN  /\ b \in Seq(Word16) /\ Len(b) = Len(h)
               /\ b[2] = (2 * Len(h)) + Len(seg)
               /\ b[7] = s[1] /\ b[8] = s[2] /\ b[9] = d[1] /\ b[10] = d[2]
               /\ \A i \in 1 .. Len(h) : i \notin {2, 7, 8, 9, 10} => b[i] = h[i]
<1> DEFINE b == Addressed(h, seg, s, d)
           n == Len(h)
           t == (2 * Len(h)) + Len(seg)
<1>1. /\ h \in Seq(Word16) /\ t \in Word16 /\ n \in Nat
      /\ 2 \in 1 .. n /\ 7 \in 1 .. n /\ 8 \in 1 .. n
      /\ 9 \in 1 .. n /\ 10 \in 1 .. n
    BY HeaderFacts
<1>2. s[1] \in Word16 /\ s[2] \in Word16 /\ d[1] \in Word16 /\ d[2] \in Word16
    BY AddressFacts
<1>3. h \in [1 .. n -> Word16]
    BY <1>1, SeqFacts
<1>4. b = [h EXCEPT ![2] = t, ![7] = s[1], ![8] = s[2], ![9] = d[1], ![10] = d[2]]
    BY DEF Addressed
<1> HIDE DEF b, n, t
<1>5. b \in [1 .. n -> Word16]
    BY <1>1, <1>2, <1>3, <1>4
<1>6. b \in Seq(Word16) /\ Len(b) = n
    BY <1>1, <1>5, FunctionIsSeq
<1>7. /\ b[2] = t
      /\ b[7] = s[1] /\ b[8] = s[2] /\ b[9] = d[1] /\ b[10] = d[2]
    BY <1>1, <1>3, <1>4
<1>8. ASSUME NEW i \in 1 .. n, i \notin {2, 7, 8, 9, 10}
      PROVE  b[i] = h[i]
    BY <1>3, <1>4, <1>8
<1> QED
    BY <1>6, <1>7, <1>8 DEF b, n, t

\* The header of every frame has a checksum that is stored in 16 bits.
LEMMA AddressedSum ==
    ASSUME NEW h, NEW seg, TextFrame(h, seg),
           NEW s \in Addresses, NEW d \in Addresses
    PROVE  LET b == Addressed(h, seg, s, d)
           IN  /\ b[4] = h[4] /\ b[6] = 0 /\ protocol(b) = TCP
               /\ SumOf(b) \in Nat /\ SumOf(b) > 0 /\ SumOf(b) < 65536 * 65536
               /\ RFC1071(SumOf(b)) \in Word16
<1> DEFINE b == Addressed(h, seg, s, d)
<1>1. /\ b \in Seq(Word16) /\ Len(b) = Len(h)
      /\ \A i \in 1 .. Len(h) : i \notin {2, 7, 8, 9, 10} => b[i] = h[i]
    BY AddressedFacts
<1>2. /\ Len(h) =< 32767 /\ Len(h) \in Nat
      /\ 4 \in 1 .. Len(h) /\ 5 \in 1 .. Len(h) /\ 6 \in 1 .. Len(h)
      /\ h[6] = 0 /\ protocol(h) = TCP
    BY HeaderFacts
<1> HIDE DEF b
<1>3. b[4] = h[4] /\ b[5] = h[5] /\ b[6] = h[6]
    BY <1>1, <1>2
<1>4. protocol(b) = TCP
    BY <1>2, <1>3 DEF protocol
<1>5. SumOf(b) \in Nat /\ SumOf(b) =< 65535 * 32768
    <2>1. Len(b) =< 32768
        BY <1>1, <1>2
    <2> QED
        BY <1>1, <2>1, ShortSum
<1>6. SumOf(b) > 0
    <2>1. b \in Seq(Nat) /\ 5 \in 1 .. Len(b) /\ b[5] \in Nat
        BY <1>1, <1>2, WordsAreNumbers, SeqFacts
    <2>2. b[5] =< SumOf(b)
        BY <2>1, SumOfNat
    <2>3. b[5] > 0
        <3>1. b[5] % 256 = 6
            BY <1>4 DEF protocol, TCP
        <3>2. \A x \in Nat : x % 256 = 6 => x > 0
            BY SMT
        <3> QED
            BY <2>1, <3>1, <3>2
    <2> QED
        BY <1>5, <2>1, <2>2, <2>3
<1>7. SumOf(b) < 65536 * 65536
    BY <1>5, SMT
<1> DEFINE r == RFC1071(SumOf(b))
<1>8. r \in Nat /\ r < 65535
    BY <1>5, <1>6, <1>7, StoredChecksumVerifies
<1>9. r \in Word16
    <2> HIDE DEF r
    <2> QED
        BY <1>8, WordBounds, SMT
<1> QED
    BY <1>2, <1>3, <1>4, <1>5, <1>6, <1>7, <1>9 DEF b

\* Whether a frame holds a transport header is in word 4, which nothing changes.
LEMMA TransportHeader ==
    ASSUME NEW h, NEW seg, TextFrame(h, seg), NEW b, b[4] = h[4]
    PROVE  /\ Whole(b) = Whole(h)
           /\ has_transport_layer_hdr(b) <=> Whole(h)
           /\ Whole(h) => TextSegment(seg)
<1>1. has_transport_layer_hdr(h) => Whole(h) /\ ~ LaterFragment(h)
    BY DEF TextFrame, LaterFragment, has_transport_layer_hdr
<1>2. h[4] \in Nat
    <2>1. h \in Seq(Word16) /\ 4 \in 1 .. Len(h)
        BY HeaderFacts
    <2> QED
        BY <2>1, SeqFacts, WordBounds
<1>3. Whole(h) => has_transport_layer_hdr(h)
    <2>1. \A x \in Nat : x % 16384 = 0 => x % 8192 = 0
        BY SMT
    <2> QED
        BY <1>2, <2>1, SMT DEF Whole, has_transport_layer_hdr
<1>4. has_transport_layer_hdr(b) = has_transport_layer_hdr(h) /\ Whole(b) = Whole(h)
    BY SMT DEF Whole, has_transport_layer_hdr
<1>5. Whole(h) => TextSegment(seg)
    <2>1. seg \in Seq(Octet) /\ Len(seg) =< 65535
        BY HeaderFacts
    <2> QED
        <3> SUFFICES ASSUME Whole(h) PROVE TextSegment(seg)
            OBVIOUS
        <3>1. ~ LaterFragment(h)
            BY <1>1, <1>3
        <3> DEFINE n == Len(seg)
                   l == seg[n]
        <3>2. /\ n >= 20 /\ seg[17] = 0 /\ seg[18] = 0
              /\ n % 2 = 1 => l < 128
            BY <3>1, SMT DEF TextFrame
        <3>3. n \in Nat /\ l \in Nat
            BY <2>1, <3>2, SeqFacts, OctetBounds, SMT
        <3>4. NegativeByte(seg) <=> n % 2 = 1 /\ l >= 128
            BY SMT DEF NegativeByte
        <3>5. WholeSegment(seg)
            BY <2>1, <3>2, SMT DEF WholeSegment
        <3> HIDE DEF n, l
        <3>6. ~ NegativeByte(seg)
            BY <3>2, <3>3, <3>4, SMT
        <3> QED
            BY <3>5, <3>6 DEF TextSegment
<1> QED
    BY <1>1, <1>3, <1>4, <1>5

\* The segment of a composed frame.
Checked(h, seg, s, d) ==
    IF Whole(h)
    THEN SetWord(seg, 9, RFC1071(SegmentSum(Addressed(h, seg, s, d), seg)))
    ELSE seg

\* A composed frame, in these terms.
LEMMA ComposedIs ==
    ASSUME NEW h, NEW seg, TextFrame(h, seg),
           NEW s \in Addresses, NEW d \in Addresses
    PROVE  LET b == Addressed(h, seg, s, d)
           IN  Composed(h, seg, s, d)
                 = [ip  |-> [b EXCEPT ![6] = RFC1071(SumOf(b))],
                    seg |-> Checked(h, seg, s, d)]
<1> DEFINE b == Addressed(h, seg, s, d)
           c == [b EXCEPT ![6] = RFC1071(SumOf(b))]
<1>1. b[4] = h[4] /\ protocol(b) = TCP
    BY AddressedSum
<1>2. Whole(b) = Whole(h)
    BY <1>1, TransportHeader
<1>3. Composed(h, seg, s, d) =
        [ip  |-> c,
         seg |-> IF Whole(b)
                 THEN SetWord(seg, ChecksumWord(b),
                        RFC1071(PseudoSum(b, seg) + SumOf(Words(Even(seg)))))
                 ELSE seg]
    BY SMT DEF Composed, Addressed
<1>4. ChecksumWord(b) = 9
    BY <1>1 DEF ChecksumWord
<1>5. Checked(h, seg, s, d) =
        IF Whole(h)
        THEN SetWord(seg, 9, RFC1071(PseudoSum(b, seg) + SumOf(Words(Even(seg)))))
        ELSE seg
    BY Zenon DEF Checked, SegmentSum
<1> HIDE DEF b, c
<1> QED
    BY <1>2, <1>3, <1>4, <1>5 DEF b, c

LEMMA CheckedFacts ==
    ASSUME NEW h, NEW seg, TextFrame(h, seg),
           NEW s \in Addresses, NEW d \in Addresses, Whole(h)
    PROVE  /\ RFC1071(SegmentSum(Addressed(h, seg, s, d), seg)) \in Word16
           /\ 9 \in 1 .. Len(seg) \div 2
<1> DEFINE b == Addressed(h, seg, s, d)
           t == SegmentSum(b, seg)
           r == RFC1071(t)
<1>1. b \in Seq(Word16) /\ Len(b) >= 10
    BY AddressedFacts, HeaderFacts
<1>2. protocol(b) = TCP
    BY AddressedSum
<1>3. seg \in Seq(Octet) /\ Len(seg) =< 65535 /\ Len(seg) \in Nat
    BY HeaderFacts
<1> HIDE DEF b
<1>4. t \in Nat /\ t > 0 /\ t < 65536 * 65536
    BY <1>1, <1>2, <1>3, SegmentSumBound
<1> HIDE DEF t
<1>5. r \in Nat /\ r < 65535
    BY <1>4, StoredChecksumVerifies
<1>6. r \in Word16
    <2> HIDE DEF r
    <2> QED
        BY <1>5, WordBounds, SMT
<1>7. Len(seg) >= 20
    BY TransportHeader DEF TextSegment, WholeSegment
<1>8. 9 \in 1 .. Len(seg) \div 2
    <2>1. \A n \in Nat : n >= 20 => 9 \in 1 .. n \div 2
        BY SMT
    <2> QED
        BY <1>3, <1>7, <2>1
<1> QED
    BY <1>6, <1>8 DEF b, t

\* A setter that has put an address where the frame had another one leaves
\* what the kernel would have composed with that address.
LEMMA RecomputedIsComposed ==
    ASSUME NEW h, NEW seg, TextFrame(h, seg),
           NEW s \in Addresses, NEW d \in Addresses,
           NEW r \in Word16, NEW w \in Word16
    PROVE  Recomputed([Addressed(h, seg, s, d) EXCEPT ![6] = r],
                      IF Whole(h) THEN SetWord(seg, 9, w) ELSE seg)
             = Composed(h, seg, s, d)
<1> DEFINE b == Addressed(h, seg, s, d)
           c == [b EXCEPT ![6] = r]
           g == IF Whole(h) THEN SetWord(seg, 9, w) ELSE seg
           v == RFC1071(SumOf(b))
<1>1. /\ b \in Seq(Word16) /\ Len(b) >= 10 /\ 6 \in 1 .. Len(b)
      /\ 4 \in 1 .. Len(b) /\ 5 \in 1 .. Len(b) /\ 7 \in 1 .. Len(b)
      /\ 8 \in 1 .. Len(b) /\ 9 \in 1 .. Len(b) /\ 10 \in 1 .. Len(b)
    BY AddressedFacts, HeaderFacts
<1>2. /\ b[4] = h[4] /\ b[6] = 0 /\ protocol(b) = TCP
      /\ SumOf(b) > 0 /\ SumOf(b) < 65536 * 65536
    BY AddressedSum
<1>3. Composed(h, seg, s, d)
        = [ip |-> [b EXCEPT ![6] = v], seg |-> Checked(h, seg, s, d)]
    BY ComposedIs
<1>4. Whole(h) => /\ TextSegment(seg) /\ 9 \in 1 .. Len(seg) \div 2
                  /\ RFC1071(SegmentSum(b, seg)) \in Word16
    BY <1>2, TransportHeader, CheckedFacts
<1>5. seg \in Seq(Octet)
    BY HeaderFacts
<1>6. Checked(h, seg, s, d) =
        IF Whole(h) THEN SetWord(seg, 9, RFC1071(SegmentSum(b, seg))) ELSE seg
    BY Zenon DEF Checked
<1> HIDE DEF b
<1>7. /\ c \in Seq(Word16) /\ Len(c) = Len(b) /\ c[4] = b[4] /\ c[5] = b[5]
      /\ c[7] = b[7] /\ c[8] = b[8] /\ c[9] = b[9] /\ c[10] = b[10]
    BY <1>1, SeqFacts
<1>8. ip4_checksum(c) = v
    BY <1>1, <1>2, HeaderRecomputed
<1>9. [c EXCEPT ![6] = v] = [b EXCEPT ![6] = v]
    BY Zenon
<1> HIDE DEF c, v
<1>10. has_transport_layer_hdr(c) <=> Whole(h)
    BY <1>2, <1>7, TransportHeader
<1>11. protocol(c) = TCP
    BY <1>2, <1>7 DEF protocol
<1>12. SegmentSum(c, seg) = SegmentSum(b, seg)
    <2>1. protocol(c) = protocol(b)
        BY <1>2, <1>11
    <2> QED
        BY <1>7, <2>1 DEF SegmentSum, PseudoSum
<1>13. ASSUME Whole(h)
       PROVE  /\ tcp_checksum(c, g) = RFC1071(SegmentSum(b, seg))
              /\ SetWord(g, 9, RFC1071(SegmentSum(b, seg)))
                   = SetWord(seg, 9, RFC1071(SegmentSum(b, seg)))
    <2>1. g = SetWord(seg, 9, w)
        BY <1>13
    <2>2. tcp_checksum(c, SetWord(seg, 9, w)) = RFC1071(SegmentSum(c, seg))
        BY <1>1, <1>4, <1>7, <1>11, <1>13, SegmentRecomputed
    <2>3. SetWord(SetWord(seg, 9, w), 9, RFC1071(SegmentSum(b, seg)))
            = SetWord(seg, 9, RFC1071(SegmentSum(b, seg)))
        BY <1>4, <1>5, <1>13, SetWordTwice
    <2> QED
        BY <1>12, <2>1, <2>2, <2>3, Zenon
<1>14. Recomputed(c, g) =
         [ip  |-> [c EXCEPT ![6] = ip4_checksum(c)],
          seg |-> IF has_transport_layer_hdr(c)
                  THEN SetWord(g, 9, tcp_checksum(c, g)) ELSE g]
    BY Zenon DEF Recomputed
<1>15. (IF has_transport_layer_hdr(c)
         THEN SetWord(g, 9, tcp_checksum(c, g)) ELSE g) = Checked(h, seg, s, d)
    <2>1. CASE Whole(h)
        BY <1>6, <1>10, <1>13, <2>1, Zenon
    <2>2. CASE ~ Whole(h)
        BY <1>6, <1>10, <2>2, Zenon
    <2> QED
        BY <2>1, <2>2
<1>16. Recomputed(c, g) = [ip |-> [b EXCEPT ![6] = v], seg |-> Checked(h, seg, s, d)]
    BY <1>8, <1>9, <1>14, <1>15, Zenon
<1> QED
    BY <1>3, <1>16, Zenon DEF b, c

\* A header with a length, a checksum and two addresses.
Filled(h, t, r, p, q, u, v) ==
    [[h EXCEPT ![2] = t, ![7] = p, ![8] = q, ![9] = u, ![10] = v] EXCEPT ![6] = r]

LEMMA RefilledDest ==
    ASSUME NEW h, {2, 6, 7, 8, 9, 10} \subseteq DOMAIN h, NEW t, NEW r,
           NEW p, NEW q, NEW u, NEW v, NEW x, NEW y
    PROVE  [Filled(h, t, r, p, q, u, v) EXCEPT ![9] = x, ![10] = y]
             = Filled(h, t, r, p, q, x, y)
<1> DEFINE D == DOMAIN h
           a == [Filled(h, t, r, p, q, u, v) EXCEPT ![9] = x, ![10] = y]
           b == Filled(h, t, r, p, q, x, y)
<1>1. /\ 2 \in DOMAIN h /\ 6 \in DOMAIN h /\ 7 \in DOMAIN h
      /\ 8 \in DOMAIN h /\ 9 \in DOMAIN h /\ 10 \in DOMAIN h
    OBVIOUS
<1>2. DOMAIN a = D /\ a = [i \in DOMAIN a |-> a[i]]
    BY DEF Filled
<1>3. DOMAIN b = D /\ b = [i \in DOMAIN b |-> b[i]]
    BY DEF Filled
<1>4. ASSUME NEW i \in D
      PROVE  a[i] = b[i]
    BY <1>1 DEF Filled
<1> HIDE DEF a, b, D
<1>5. a = [i \in D |-> a[i]] /\ b = [i \in D |-> b[i]]
    BY <1>2, <1>3, Zenon
<1>6. a = b
    BY <1>4, <1>5, SameFunction
<1> QED
    BY <1>6 DEF a, b

LEMMA RefilledSource ==
    ASSUME NEW h, {2, 6, 7, 8, 9, 10} \subseteq DOMAIN h, NEW t, NEW r,
           NEW p, NEW q, NEW u, NEW v, NEW x, NEW y
    PROVE  [Filled(h, t, r, p, q, u, v) EXCEPT ![7] = x, ![8] = y]
             = Filled(h, t, r, x, y, u, v)
<1> DEFINE D == DOMAIN h
           a == [Filled(h, t, r, p, q, u, v) EXCEPT ![7] = x, ![8] = y]
           b == Filled(h, t, r, x, y, u, v)
<1>1. /\ 2 \in DOMAIN h /\ 6 \in DOMAIN h /\ 7 \in DOMAIN h
      /\ 8 \in DOMAIN h /\ 9 \in DOMAIN h /\ 10 \in DOMAIN h
    OBVIOUS
<1>2. DOMAIN a = D /\ a = [i \in DOMAIN a |-> a[i]]
    BY DEF Filled
<1>3. DOMAIN b = D /\ b = [i \in DOMAIN b |-> b[i]]
    BY DEF Filled
<1>4. ASSUME NEW i \in D
      PROVE  a[i] = b[i]
    BY <1>1 DEF Filled
<1> HIDE DEF a, b, D
<1>5. a = [i \in D |-> a[i]] /\ b = [i \in D |-> b[i]]
    BY <1>2, <1>3, Zenon
<1>6. a = b
    BY <1>4, <1>5, SameFunction
<1> QED
    BY <1>6 DEF a, b

\* set_dest_addr_tcp and set_source_addr_tcp leave a frame as the kernel of the
\* sender would have composed it with the new address (packet.hpp).
THEOREM SettersRecompose ==
    ASSUME NEW h, NEW seg, TextFrame(h, seg), NEW s \in Addresses,
           NEW d \in Addresses, NEW a \in Addresses
    PROVE  /\ set_dest_addr_tcp(Composed(h, seg, s, d), a) = Composed(h, seg, s, a)
           /\ set_source_addr_tcp(Composed(h, seg, s, d), a) = Composed(h, seg, a, d)
<1> DEFINE b == Addressed(h, seg, s, d)
           r == RFC1071(SumOf(b))
           w == RFC1071(SegmentSum(b, seg))
           g == Checked(h, seg, s, d)
           f == Composed(h, seg, s, d)
           c == [b EXCEPT ![6] = r]
           t == (2 * Len(h)) + Len(seg)
<1>1. f = [ip |-> c, seg |-> g]
    BY ComposedIs
<1>2. r \in Word16
    BY AddressedSum
<1>3. g = IF Whole(h) THEN SetWord(seg, 9, w) ELSE seg
    BY Zenon DEF Checked
<1>4. PICK z \in Word16 : g = IF Whole(h) THEN SetWord(seg, 9, z) ELSE seg
    <2>1. CASE Whole(h)
        <3>1. w \in Word16
            BY <2>1, CheckedFacts
        <3> QED
            BY <1>3, <3>1
    <2>2. CASE ~ Whole(h)
        <3>1. 0 \in Word16
            BY WordBounds, SMT
        <3> QED
            BY <1>3, <2>2, <3>1
    <2> QED
        BY <2>1, <2>2
<1>5. /\ DOMAIN h = 1 .. Len(h)
      /\ 2 \in DOMAIN h /\ 6 \in DOMAIN h /\ 7 \in DOMAIN h
      /\ 8 \in DOMAIN h /\ 9 \in DOMAIN h /\ 10 \in DOMAIN h
    BY HeaderFacts, SeqFacts
<1>6. /\ b = [h EXCEPT ![2] = t, ![7] = s[1], ![8] = s[2], ![9] = d[1], ![10] = d[2]]
      /\ Addressed(h, seg, s, a)
           = [h EXCEPT ![2] = t, ![7] = s[1], ![8] = s[2], ![9] = a[1], ![10] = a[2]]
      /\ Addressed(h, seg, a, d)
           = [h EXCEPT ![2] = t, ![7] = a[1], ![8] = a[2], ![9] = d[1], ![10] = d[2]]
    BY Zenon DEF Addressed
<1> HIDE DEF b, r, w, g, f, t
<1>7. /\ [c EXCEPT ![9] = a[1], ![10] = a[2]]
           = [Addressed(h, seg, s, a) EXCEPT ![6] = r]
      /\ [c EXCEPT ![7] = a[1], ![8] = a[2]]
           = [Addressed(h, seg, a, d) EXCEPT ![6] = r]
    <2>1. {2, 6, 7, 8, 9, 10} \subseteq DOMAIN h
        BY <1>5
    <2>2. /\ c = Filled(h, t, r, s[1], s[2], d[1], d[2])
          /\ [Addressed(h, seg, s, a) EXCEPT ![6] = r]
               = Filled(h, t, r, s[1], s[2], a[1], a[2])
          /\ [Addressed(h, seg, a, d) EXCEPT ![6] = r]
               = Filled(h, t, r, a[1], a[2], d[1], d[2])
        BY <1>6, Zenon DEF Filled
    <2> HIDE DEF c
    <2>3. [Filled(h, t, r, s[1], s[2], d[1], d[2]) EXCEPT ![9] = a[1], ![10] = a[2]]
            = Filled(h, t, r, s[1], s[2], a[1], a[2])
        BY <2>1, RefilledDest, SMT
    <2>4. [Filled(h, t, r, s[1], s[2], d[1], d[2]) EXCEPT ![7] = a[1], ![8] = a[2]]
            = Filled(h, t, r, a[1], a[2], d[1], d[2])
        BY <2>1, RefilledSource, SMT
    <2> QED
        BY <2>2, <2>3, <2>4, Zenon
<1> HIDE DEF c
<1>8. f.ip = c /\ f.seg = g
    BY <1>1
<1>9. /\ set_dest_addr_tcp(f, a)
           = Recomputed([Addressed(h, seg, s, a) EXCEPT ![6] = r], g)
      /\ set_source_addr_tcp(f, a)
           = Recomputed([Addressed(h, seg, a, d) EXCEPT ![6] = r], g)
    BY <1>7, <1>8, Zenon DEF set_dest_addr_tcp, set_source_addr_tcp
<1>10. /\ Recomputed([Addressed(h, seg, s, a) EXCEPT ![6] = r], g)
            = Composed(h, seg, s, a)
       /\ Recomputed([Addressed(h, seg, a, d) EXCEPT ![6] = r], g)
            = Composed(h, seg, a, d)
    BY <1>2, <1>4, RecomputedIsComposed
<1> QED
    BY <1>9, <1>10, Zenon DEF f

\* schedule_sent_packets and awake turn a frame around.
LEMMA RewrittenIsComposed ==
    ASSUME NEW h, NEW seg, TextFrame(h, seg), NEW s \in Addresses,
           NEW d \in Addresses, NEW p \in EmIds, TextTraffic
    PROVE  Rewritten(Composed(h, seg, s, d), p) = Composed(h, seg, Addrs[p], Inter)
<1>1. Inter \in Addresses /\ Addrs[p] \in Addresses
    BY DEF TextTraffic
<1>2. set_dest_addr_tcp(Composed(h, seg, s, d), Inter) = Composed(h, seg, s, Inter)
    BY <1>1, SettersRecompose
<1>3. set_source_addr_tcp(Composed(h, seg, s, Inter), Addrs[p])
        = Composed(h, seg, Addrs[p], Inter)
    BY <1>1, SettersRecompose
<1> QED
    BY <1>2, <1>3, Zenon DEF Rewritten

\* Every frame a kernel composes verifies at its receiver.
LEMMA ComposedVerifies ==
    ASSUME NEW h, NEW seg, TextFrame(h, seg),
           NEW s \in Addresses, NEW d \in Addresses
    PROVE  LET f == Composed(h, seg, s, d)
           IN  /\ f.ip \in Seq(Word16) /\ f.seg \in Seq(Octet)
               /\ HeaderVerifies(f) /\ SegmentVerifies(f)
<1> DEFINE b == Addressed(h, seg, s, d)
           r == RFC1071(SumOf(b))
           c == [b EXCEPT ![6] = r]
           g == Checked(h, seg, s, d)
           f == Composed(h, seg, s, d)
           w == RFC1071(SegmentSum(b, seg))
<1>1. f = [ip |-> c, seg |-> g]
    BY ComposedIs
<1>2. /\ b \in Seq(Word16) /\ Len(b) >= 10 /\ 6 \in 1 .. Len(b)
    BY AddressedFacts, HeaderFacts
<1>3. /\ b[4] = h[4] /\ b[6] = 0 /\ protocol(b) = TCP
      /\ SumOf(b) \in Nat /\ SumOf(b) > 0 /\ SumOf(b) < 65536 * 65536
      /\ r \in Word16
    BY AddressedSum
<1>4. (SumOf(b) + r) % 65535 = 0
    BY <1>3, StoredChecksumVerifies
<1>5. seg \in Seq(Octet) /\ Len(seg) =< 65535
    BY HeaderFacts
<1>6. g = IF Whole(h) THEN SetWord(seg, 9, w) ELSE seg
    BY Zenon DEF Checked
<1>7. Whole(h) => w \in Word16 /\ 9 \in 1 .. Len(seg) \div 2 /\ TextSegment(seg)
    BY <1>3, CheckedFacts, TransportHeader
<1> HIDE DEF b, r, f
<1>8. /\ c \in Seq(Word16) /\ c[4] = b[4] /\ c[5] = b[5] /\ c[7] = b[7]
      /\ c[8] = b[8] /\ c[9] = b[9] /\ c[10] = b[10]
    BY <1>2, <1>3, SeqFacts
<1>9. SumOf(c) = SumOf(b) + r
    <2>1. b \in Seq(Nat) /\ r \in Nat
        BY <1>2, <1>3, WordsAreNumbers, WordBounds
    <2>2. SumOf(c) = (SumOf(b) - b[6]) + r
        BY <1>2, <2>1, SumOfExcept
    <2> QED
        BY <1>3, <2>1, <2>2
<1> HIDE DEF c, g, w
<1>10. HeaderVerifies(f)
    BY <1>1, <1>4, <1>9 DEF HeaderVerifies
<1>11. Whole(c) = Whole(h)
    BY <1>3, <1>8, TransportHeader
<1>12. g \in Seq(Octet)
    BY <1>5, <1>6, <1>7, SetWordWords
<1>13. SegmentVerifies(f)
    <2> SUFFICES ASSUME Whole(h)
                 PROVE  (PseudoSum(c, g) + SumOf(Words(Even(g)))) % 65535 = 0
        BY <1>1, <1>11 DEF SegmentVerifies
    <2>1. g = SetWord(seg, 9, w) /\ w \in Word16 /\ 9 \in 1 .. Len(seg) \div 2
          /\ TextSegment(seg)
        BY <1>6, <1>7
    <2>2. SumOf(Words(Even(g))) = SumOf(Words(Even(seg))) + w
        BY <2>1, CheckedSum DEF TextSegment
    <2>3. Len(g) = Len(seg)
        BY <1>5, <2>1, SetWordWords
    <2>4. PseudoSum(c, g) = PseudoSum(b, seg)
        BY <1>8, <2>3 DEF PseudoSum, protocol
    <2> DEFINE t == SegmentSum(b, seg)
    <2>5. t \in Nat /\ t > 0 /\ t < 65536 * 65536
        BY <1>2, <1>3, <1>5, SegmentSumBound
    <2>6. t = PseudoSum(b, seg) + SumOf(Words(Even(seg)))
        BY DEF SegmentSum
    <2>7. PseudoSum(b, seg) \in Nat
        <3>1. Len(seg) \in Nat
            BY <1>5, SeqFacts
        <3> QED
            BY <1>2, <1>3, <3>1, PseudoNat
    <2>8. SumOf(Words(Even(seg))) \in Nat
        BY <1>5, EvenWords
    <2>9. w = RFC1071(t)
        BY DEF w
    <2> HIDE DEF t
    <2>10. (t + w) % 65535 = 0 /\ w \in Nat
        BY <2>5, <2>9, StoredChecksumVerifies
    <2>11. PseudoSum(c, g) + SumOf(Words(Even(g))) = t + w
        BY <2>2, <2>4, <2>6, <2>7, <2>8, <2>10
    <2> QED
        BY <2>10, <2>11
<1> QED
    BY <1>1, <1>8, <1>10, <1>12, <1>13 DEF f
-----------------------------------------------------------------------------
(* The frame on its way.                                                   *)

LEMMA PlusIsTime ==
    ASSUME NEW t1 \in Times, NEW t2 \in Times
    PROVE  Plus(t1, t2) \in Times
<1>1. t1 \in Spans /\ t2 \in Spans
    BY SecondAssumption DEF Times, Spans
<1>2. /\ Plus(t1, t2) \in Spans
      /\ nano_from_ts(Plus(t1, t2)) = nano_from_ts(t1) + nano_from_ts(t2)
    BY <1>1, TimesAreNumbers
<1>3. /\ nano_from_ts(t1) \in Int /\ nano_from_ts(t1) >= 0
      /\ nano_from_ts(t2) \in Int /\ nano_from_ts(t2) >= 0
    <2>1. ASSUME NEW t \in Times
          PROVE  nano_from_ts(t) \in Int /\ nano_from_ts(t) >= 0
        <3>1. t.tv_sec \in Nat /\ t.tv_nsec \in Nat
            BY SecondAssumption DEF Times
        <3>2. SECOND * t.tv_sec \in Nat
            BY <3>1, SecondAssumption
        <3> QED
            BY <3>1, <3>2 DEF nano_from_ts
    <2> QED
        BY <2>1
<1>4. nano_from_ts(Plus(t1, t2)) >= 0
    BY <1>2, <1>3
<1> QED
    BY <1>2, <1>4, SpanIsTime

LEMMA ZeroIsTime == ts_from_nano(0) \in Times
<1>1. ts_from_nano(0) \in Spans /\ nano_from_ts(ts_from_nano(0)) = 0
    BY RoundTrip
<1> QED
    BY <1>1, SpanIsTime

\* Wherever it is, the frame is one that some kernel would have composed of what
\* its process wrote: the addresses tell how far it has come.
InFlight ==
    place # "none" =>
        \E h \in Heads, seg \in Segments :
            /\ written = [ip |-> h, seg |-> seg]
            /\ packet = IF place = "in_packets"
                        THEN Composed(h, seg, Addrs[from], Inter)
                        ELSE Composed(h, seg, Inter, Addrs[to])

FrameInvariant ==
    /\ place \in {"none", "tun", "out_packets", "in_packets"}
    /\ from \in EmIds /\ to \in EmIds /\ ts \in Times
    /\ place = "none" => packet = NoFrame
    /\ InFlight

LEMMA FrameInvariantInit ==
    ASSUME TextTraffic, Init
    PROVE  FrameInvariant
BY ZeroIsTime DEF Init, FrameInvariant, InFlight, TextTraffic

LEMMA FrameInvariantStep ==
    ASSUME TextTraffic, FrameInvariant, [Next]_vars
    PROVE  FrameInvariant'
<1>1. ASSUME NEW p \in EmIds, NEW q \in EmIds, NEW h \in Heads,
             NEW seg \in Segments, Write(p, q, h, seg)
      PROVE  FrameInvariant'
    <2>1. /\ place' = "tun" /\ from' = p /\ to' = q /\ ts' = ts
          /\ packet' = Composed(h, seg, Inter, Addrs[q])
          /\ written' = [ip |-> h, seg |-> seg]
        BY <1>1 DEF Write
    <2>2. InFlight'
        BY <2>1 DEF InFlight
    <2> QED
        BY <2>1, <2>2 DEF FrameInvariant
<1>2. ASSUME NEW c \in Clocks, NEW e \in Clocks, Receive(c, e)
      PROVE  FrameInvariant'
    <2>1. /\ place = "tun" /\ from' = from /\ to' = to /\ written' = written
          /\ ts' = Plus(c, e)
          /\ \/ packet' = Rewritten(packet, from) /\ place' = "in_packets"
             \/ packet' = packet /\ place' = "out_packets"
        BY <1>2 DEF Receive
    <2>2. ts' \in Times
        BY <2>1, PlusIsTime DEF TextTraffic
    <2>3. PICK h \in Heads, seg \in Segments :
            /\ written = [ip |-> h, seg |-> seg]
            /\ packet = Composed(h, seg, Inter, Addrs[to])
        BY <2>1 DEF FrameInvariant, InFlight
    <2>4. Rewritten(packet, from) = Composed(h, seg, Addrs[from], Inter)
        BY <2>3, RewrittenIsComposed DEF FrameInvariant, TextTraffic
    <2>5. InFlight'
        BY <2>1, <2>3, <2>4 DEF InFlight
    <2> QED
        BY <2>1, <2>2, <2>5 DEF FrameInvariant
<1>3. ASSUME schedule_sent_packets
      PROVE  FrameInvariant'
    <2>1. /\ place = "out_packets" /\ from' = from /\ to' = to /\ written' = written
          /\ ts' = Plus(ts, latency[from][to])
          /\ packet' = Rewritten(Rewritten(packet, from), from)
          /\ place' = "in_packets"
        BY <1>3 DEF schedule_sent_packets
    <2>2. ts' \in Times
        BY <2>1, PlusIsTime DEF TextTraffic, FrameInvariant
    <2>3. PICK h \in Heads, seg \in Segments :
            /\ written = [ip |-> h, seg |-> seg]
            /\ packet = Composed(h, seg, Inter, Addrs[to])
        BY <2>1 DEF FrameInvariant, InFlight
    <2>4. /\ Inter \in Addresses /\ Addrs[from] \in Addresses /\ Addrs[to] \in Addresses
          /\ TextFrame(h, seg) /\ from \in EmIds
        BY DEF FrameInvariant, TextTraffic
    <2>5. Rewritten(packet, from) = Composed(h, seg, Addrs[from], Inter)
        BY <2>3, <2>4, RewrittenIsComposed
    <2>6. Rewritten(Rewritten(packet, from), from)
            = Composed(h, seg, Addrs[from], Inter)
        BY <2>4, <2>5, RewrittenIsComposed
    <2>7. InFlight'
        BY <2>1, <2>3, <2>6 DEF InFlight
    <2> QED
        BY <2>1, <2>2, <2>7 DEF FrameInvariant
<1>4. ASSUME Send
      PROVE  FrameInvariant'
    BY <1>4, ZeroIsTime DEF Send, FrameInvariant, InFlight, TextTraffic
<1>5. CASE UNCHANGED vars
    BY <1>5 DEF vars, FrameInvariant, InFlight
<1> QED
    BY <1>1, <1>2, <1>3, <1>4, <1>5 DEF Next

LEMMA FrameInvariantCorrect ==
    ASSUME TextTraffic
    PROVE  Spec => []FrameInvariant
<1>1. Init => FrameInvariant
    BY FrameInvariantInit
<1>2. FrameInvariant /\ [Next]_vars => FrameInvariant'
    BY FrameInvariantStep
<1> QED
    BY <1>1, <1>2, PTL DEF Spec

\* What the frame holds, from what it was composed of.
LEMMA FrameIsText ==
    ASSUME TextTraffic, FrameInvariant
    PROVE  TypeOK /\ ChecksumsVerify /\ DeliveredAsSent
<1>1. CASE place = "none"
    <2>1. packet.ip = <<>> /\ packet.seg = <<>> /\ packet = NoFrame
        BY <1>1 DEF FrameInvariant, NoFrame
    <2>2. \A S : <<>> \in Seq(S)
        OBVIOUS
    <2> QED
        BY <1>1, <2>1, <2>2 DEF FrameInvariant, TypeOK, ChecksumsVerify, DeliveredAsSent
<1>2. CASE place # "none"
    <2>1. PICK h \in Heads, seg \in Segments :
            /\ written = [ip |-> h, seg |-> seg]
            /\ packet = IF place = "in_packets"
                        THEN Composed(h, seg, Addrs[from], Inter)
                        ELSE Composed(h, seg, Inter, Addrs[to])
        BY <1>2 DEF FrameInvariant, InFlight
    <2>2. /\ Inter \in Addresses /\ Addrs[from] \in Addresses /\ Addrs[to] \in Addresses
          /\ TextFrame(h, seg)
        BY DEF FrameInvariant, TextTraffic
    <2>3. PICK s \in Addresses, d \in Addresses : packet = Composed(h, seg, s, d)
        BY <2>1, <2>2
    <2>4. /\ packet.ip \in Seq(Word16) /\ packet.seg \in Seq(Octet)
          /\ HeaderVerifies(packet) /\ SegmentVerifies(packet)
        BY <2>2, <2>3, ComposedVerifies
    <2>5. DeliveredAsSent
        BY <2>1 DEF DeliveredAsSent
    <2> QED
        BY <2>4, <2>5 DEF FrameInvariant, TypeOK, ChecksumsVerify
<1> QED
    BY <1>1, <1>2

\* Every word has 16 bits, every byte eight, and every time less than a second
\* in tv_nsec, for all frames of text (time.cpp, packet.hpp).
THEOREM PacketTypeCorrect ==
    ASSUME TextTraffic
    PROVE  Spec => []TypeOK
<1>1. FrameInvariant => TypeOK
    BY FrameIsText
<1> QED
    BY <1>1, FrameInvariantCorrect, PTL

\* No kernel drops a frame for its checksums: they verify at every step of the
\* way (ip4_checksum and tcp_checksum of packet.hpp).
THEOREM ChecksumsVerifyHolds ==
    ASSUME TextTraffic
    PROVE  Spec => []ChecksumsVerify
<1>1. FrameInvariant => ChecksumsVerify
    BY FrameIsText
<1> QED
    BY <1>1, FrameInvariantCorrect, PTL

\* The receiver gets what the sender would have sent it directly, byte for byte
\* (class Packet, emulator.hpp:322-361).
THEOREM DeliveredAsSentHolds ==
    ASSUME TextTraffic
    PROVE  Spec => []DeliveredAsSent
<1>1. FrameInvariant => DeliveredAsSent
    BY FrameIsText
<1> QED
    BY <1>1, FrameInvariantCorrect, PTL
=============================================================================
