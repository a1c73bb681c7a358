------------------------------ MODULE TimeSpec ------------------------------
(***************************************************************************)
(* The arithmetic on struct timespec of time.cpp, which every time of the  *)
(* emulator goes through.  A time is a number of nanoseconds in 64 bits    *)
(* (292 years: no overflow), split into seconds and the rest.              *)
(***************************************************************************)
EXTENDS Integers

CONSTANT SECOND   \* nanoseconds of a second (10^9 in utils.hpp)

ASSUME SecondAssumption == SECOND \in Nat \ {0}

\* n / SECOND and n % SECOND of C++: the quotient is rounded towards zero.
Quotient(n) == IF n >= 0 THEN n \div SECOND ELSE -((-n) \div SECOND)
Remainder(n) == n - (SECOND * Quotient(n))

nano_from_ts(t) == (SECOND * t.tv_sec) + t.tv_nsec
ts_from_nano(n) == [tv_sec |-> Quotient(n), tv_nsec |-> Remainder(n)]

\* A defect used as a mutant: the fields added one by one.
PlusByField(t1, t2) == [tv_sec |-> t1.tv_sec + t2.tv_sec,
                        tv_nsec |-> t1.tv_nsec + t2.tv_nsec]

\* operator+, operator-, operator> and operator<.
Plus(t1, t2) == ts_from_nano(nano_from_ts(t1) + nano_from_ts(t2))
Minus(t1, t2) == ts_from_nano(nano_from_ts(t1) - nano_from_ts(t2))
Later(t1, t2) == nano_from_ts(t1) > nano_from_ts(t2)
Earlier(t1, t2) == nano_from_ts(t1) < nano_from_ts(t2)

\* The time since ts1, from a reading of CLOCK_MONOTONIC.
get_time_since(curr_time, ts1) == Minus(curr_time, ts1)

\* A reading of the clock: never negative, less than a second in tv_nsec.
Times == [tv_sec : Nat, tv_nsec : 0 .. SECOND - 1]

\* What the differences of such times can be.
Spans == {t \in [tv_sec : Int, tv_nsec : Int] :
             /\ t.tv_nsec < SECOND /\ -t.tv_nsec < SECOND
             /\ t.tv_sec > 0 => t.tv_nsec >= 0
             /\ t.tv_sec < 0 => t.tv_nsec =< 0}
=============================================================================
