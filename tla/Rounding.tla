------------------------------ MODULE Rounding ------------------------------
(* Python's round of a non-negative fraction, as the policies round waits to *)
(* requests and the workload rounds shares of its budget.                    *)
EXTENDS Integers

\* num/den to the nearest integer, halves to the even one.
Rounded(num, den) ==
    LET low == num \div den
        twice == 2 * (num % den)
    IN  IF twice > den \/ (twice = den /\ low % 2 = 1) THEN low + 1 ELSE low
=============================================================================
