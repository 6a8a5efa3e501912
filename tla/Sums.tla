-------------------------------- MODULE Sums --------------------------------
(***************************************************************************)
(* Sums and powers as loops compute them: one summand, or one factor, more *)
(* at every index.                                                         *)
(***************************************************************************)
EXTENDS Integers

\* f[0] + ... + f[n - 1]
PartialSums(f, n) ==
    LET s[i \in 0 .. n] == IF i = 0 THEN 0 ELSE s[i - 1] + f[i - 1] IN s
SumBelow(f, n) == PartialSums(f, n)[n]

\* b to the n
Powers(b, n) ==
    LET p[i \in 0 .. n] == IF i = 0 THEN 1 ELSE b * p[i - 1] IN p
Power(b, n) == Powers(b, n)[n]

\* Where a loop of n rounds, numbered from 0, ends.
After(n, start, round(_, _)) ==
    LET s[i \in 0 .. n] == IF i = 0 THEN start ELSE round(s[i - 1], i - 1) IN s[n]
=============================================================================
