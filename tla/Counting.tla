------------------------------- MODULE Counting -------------------------------
(***************************************************************************)
(* Sums counted as sets: how often a value occurs in the sequences of      *)
(* several owners, and what the numbers of several owners add up to.       *)
(***************************************************************************)
EXTENDS Integers, FiniteSets, Sequences

\* What the owners D have, each its set.
Family(g, D) == UNION {{d} \X g[d] : d \in D}

Indices(s, x) == {i \in 1..Len(s) : s[i] = x}

\* Where x occurs in the sequences of the owners, and how often.
Places(f, D, x) == Family([d \in D |-> Indices(f[d], x)], D)

Occurrences(f, D, x) == Cardinality(Places(f, D, x))

\* The sum of the owners' numbers.
Units(f, D) == Family([d \in D |-> 1..f[d]], D)

Total(f, D) == Cardinality(Units(f, D))
===============================================================================
