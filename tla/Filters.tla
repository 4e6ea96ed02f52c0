-------------------------------- MODULE Filters --------------------------------
(***************************************************************************)
(* What a filter leaves of a list, said by the places of the elements that *)
(* stay, so that it can be reasoned about without recursion.               *)
(***************************************************************************)
EXTENDS Naturals, FiniteSets

\* How many numbers of S are at most i: the place of i in S.
Rank(S, i) == Cardinality({j \in S : j <= i})

\* The k-th smallest number of S.
Nth(S, k) == CHOOSE i \in S : Rank(S, i) = k

\* The elements of a list at the places in S, in their order.
Select(list, S) == [k \in 1 .. Cardinality(S) |-> list[Nth(S, k)]]

\* The elements that stay, in their order.
Filtered(list, Stays(_)) == Select(list, {i \in DOMAIN list : Stays(list[i])})
================================================================================
