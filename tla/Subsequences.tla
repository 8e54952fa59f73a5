---------------------------- MODULE Subsequences ----------------------------
(* What filters of a sequence return, in a form that can be reasoned about. *)
EXTENDS Integers, Sequences, FiniteSets

\* The elements of s at the places in K, in their order: Nth(k) is the k-th place.
At(s, K) ==
  LET Nth(k) == CHOOSE i \in K : Cardinality({j \in K : j <= i}) = k
  IN  [k \in 1 .. Cardinality(K) |-> s[Nth(k)]]

\* The elements of s that are in S, in their order.
Only(s, S) == At(s, {i \in DOMAIN s : s[i] \in S})
=============================================================================
