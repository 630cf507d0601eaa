------------------------------ MODULE Ordering ------------------------------
(***************************************************************************)
(* Sets put in order, for what the program sorts or reads in order: the    *)
(* rows of a dry run, the jobs of a page, the backups of a resource.  An   *)
(* order is the set of the pairs of which the first element comes before   *)
(* the second.                                                             *)
(***************************************************************************)
EXTENDS Integers, Sequences, FiniteSets

(* The elements of a finite set, in the given order: an element's place is *)
(* by how many come before it.                                             *)
InOrder(S, order) ==
    [n \in 1..Cardinality(S) |->
        CHOOSE x \in S : Cardinality({y \in S : <<y, x>> \in order}) = n - 1]

Ascending(S) == InOrder(S, {p \in S \X S : p[1] < p[2]})

(* What a sequence has at some of its places, in its own order.            *)
At(s, places) == [n \in 1..Cardinality(places) |-> s[Ascending(places)[n]]]
=============================================================================
