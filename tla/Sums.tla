-------------------------------- MODULE Sums --------------------------------
(***************************************************************************)
(* Sums of natural numbers, counted instead of added: what f holds at the  *)
(* elements of S is laid out in columns, and the sum is the number of      *)
(* squares.  Facts about it follow from those about cardinalities.         *)
(***************************************************************************)
EXTENDS Naturals, FiniteSets

\* The squares: column s has f[s] of them.
Squares(S, f) == UNION {{s} \X (1 .. f[s]) : s \in S}

\* f[s] over all s in S, for a finite S and natural numbers f[s].
SumOver(S, f) == Cardinality(Squares(S, f))

\* The sum of all that f holds.
SumOf(f) == SumOver(DOMAIN f, f)
=============================================================================
