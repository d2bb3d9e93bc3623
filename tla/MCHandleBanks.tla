---------------------------- MODULE MCHandleBanks ----------------------------
(* The observer's banks on small instances. *)
EXTENDS HandleBanksChecks, TLC

CONSTANTS h1, h2, q1, q2, s1, s2, c1, c2, i1, i2, i3, n1, n2, line

Interchangeable ==
  Permutations(Handle) \cup Permutations(Queue) \cup Permutations(Sql)
    \cup Permutations(Class) \cup Permutations(Identity) \cup Permutations(Sid)
=============================================================================
