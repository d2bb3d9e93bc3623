----------------------------- MODULE MCSampler -----------------------------
(* The profiler on a small instance. *)
EXTENDS SamplerChecks, TLC

CONSTANTS r1, r2, work, query

Interchangeable == Permutations(Requests)
============================================================================
