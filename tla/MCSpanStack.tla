---------------------------- MODULE MCSpanStack ----------------------------
(* The checks of SpanStack, for TLC. *)
EXTENDS SpanStackChecks
=============================================================================
