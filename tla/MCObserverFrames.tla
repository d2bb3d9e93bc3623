-------------------------- MODULE MCObserverFrames --------------------------
(* ObserverFrames on small instances. *)
EXTENDS ObserverFramesChecks
=============================================================================
