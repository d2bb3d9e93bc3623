----------------------------- MODULE MCRequest -----------------------------
(* Request on small instances: the deployments a process can find itself in. *)
EXTENDS RequestChecks

Everything == {"collector", "apm", "profiler", "stacks", "counted", "logs"}
Shipped == {"collector", "apm", "counted", "logs"}
Recorder == {"collector", "apm", "dst"}
NoTraces == {"collector", "profiler", "stacks", "logs"}
Off == {}

AllKinds == {Everything, Recorder, NoTraces, Off}
DefaultKind == {Shipped}
=============================================================================
