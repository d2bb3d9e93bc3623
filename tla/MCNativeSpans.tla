--------------------------- MODULE MCNativeSpans ---------------------------
(* The observer's spans on a small instance. *)
EXTENDS NativeSpansChecks, TLC

CONSTANTS act, query, anonymous, send, keep, produce, dispatch, message

MCFunctions == {act, query, anonymous, send, keep, produce, dispatch}
MCTable == (act :> "application") @@ (anonymous :> "closure") @@ (query :> "network")
           @@ (send :> "natssend") @@ (produce :> "publish") @@ (keep :> "publish")
           @@ (dispatch :> "deliver")
MCHeaders == (send :> "nats") @@ (keep :> "amqplib") @@ (produce :> "none")
\* A recording forces its request to be sampled.
MCVerdicts == {[sampled |-> FALSE, recorded |-> FALSE], [sampled |-> TRUE, recorded |-> TRUE]}
MCDeployments == {[auto |-> TRUE, all |-> FALSE]}
============================================================================
