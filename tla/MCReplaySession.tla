-------------------------- MODULE MCReplaySession --------------------------
(* The checks of ReplaySession, for TLC: the plans and the workload. *)
EXTENDS ReplaySessionChecks

ReadEffect  == [channel |-> "database", selector |-> "select", intent |-> "read",
                performer |-> FALSE, hooked |-> FALSE]
WriteEffect == [channel |-> "database", selector |-> "update", intent |-> "write",
                performer |-> TRUE, hooked |-> FALSE]
FetchEffect == [channel |-> "http", selector |-> "url", intent |-> "read",
                performer |-> TRUE, hooked |-> FALSE]
ClockEffect == [channel |-> "time", selector |-> "time", intent |-> "read",
                performer |-> FALSE, hooked |-> TRUE]
MCEffects   == {ReadEffect, WriteEffect, FetchEffect, ClockEffect}

MCEvent(channel, role, selector) ==
  [channel |-> channel, role |-> role, selector |-> selector]
Ask    == MCEvent("database", "request", "select")
Change == MCEvent("database", "request", "update")
Rows   == MCEvent("database", "answer", "select")
Fetch  == MCEvent("http", "request", "url")
Reply  == MCEvent("http", "answer", "url")
Clock  == MCEvent("time", "self", "time")
Visit  == MCEvent("time", "note", "time")

Unset == [slot \in Slots |-> "unset"]
MCPlan(mount, recording, policy, answersOnly, truncated) ==
  [mount |-> mount, recording |-> recording, policy |-> policy,
   answersOnly |-> answersOnly, truncated |-> truncated]

MCSlots   == {Slot("database", "read"), Slot("database", "write"),
              Slot("http", "read"), Slot("time", "read")}
Policies  == {[Unset EXCEPT ![one] = mode, ![other] = otherMode] :
                one, other \in MCSlots, mode, otherMode \in Modes}

\* Every short database stream, and every policy that sets one or two
\* variables over streams with one event of each kind, a repeated one, and
\* an answer that nothing asked for.
Streams == UNION {[1..n -> {Ask, Change, Rows}] : n \in 0..4}
Scenes  == {<<Ask, Rows, Clock>>, <<Fetch, Visit, Reply, Change>>,
            <<Fetch, Fetch, Reply>>, <<Rows, Ask, Ask>>}

GoodPlans ==
  {MCPlan("good", recording, Unset, answersOnly, FALSE) :
     recording \in Streams, answersOnly \in BOOLEAN}
  \cup {MCPlan("good", recording, policy, FALSE, TRUE) :
     recording \in Scenes, policy \in Policies}

RefusedPlans == {MCPlan(mount, <<>>, Unset, FALSE, FALSE) : mount \in Refusals}
MCPlans      == GoodPlans \cup RefusedPlans
                  \cup {MCPlan("absent", <<>>, Unset, FALSE, FALSE)}
=============================================================================
