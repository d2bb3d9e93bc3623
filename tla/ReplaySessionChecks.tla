------------------------ MODULE ReplaySessionChecks ------------------------
(* What a replay promises: see ReplaySession. *)
EXTENDS ReplaySession

Positions == DOMAIN Recording

\* Recording::bind pairs the way the recorded run asked: an answer is later
\* than its request and answers nothing else, answers come back in the order
\* of their requests, and an answer is left unbound only when every request
\* before it has one.
PairsAsRecorded ==
  /\ \A q \in DOMAIN Bind : Bind[q] > q /\ Recording[q].role = "request"
  /\ \A q, r \in DOMAIN Bind :
       (q < r /\ Recording[q].channel = Recording[r].channel) => Bind[q] < Bind[r]
  /\ \A q, a \in Positions :
       ( /\ q < a
         /\ Recording[q].role = "request" /\ Recording[a].role = "answer"
         /\ Recording[q].channel = Recording[a].channel
         /\ a \notin Range(Bind) )
       => q \in DOMAIN Bind

\* Lookups of one channel and selector are answered in the order in which they were made.
AnsweredInOrder ==
  \A l, m \in lookups :
    ( /\ l.step < m.step /\ l.event # 0 /\ m.event # 0
      /\ Key(l.effect) = Key(m.effect) )
    => l.event < m.event

\* No recorded event answers two lookups, however the performers of
\* passthrough effects nest, and a lookup is in its place although it is
\* recorded only when its performer is back; the answers themselves are paired
\* as PairsAsRecorded says.
EachEventAnswersOnce == PairsAsRecorded /\ AnsweredInOrder

\* When a replay was not cut short, every event that could have answered is
\* accounted for once: a lookup consumed it, or it is reported as never
\* performed; and the report's count is that of the findings.
NothingIsForgotten ==
  (finished /\ ~aborted /\ plan.mount = "good") =>
    LET answered == {l.event : l \in lookups} \ {0}
        reported == {d.event : d \in {f \in divergences : f.type = "unconsumed_event"}}
    IN  /\ answered \cup reported = Selectable
        /\ answered \cap reported = {}
        /\ \A r \in Range(reports) : r.unconsumed = Cardinality(reported)

\* An answer that is not the recording's is announced by a finding of its
\* step, and a clock reading is never invented.
InventionsAnnounced ==
  \A l \in lookups :
    /\ l.outcome = "simulated" =>
         /\ l.effect.channel # "time"
         /\ Raised(l.step, "simulated_substitution", 0) \in divergences
    /\ (l.outcome = "passthrough" /\ l.event = 0) =>
         Raised(l.step, "passthrough_performed", 0) \in divergences

\* A replay that exits as the application did was conformant: under full
\* strictness its lookups took exactly the recorded events, and each was
\* answered by the recording or confirmed by a live answer.
GreenMeansConformant ==
  (phase = "exited" /\ Asked /\ status \in {0, 1}) =>
    /\ plan.mount = "good" /\ outcome = "conformant"
    /\ \A l \in lookups : l.outcome \in {"hit", "passthrough"}
    /\ ~plan.answersOnly => {l.event : l \in lookups} \ {0} = Selectable

\* "the workload is not supposed to have run at all" when discovery fails
\* (ReplayRuntime::boot), and afterwards "there is no live fetch": a process
\* that was asked to replay performs a real effect only under passthrough.
LiveOnlyWhenAsked ==
  Asked => \A r \in Range(performed) : r.mode = "passthrough"
=============================================================================
