--------------------------- MODULE SamplerChecks ---------------------------
(* What a profile may be believed to say of its request. *)
EXTENDS Sampler, Sums

\* Everything sampled, written or still with the open request.
Told == [i \in DOMAIN spooled |-> spooled[i].sample] \o samples

SamplesOf(r) == {i \in DOMAIN Told : Told[i].trace = r}

\* What the samples of one kind and one request add up to.
Total(r, kind) ==
  SumOver({i \in SamplesOf(r) : Told[i].kind = kind}, [i \in DOMAIN Told |-> Told[i].value])

\* Nothing has been dropped for want of room.
Complete(r) == Cardinality(SamplesOf(r)) < MaxSamples

\* Every tick of the timer is charged once, and to the request whose CPU raised it: what is
\* sampled never exceeds what the request ran, and is all of it but the ticks still queued.
\* (consume_pending_ticks swaps the count, on_request_start forgets the tick that came
\* between the zeroing and the disarming of the request before.)
TicksChargedOnce ==
  \A r \in Requests :
    /\ Total(r, "cpu") <= truth[r].ran
    /\ (r = active /\ "cpu" \in Kinds /\ Complete(r)) =>
         Total(r, "cpu") + Period * ticks = Period * (truth[r].ran \div Period)

\* The wall samples of a request tile the time from its first drain to its last, but for the
\* window still open: no stretch is told twice and none is lost at a rate limit, a drain
\* without ticks or a request boundary.
WindowsTile ==
  active # None /\ "wall" \in Kinds /\ Complete(active) /\ clock.last # None =>
    Total(active, "wall") + clock.wall = clock.last - truth[active].baseline

\* Off-CPU time accounts for every wait up to the last window.  What it may fall short by is
\* a quantum of the timer, and the ticks banked before the first drain, which are subtracted
\* from a window they were not part of.
NoWaitIsMissed ==
  \A r \in Requests :
    "off_cpu" \in Kinds /\ Complete(r) /\ truth[r].baseline # None =>
      Total(r, "off_cpu") + Period * truth[r].early + Period - 1 >= truth[r].waited

\* I/O samples are exact: they add up to what the instrumented calls of this request waited,
\* and each names such a call as its leaf, whether or not Zend had unwound its frame.
IoIsExact ==
  \A r \in Requests :
    /\ "io" \in Kinds /\ Complete(r) => Total(r, "io") = truth[r].io
    /\ \A i \in SamplesOf(r) : Told[i].kind = "io" => Last(Told[i].stack) \in Waits
============================================================================
