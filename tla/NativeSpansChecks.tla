------------------------- MODULE NativeSpansChecks -------------------------
(* What the spans of the observer and the promises made about them must be. *)
EXTENDS NativeSpans

\* What the stacks of the observer hold.
TypeOK ==
    /\ minted \in Nat /\ depth \in Nat
    /\ armedUnder \in 0..Len(frames)
    /\ context \in {None} \cup [sampled : BOOLEAN, recorded : BOOLEAN]
    /\ frames \in Seq(Frame) /\ parents \in Seq(Nat)

Recorded == {s.id : s \in spans \cup shipped.spans}

\* on_begin: "a traceparent on the wire is a promise the named span is recorded".  Of a
\* sampled request, the span named in a message is open or recorded whatever the cap; the
\* one named in an HTTP transfer too, unless the cap refused it.
PromiseIsKept ==
    \A w \in wire : w.sampled =>
        \/ w.id \in OpenIds \cup Recorded
        \/ ~w.publish /\ w.id \in lost

\* MAX_SPANS_PER_REQUEST holds for every span but the publishes whose message has headers:
\* a method without headers makes no promise and is not exempt.
Promising(f) == f # None /\ f \in DOMAIN Headers /\ Headers[f] # "none"
BatchIsBounded == Cardinality({s \in spans : ~Promising(s.f)}) <= MaxSpans

\* "A kept child pins its ancestor so the waterfall stays connected": every span the observer
\* recorded hangs below the root by recorded or open spans of its own request, except where
\* the cap refused an ancestor or the request was closed before the ancestor ended.
Hangs(s, among) ==
    \/ s.f = None
    \/ s.parent \in {Root} \cup lost
    \/ \E p \in among : p.id = s.parent /\ p.of = s.of
TreeIsConnected ==
    /\ \A s \in shipped.spans : Hangs(s, shipped.spans)
    /\ context # None => \A s \in spans : Hangs(s, spans) \/ s.parent \in OpenIds

\* "the marker never out-promises the store": a span that says its payload is stored leaves
\* with the payload, and no payload leaves without its span unless the cap refused the span.
BodiesHaveTheirSpans ==
    /\ \A s \in shipped.spans : s.stored => s.id \in shipped.bodies
    /\ shipped.bodies \subseteq {s.id : s \in shipped.spans} \cup lost

\* cached_policy: "a generation-matched hit is byte-identical to a recomputation", and a
\* function the manifest names after its first call is still instrumented: the factory
\* ignored it only if it can never be (SPAN_ALL_USERLAND gives infrastructure up for good).
Instrumentable(f) ==
    ~InTable(f) /\ ~Unobservable(f) /\ ~(settings.all /\ Table[f] = "infrastructure")
VerdictIsCurrent ==
    /\ \A f \in Manifest : CachedPolicy(f) = ObservePolicy(f)
    /\ \A f \in traced : Instrumentable(f) => /\ Factory(f) = "observed"
                                              /\ CachedPolicy(f) = "ManifestSpan"

\* The depth of the next call event of a recording is the number of calls of userland begun
\* since the recording was armed that are still open: every handler that pushes a frame enters
\* and every pop leaves, and the pops of the calls that were open before leave nothing behind
\* (call_path::on_leave saturates), whenever and however often it is armed.
CallDepthIsTrue ==
    context # None /\ context.recorded =>
        depth = Cardinality({i \in armedUnder + 1 .. Len(frames) : frames[i].f \notin Internal})
============================================================================
