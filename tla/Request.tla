------------------------------ MODULE Request ------------------------------
(***************************************************************************)
(* native/src/lib.rs: one PHP process serving request after request.       *)
(*                                                                         *)
(* Everything the extension collects lives in thread-locals, which survive *)
(* the request that filled them; start_request and end_request_full are    *)
(* what keeps the evidence of one request out of the documents of another. *)
(* PHP code, the SDK and the Zend observer call in between, in any order.  *)
(* An Item stands for a piece of evidence: what it is, the request that    *)
(* was open when it was made (0: none) and, for spans and payloads, which. *)
(* A document stands for the chunks one flush writes; that the write can   *)
(* fail, and what becomes of it then, is the subject of SpoolLog.          *)
(***************************************************************************)
EXTENDS Naturals, FiniteSets, Sequences

CONSTANTS
    Deployments,        \* the configurations CollectorConfig::resolve may return
    BridgeDirectives,   \* whether a bridge may pass a DST directive that records
    Tags,               \* the label keys the application uses
    MaxPending,         \* MAX_PENDING_BODIES
    MaxAttributes,      \* MAX_ATTRIBUTES of the request's bag
    MaxLabels,          \* MAX_LABELS of the sampler
    MaxRequests,        \* bound: requests the process starts
    MaxCalls            \* bound: calls that PHP code makes in between

\* What a deployment switches on.  "collector": enabled, with an identity
\* envelope; "stacks": SamplerConfig::resolve returns a configuration.
Signals == {"collector", "apm", "profiler", "stacks", "counted", "logs", "dst"}

\* What evidence can be, the labels aside: a tag is a key of the label map, never a
\* span, a payload or a record.
Evidence ==
    {"none", "root", "span", "stored", "body", "error", "fact", "origin", "consume",
     "log", "heartbeat", "call", "sample", "effect", "exception", "directive"}

ASSUME RequestConstants ==
    /\ Deployments \subseteq SUBSET Signals
    /\ BridgeDirectives \subseteq BOOLEAN
    /\ Tags \subseteq STRING /\ \A tag \in Tags : tag \notin Evidence
    /\ MaxPending \in Nat /\ MaxAttributes \in Nat /\ MaxLabels \in Nat
    /\ MaxRequests \in Nat /\ MaxCalls \in Nat

VARIABLES
    up,             \* PHP is between RINIT and RSHUTDOWN
    announced,      \* HEARTBEAT_SENT
    started,        \* requests started so far: the newest one's identity
    open,           \* REQUEST_CONFIG, REQUEST_ENVELOPE and REQUEST_CONTEXT
    observed,       \* the observer's own clone of the context
    buf,            \* the thread-local buffers
    delivering,     \* a frame that owns DELIVERY_SCOPE is on the stack
    publish,        \* the publish span the SDK is waiting to record
    calls,          \* calls made so far
    spool,          \* the documents written, in order
    made            \* evidence accepted so far, for the properties only

vars == <<up, announced, started, open, observed, buf, delivering, publish,
          calls, spool, made>>

\* What an item can be, what a flush writes, what a request propagates.
What == Tags \cup Evidence \cup {"trigger", "service", "outcome"}
Kinds == {"jobrun", "bodies", "spans", "profile", "counted", "logs", "dst"}
Baggage == {"nothing", "theirs", "bridged"}

Item == [what : What, of : Nat, n : Nat]
It(w, r, k) == [what |-> w, of |-> r, n |-> k]

\* Payload numbers: the message a delivery consumes and the HTTP response belong
\* to the root span, those from FirstPublish on to the publish spans.
Message == 0
Response == 1
FirstPublish == 2

Nothing == "nothing"
Closed == [id |-> 0, cfg |-> {}, sampled |-> FALSE, carried |-> Nothing]
Unobserved == [id |-> 0, carried |-> Nothing]
NoPublish == It("none", 0, 0)

Buffers == [spans : SUBSET Item, bodies : SUBSET Item, logs : SUBSET Item,
            bag : SUBSET Item, labels : SUBSET Item, sampling : BOOLEAN,
            samples : SUBSET Item, counting : BOOLEAN, window : SUBSET Item,
            recording : BOOLEAN, effects : SUBSET Item, capturing : BOOLEAN,
            held : BOOLEAN, thrown : Nat]

Doc == [kind : Kinds, of : Nat, has : SUBSET Item]

TypeOK ==
    /\ up \in BOOLEAN /\ announced \in BOOLEAN /\ delivering \in BOOLEAN
    /\ started \in Nat /\ calls \in Nat
    /\ open \in [id : Nat, cfg : SUBSET Signals, sampled : BOOLEAN, carried : Baggage]
    /\ observed \in [id : Nat, carried : Baggage]
    /\ buf \in Buffers
    /\ publish \in Item
    /\ spool \in Seq(Doc)
    /\ made \in SUBSET [item : Item, during : Nat]

Init ==
    /\ up = FALSE /\ announced = FALSE /\ delivering = FALSE
    /\ started = 0 /\ calls = 0
    /\ open = Closed /\ observed = Unobserved /\ publish = NoPublish
    /\ buf = [spans |-> {}, bodies |-> {}, logs |-> {}, bag |-> {}, labels |-> {},
              sampling |-> FALSE, samples |-> {}, counting |-> FALSE, window |-> {},
              recording |-> FALSE, effects |-> {}, capturing |-> FALSE,
              held |-> FALSE, thrown |-> 0]
    /\ spool = <<>> /\ made = {}

Active == open.id # 0
On(signal) == Active /\ signal \in open.cfg
-----------------------------------------------------------------------------
(* Bounded maps: last write wins, a new key is refused once the map is full. *)

Put(map, limit, item) ==
    LET others == {i \in map : i.what # item.what}
    IN  IF others = map /\ Cardinality(map) >= limit THEN map
        ELSE others \cup {item}

Merge(bag, item) == Put(bag, MaxAttributes, item)
Label(labels, item) == Put(labels, MaxLabels, item)

\* The record heartbeat captures the first time a process starts a request.
Heartbeat(cfg) == IF "logs" \in cfg /\ ~announced THEN {It("heartbeat", 0, 0)} ELSE {}

\* log_spool::reset comes after the heartbeat, and clears its record too.
LogsAtStart(old, cfg) ==
    LET reset(records) == {} IN reset(old \cup Heartbeat(cfg))

\* Mutant: LAST_THROW outlives the request.
ThrownKept(old) == old

ThrownAtStart(old) == 0

\* What start_request leaves in the thread-locals.  armed: a DST recording;
\* profiled: the profile verdict.  The sampler is only touched when it is armed.
Cleared(old, r, cfg, sampled, armed, profiled) ==
    LET arms == profiled /\ "stacks" \in cfg
        trigger == {It("trigger", r, 0)}
    IN  [spans |-> {}, bodies |-> {},
         logs |-> LogsAtStart(old.logs, cfg),
         bag |-> {},
         labels |-> IF arms THEN Label(trigger, It("service", r, 0)) ELSE old.labels,
         sampling |-> arms \/ old.sampling,
         samples |-> IF arms THEN {} ELSE old.samples,
         counting |-> "counted" \in cfg, window |-> {},
         recording |-> armed, effects |-> {},
         capturing |-> "apm" \in cfg /\ sampled, held |-> FALSE,
         thrown |-> ThrownAtStart(old.thrown)]
-----------------------------------------------------------------------------
(* The verdicts.  wire: the parent's decision, or "root" without a parent.   *)

Armed(cfg, directive) == "dst" \in cfg \/ directive

Profiled(cfg, armed, token, wire, roll) ==
    /\ "profiler" \in cfg
    /\ token \/ armed \/ (roll /\ wire # "unsampled")

\* Mutant: the recording is armed without forcing the trace.
SampledByRate(armed, profiled, wire, roll) ==
    profiled \/ (IF wire = "root" THEN roll ELSE wire = "sampled")

Sampled(armed, profiled, wire, roll) ==
    armed \/ profiled \/ (IF wire = "root" THEN roll ELSE wire = "sampled")

\* A request that sends spans.
Traced(now) == "apm" \in now.cfg /\ now.sampled

\* store_message_body: a payload is only taken for a request that sends spans.
Storable(now, b) == Traced(now) /\ Cardinality(b.bodies) < MaxPending

\* The facts of a delivery, the marker last and only for a payload that was taken.
Promised(bag, r, taken) ==
    LET facts == Merge(bag, It("consume", r, 0))
    IN  IF taken THEN Merge(facts, It("stored", r, Message)) ELSE facts

\* What the caller of start_request adds at once: RINIT the originating trace,
\* a delivery its facts and, if it is captured, its whole message.
Brought(now, b, with) ==
    CASE with = "nothing" -> b
      [] with = "origin" -> [b EXCEPT !.bag = Merge(@, It("origin", now.id, 0))]
      [] with \in {"facts", "message"} ->
            LET taken == with = "message" /\ Storable(now, b)
            IN  [b EXCEPT !.bodies = IF taken THEN @ \cup {It("body", now.id, Message)} ELSE @,
                          !.bag = Promised(@, now.id, taken)]

\* For the properties: what was accepted, the traced part only if it will be sent.
Noted(now, traced, others) ==
    {[item |-> i, during |-> now.id] :
        i \in others \cup (IF Traced(now) THEN traced ELSE {})}

\* start_request, and what its caller does next in the same call.
Start(wire, carried, directive, token, with) ==
    \E cfg \in Deployments, profileRoll \in BOOLEAN, apmRoll \in BOOLEAN :
        LET r == started + 1
            armed == Armed(cfg, directive)
            profiled == Profiled(cfg, armed, token, wire, profileRoll)
            sampled == Sampled(armed, profiled, wire, apmRoll)
            now == [id |-> r, cfg |-> cfg, sampled |-> sampled, carried |-> carried]
        IN  /\ "collector" \in cfg
            /\ r <= MaxRequests
            /\ started' = r
            /\ announced' = TRUE
            /\ open' = now
            /\ observed' = [id |-> r, carried |-> carried]
            /\ buf' = Brought(now, Cleared(buf, r, cfg, sampled, armed, profiled), with)
            /\ made' = made \cup Noted(now, buf'.bag, Heartbeat(cfg) \cup buf'.bodies)

\* Disabled, or no envelope: start_request returns before it touches anything.
Decline ==
    /\ \E cfg \in Deployments : "collector" \notin cfg
    /\ UNCHANGED <<announced, started, open, observed, buf, made>>

Wires == {"root", "sampled", "unsampled"}
Carried == {Nothing, "theirs"}

\* RINIT.  A CLI process without CHRONOS_PHP_CLI_ENABLED starts no request.
RequestStartup ==
    /\ ~up
    /\ up' = TRUE
    /\ \/ \E wire \in Wires, carried \in Carried, directive, token \in BOOLEAN,
             with \in {"nothing", "origin"} :
             Start(wire, carried, directive, token, with)
       \/ Decline
    /\ UNCHANGED <<delivering, publish, calls, spool>>

Call == up /\ calls < MaxCalls /\ calls' = calls + 1
-----------------------------------------------------------------------------
\* Mutant: the bridge's values win over those the request started with.
FilledAnew(had, offered) == IF offered = Nothing THEN had ELSE offered

Filled(had, offered) == IF had = Nothing THEN offered ELSE had

\* Mutant: the fill does not reach the observer's clone.
ObserverKeeps(seen, carried) == seen

ObserverTold(seen, carried) == [seen EXCEPT !.carried = carried]

\* dst_spool::activate: sequence and recording start over, whatever they held.
Activated(b) == [b EXCEPT !.recording = TRUE, !.effects = {}]

\* enrich_request: a bridge starts a request that is already open.
Enrich(offered, directive, named) ==
    LET carried == Filled(open.carried, offered)
        labelled == IF named THEN [buf EXCEPT !.labels = Label(@, It("service", open.id, 0))]
                    ELSE buf
    IN  /\ Active
        /\ open' = [open EXCEPT !.carried = carried]
        /\ observed' = IF offered = Nothing THEN observed ELSE ObserverTold(observed, carried)
        /\ buf' = IF directive THEN Activated(labelled) ELSE labelled
        /\ made' = IF directive THEN made \cup Noted(open, {}, {It("directive", open.id, 0)})
                   ELSE made
        /\ UNCHANGED <<announced, started>>

\* Mutant: the open request is not noticed and a second one is minted.
BridgeStartsAnew(wire, offered, directive, named) ==
    Start(wire, offered, directive, FALSE, "nothing")

BridgeOpens(wire, offered, directive, named) ==
    \/ Enrich(offered, directive, named)
    \/ ~Active /\ Start(wire, offered, directive, FALSE, "nothing")

\* chronos_request_start.  No profile directive reaches this path.
BridgeStart ==
    /\ Call
    /\ \/ \E wire \in Wires, offered \in {Nothing, "bridged"},
             directive \in BridgeDirectives, named \in BOOLEAN :
             BridgeOpens(wire, offered, directive, named)
       \/ ~Active /\ Decline
    /\ UNCHANGED <<up, delivering, publish, spool>>

\* The observer sees a message delivered while no request is open, and the
\* job marker leaves at once.
DeliveryBegin ==
    /\ Call
    /\ ~Active /\ ~delivering
    /\ \E wire \in Wires, carried \in Carried, with \in {"facts", "message"} :
           Start(wire, carried, FALSE, FALSE, with)
    /\ delivering' = TRUE
    /\ spool' = Append(spool, [kind |-> "jobrun", of |-> started', has |-> {}])
    /\ UNCHANGED <<up, publish>>
-----------------------------------------------------------------------------
\* A call that only adds to a buffer of the open request.
Accept(traced, others, changed) ==
    /\ buf' = changed
    /\ made' = made \cup Noted(open, traced, others)
    /\ UNCHANGED <<up, announced, started, open, observed, delivering, publish, spool>>

\* chronos_set_request_attributes
SetRequestAttributes ==
    /\ Call /\ Active
    /\ LET bag == Merge(buf.bag, It("fact", open.id, 0))
       IN  Accept(bag, {}, [buf EXCEPT !.bag = bag])

\* chronos_record_span: a finished span of the SDK, trace and span ids its own.
RecordSpan ==
    /\ Call /\ On("apm")
    /\ LET span == It("span", open.id, 0)
       IN  Accept({span}, {}, [buf EXCEPT !.spans = @ \cup {span}])

\* chronos_capture_log
CaptureLog ==
    /\ Call /\ On("logs")
    /\ LET record == It("log", open.id, 0)
       IN  Accept({}, {record}, [buf EXCEPT !.logs = @ \cup {record}])

\* chronos_profile_tag asks nothing: a tag is kept whatever is open.
ProfileTag ==
    /\ Call
    /\ \E tag \in Tags :
           Accept({}, {}, [buf EXCEPT !.labels = Label(@, It(tag, open.id, 0))])

\* The observer counts a call, when a frame is pushed for it.
CountCall ==
    /\ Call /\ observed.id # 0 /\ buf.counting
    /\ LET call == It("call", observed.id, 0)
       IN  Accept({}, {call}, [buf EXCEPT !.window = @ \cup {call}])

\* A tick is consumed: one walk of the stack for the sampler's own context.
TakeSample ==
    /\ Call /\ buf.sampling
    /\ LET sample == It("sample", open.id, 0)
       IN  Accept({}, {sample}, [buf EXCEPT !.samples = @ \cup {sample}])

\* chronos_record_dst, and the effects the observer records itself.
RecordEffect ==
    /\ Call /\ buf.recording
    /\ LET effect == It("effect", open.id, 0)
       IN  Accept({}, {effect}, [buf EXCEPT !.effects = @ \cup {effect}])

\* The throw hook.
Throw ==
    /\ Call /\ (observed.id # 0 \/ buf.recording)
    /\ LET effect == IF buf.recording THEN {It("exception", open.id, 0)} ELSE {}
       IN  Accept({}, effect, [buf EXCEPT !.thrown = IF observed.id # 0 THEN observed.id ELSE @,
                                          !.effects = @ \cup effect])

\* chronos_set_http_response_body
SetHttpResponse ==
    /\ Call /\ buf.capturing
    /\ Accept({It("body", open.id, Response)}, {}, [buf EXCEPT !.held = TRUE])

\* chronos_job_started: the marker is written at once, sampled or not.
JobStarted ==
    /\ Call /\ Active
    /\ spool' = Append(spool, [kind |-> "jobrun", of |-> open.id, has |-> {}])
    /\ UNCHANGED <<up, announced, started, open, observed, buf, delivering, publish, made>>

\* The SDK reserves a publish span and hands over its payload; "stored" is what
\* chronos_store_span_body answered.
PublishBegin ==
    /\ Call /\ On("apm") /\ publish = NoPublish
    /\ LET body == It("body", open.id, FirstPublish + calls)
           taken == Storable(open, buf)
       IN  /\ publish' = It(IF taken THEN "stored" ELSE "span", body.of, body.n)
           /\ buf' = IF taken THEN [buf EXCEPT !.bodies = @ \cup {body}] ELSE buf
           /\ made' = IF taken THEN made \cup Noted(open, {body}, {}) ELSE made
    /\ UNCHANGED <<up, announced, started, open, observed, delivering, spool>>

\* The publish returns, in whatever request is open by then, or in none.
PublishEnd ==
    /\ up /\ publish # NoPublish
    /\ publish' = NoPublish
    /\ buf' = IF On("apm") THEN [buf EXCEPT !.spans = @ \cup {publish}] ELSE buf
    /\ made' = IF On("apm") THEN made \cup Noted(open, {publish}, {}) ELSE made
    /\ UNCHANGED <<up, announced, started, open, observed, delivering, calls, spool>>
-----------------------------------------------------------------------------
D(kind, r, has) == IF has = {} THEN <<>> ELSE <<[kind |-> kind, of |-> r, has |-> has]>>

\* Mutant: the span batch is written before the payloads it promises.
SpansFirst(r, bodies, spans) == D("spans", r, spans) \o D("bodies", r, bodies)

\* Bodies before the span batch, which always carries the root.
BodiesFirst(r, bodies, spans) == D("bodies", r, bodies) \o D("spans", r, spans)

\* What the root span carries: identity, error, the captured exchange, the bag.
Root(b, error) ==
    {It("root", open.id, 0)} \cup error \cup b.bag
        \cup (IF b.held THEN {It("stored", open.id, Response)} ELSE {})

Trace(b, error) ==
    IF ~Traced(open) THEN <<>>
    ELSE BodiesFirst(open.id,
             b.bodies \cup (IF b.held THEN {It("body", open.id, Response)} ELSE {}),
             b.spans \cup Root(b, error))

\* The tags resolved at flush.  The counted profile gets those of the sampler's
\* map as it stood before the profiler's own flush took it.
OutcomeOf(labels) == Label(labels, It("outcome", open.id, 0))

Profile(b) ==
    IF ~On("profiler") \/ b.samples = {} THEN <<>>
    ELSE D("profile", open.id, b.samples \cup OutcomeOf(b.labels))

Counted(b) ==
    IF ~On("counted") \/ b.window = {} THEN <<>>
    ELSE D("counted", open.id,
           b.window \cup {l \in b.labels : l.what # "outcome"} \cup {It("outcome", open.id, 0)})

Logs(b) == IF On("logs") THEN D("logs", open.id, b.logs) ELSE <<>>

Recording(b) == IF b.recording THEN D("dst", open.id, b.effects) ELSE <<>>

\* Mutant: the body of the request end forgets to deactivate the recording.
StillRecording(b) == [b EXCEPT !.effects = {}]

\* The recording is drained and deactivated.
RecordingDone(b) ==
    [b EXCEPT !.recording = FALSE, !.effects = IF b.recording THEN {} ELSE @]

\* What end_request_full leaves in the thread-locals.  The buffers of a signal
\* that is off, or of an unsampled request, wait for the next start.
Drained(b) ==
    LET sent == Traced(open)
        profiler == On("profiler")
    IN  [RecordingDone(b) EXCEPT
            !.bag = {},
            !.spans = IF sent THEN {} ELSE @,
            !.bodies = IF sent THEN {} ELSE @,
            !.labels = IF profiler THEN {} ELSE @,
            !.samples = IF profiler THEN {} ELSE @,
            !.sampling = IF profiler THEN FALSE ELSE @,
            !.counting = FALSE,
            !.window = {},
            !.logs = IF On("logs") THEN {} ELSE @,
            !.capturing = FALSE, !.held = FALSE]

\* Mutant: the state is read, not taken.
StateKept == open

\* The request's state is taken: the second end finds none.
StateTaken == Closed

\* end_request_full: nothing the second time.
End(error) ==
    IF ~Active THEN UNCHANGED <<open, observed, buf, spool>>
    ELSE /\ open' = StateTaken
         /\ observed' = Unobserved
         /\ buf' = Drained(buf)
         /\ spool' = spool \o Trace(buf, error) \o Profile(buf) \o Counted(buf)
                           \o Logs(buf) \o Recording(buf)

\* The throw hook's last witness, if there is one.
LastThrow == IF buf.thrown = 0 THEN {} ELSE {It("error", buf.thrown, 0)}

\* chronos_request_end: a bridge reports the error itself, or there is none.
RequestEnd ==
    /\ Call
    /\ \E error \in {{}, {It("error", open.id, 0)}} : End(error)
    /\ UNCHANGED <<up, announced, started, delivering, publish, made>>

\* The frame that owns the delivery returns: the outcome is the throw window's.
DeliveryEnd ==
    /\ up /\ delivering
    /\ delivering' = FALSE
    /\ End(LastThrow)
    /\ UNCHANGED <<up, announced, started, publish, calls, made>>

\* RSHUTDOWN, after every frame is gone; an uncaught throw may have killed PHP.
RequestShutdown ==
    /\ up /\ ~delivering
    /\ up' = FALSE
    /\ publish' = NoPublish
    /\ \E error \in {{}, LastThrow} : End(error)
    /\ UNCHANGED <<announced, started, delivering, calls, made>>

Application ==
    \/ SetRequestAttributes \/ RecordSpan \/ CaptureLog \/ ProfileTag \/ CountCall
    \/ TakeSample \/ RecordEffect \/ Throw \/ SetHttpResponse \/ JobStarted
    \/ PublishBegin \/ PublishEnd

Next ==
    \/ RequestStartup \/ BridgeStart \/ DeliveryBegin
    \/ Application
    \/ RequestEnd \/ DeliveryEnd \/ RequestShutdown

Spec == Init /\ [][Next]_vars
=============================================================================
