---------------------------- MODULE NativeSpans ----------------------------
(***************************************************************************)
(* native/src/observer.rs: which calls become spans, and what the observer *)
(* promises about them before they are recorded.                           *)
(*                                                                         *)
(* The Zend engine asks once per function whether to observe it; for an    *)
(* observed one the begin handler decides, call by call, between a span, a *)
(* plain frame and one of the messaging roles.  A publish puts the id of   *)
(* its own span into the message before the client sends it, an HTTP call  *)
(* into its headers, and the end handler records the span, if the cap lets *)
(* it.  The call path of a recording is counted along the same frames,     *)
(* from the moment the recording is armed: at the start of the request, or *)
(* later, under calls that are open, when a bridge brings the directive.   *)
(*                                                                         *)
(* Requests open on an empty stack here: what a request finds on a stack   *)
(* that is not empty is the subject of ObserverFrames.  A call that pushes *)
(* no frame, because no request is open, is over as soon as it is seen.    *)
(***************************************************************************)
EXTENDS Integers, Sequences, FiniteSets

CONSTANTS
    Functions,      \* the functions the process calls
    Table,          \* the name table that lists each of them
    Internal,       \* those of the engine and of C extensions
    Excluded,       \* those defined under an excluded path
    Headers,        \* for a publish method: where the headers of a message are
    Messages,       \* message objects the application keeps and sends again
    Manifest,       \* the functions the application's manifest may name
    Kinds,          \* what the SDK may suppress: "sql", "cache", "messaging"
    Deployments,    \* settings of the process: [auto, all : BOOLEAN]
    Verdicts,       \* bound: the requests that are tried, [sampled, recorded : BOOLEAN]
    MaxSpans,       \* MAX_SPANS_PER_REQUEST
    MaxBodies,      \* MAX_PENDING_BODIES
    MaxRequests,    \* bound: requests the process opens
    MaxIds,         \* bound: span ids minted
    MaxTraced,      \* bound: registrations of the manifest
    MaxDepth,       \* bound: nesting of calls
    Outermost,      \* bound: functions tried on an empty stack only
    Reentrant,      \* bound: what is tried inside a client's own publish or transfer
    Foreign,        \* a traceparent the application set itself
    None

\* SpanPolicy
Policies == {"UserSpan", "ManifestSpan", "IoSpan", "ObserveOnly", "MessagingPublish",
             "MessagingDeliver", "MessagingPoll", "MessagingNatsSend"}

ASSUME NativeSpansConstants ==
    /\ Internal \subseteq Functions /\ Excluded \subseteq Functions
    /\ DOMAIN Table = Functions /\ Manifest \subseteq Functions
    /\ \A f \in Functions : Table[f] \in {"publish", "natssend"} => f \in DOMAIN Headers
    /\ Verdicts \subseteq [sampled : BOOLEAN, recorded : BOOLEAN]
    /\ Deployments \subseteq [auto : BOOLEAN, all : BOOLEAN]
    /\ MaxSpans \in Nat /\ MaxBodies \in Nat /\ MaxDepth \in Nat
    /\ MaxRequests \in Nat /\ MaxIds \in Nat /\ MaxTraced \in Nat
    /\ None \notin Nat \cup Policies \cup Functions
    /\ None \notin [sampled : BOOLEAN, recorded : BOOLEAN]
    /\ Foreign \notin Nat \cup {None}

VARIABLES
    settings,       \* messaging_auto and span_all_userland, fixed for the process
    traced,         \* the manifest
    generation,     \* MANIFEST_GENERATION
    verdict,        \* the engine's memory of the factory's answers, and
    cache,          \* POLICY_CACHE, where they can go stale: for the Manifest
    context,        \* REQUEST_CONTEXT, and whether the request is recorded
    started,        \* requests opened so far
    suppressed,     \* SUPPRESS_SQL, SUPPRESS_CACHE, SUPPRESS_MESSAGING
    frames,         \* CALL_FRAMES
    parents,        \* SPAN_STACK
    spans,          \* REQUEST_SPANS
    bodies,         \* PENDING of the body spool: the spans that own one
    depth,          \* DEPTH of the call path
    armedUnder,     \* frames open since before it was armed, for the properties only
    minted,         \* span ids handed out
    held,           \* the traceparent each kept message carries, None without one
    wire,           \* traceparents that left the process, for the properties only
    shipped,        \* what the requests closed so far sent, for the properties only
    lost            \* spans the cap refused or a close left open, likewise

policyVars  == <<settings, traced, generation, verdict, cache>>
requestVars == <<context, started, suppressed>>
frameVars   == <<frames, parents, spans, bodies, depth, armedUnder, minted>>
wireVars    == <<held, wire, shipped, lost>>
vars == <<policyVars, requestVars, frameVars, wireVars>>

Root == 0
Frame == [f : Functions, id : Nat \cup {None}, parent : Nat \cup {None},
          attributes : BOOLEAN, kept : BOOLEAN, bypass : BOOLEAN,
          stored : BOOLEAN, owns : BOOLEAN]

Top(s) == s[Len(s)]
Pop(s) == SubSeq(s, 1, Len(s) - 1)
Open   == {i \in 1..Len(frames) : frames[i].id # None}
OpenIds == {frames[i].id : i \in Open}

Init ==
    /\ settings \in Deployments
    /\ traced = {} /\ generation = 1
    /\ verdict = [f \in Manifest |-> "unseen"]
    /\ cache = [f \in Manifest |-> None]
    /\ context = None /\ started = 0 /\ suppressed = {}
    /\ frames = <<>> /\ parents = <<>> /\ spans = {} /\ bodies = {}
    /\ depth = 0 /\ armedUnder = 0 /\ minted = 0
    /\ held = [o \in Messages |-> None]
    /\ wire = {} /\ lost = {} /\ shipped = [spans |-> {}, bodies |-> {}]
-----------------------------------------------------------------------------
(* The policy of a function.                                               *)

\* Calls the observer only listens to: the options of a transfer, a statement's text, the
\* queue of a subscription, the class of a serialized message, what a recording keeps.
SideChannels == {"setopt", "prepare", "subscribe", "serialize", "builtin"}

\* I/O of the engine and of extensions, and the one remote call of a broker's client.
IoTables == {"network", "stream", "sql", "cache", "rpc"}

\* The methods of the brokers' clients.
Brokers == [publish |-> "MessagingPublish", deliver |-> "MessagingDeliver",
            poll |-> "MessagingPoll", natssend |-> "MessagingNatsSend"]

MessagingTables == DOMAIN Brokers \cup {"subscribe", "serialize", "rpc"}

Named(table) ==
    IF table \in SideChannels THEN "ObserveOnly"
    ELSE IF table \in IoTables THEN "IoSpan" ELSE Brokers[table]

InTable(f) ==
    /\ Table[f] \in SideChannels \cup IoTables \cup DOMAIN Brokers
    /\ Table[f] \in MessagingTables => settings.auto

\* The FFI of the collector, internal functions, closures and main: never a span.
Unobservable(f) == f \in Internal \/ Table[f] \in {"own", "closure"}

ObservePolicy(f) ==
    IF InTable(f) THEN Named(Table[f])
    ELSE IF Unobservable(f) THEN None
    ELSE IF f \in traced THEN "ManifestSpan"
    ELSE IF ~settings.all THEN "ObserveOnly"
    ELSE IF Table[f] = "infrastructure" THEN None
    ELSE "UserSpan"

\* Mutant: an entry of any generation is taken for current.
CachedForever(f) ==
    IF f \in Manifest /\ cache[f] # None THEN cache[f].policy ELSE ObservePolicy(f)

CachedPolicy(f) ==
    IF f \in Manifest /\ cache[f] # None /\ cache[f].generation = generation
    THEN cache[f].policy ELSE ObservePolicy(f)

\* chronos_trace_function, from the manifest.
TraceFunction(f) ==
    /\ generation <= MaxTraced
    /\ traced' = traced \cup {f}
    /\ generation' = generation + 1
    /\ UNCHANGED <<settings, verdict, cache, requestVars, frameVars, wireVars>>

\* The factory is asked at the first call of a function and never again.
Factory(f) ==
    IF f \in Manifest /\ verdict[f] # "unseen" THEN verdict[f]
    ELSE IF ObservePolicy(f) = None THEN "ignored" ELSE "observed"

\* Every call: the factory's answer, and the cache filled by the begin handler.
Look(f) ==
    /\ verdict' = IF f \in Manifest THEN [verdict EXCEPT ![f] = Factory(f)] ELSE verdict
    /\ cache' = IF f \notin Manifest \/ Factory(f) = "ignored" THEN cache
                ELSE [cache EXCEPT ![f] = [generation |-> generation,
                                           policy |-> CachedPolicy(f)]]
    /\ UNCHANGED <<settings, traced, generation>>

\* native_io_suppressed, the publish and the poll of a bridge, local streams, vendor code.
Demoted(f, policy, remote) ==
    \/ policy = "IoSpan" /\ Table[f] \in {"sql", "cache"} /\ Table[f] \in suppressed
    \/ policy \in {"MessagingPublish", "MessagingPoll"} /\ "messaging" \in suppressed
    \/ policy = "IoSpan" /\ Table[f] = "stream" /\ ~remote
    \/ policy = "UserSpan" /\ f \in Excluded

Policy(f, remote) ==
    IF Factory(f) = "ignored" THEN None
    ELSE IF Demoted(f, CachedPolicy(f), remote) THEN "ObserveOnly"
    ELSE CachedPolicy(f)
-----------------------------------------------------------------------------
(* Frames.                                                                 *)

\* CallFrame::observe_only
Plain(f) ==
    [f |-> f, id |-> None, parent |-> None, attributes |-> FALSE, kept |-> FALSE,
     bypass |-> FALSE, stored |-> FALSE, owns |-> FALSE]

\* on_begin: the id is minted and pushed as a parent before anything else happens.
Minted == minted + 1
OnBegin(f) ==
    [Plain(f) EXCEPT !.id = Minted,
                     !.parent = IF parents = <<>> THEN Root ELSE Top(parents)]

\* Mutant: calls of the engine's own functions are entered too.
EnterAny(f) == depth' = IF context # None /\ context.recorded THEN depth + 1 ELSE depth

\* call_path::on_enter: the depth is counted whatever is kept of the event.
OnEnter == depth + 1

\* record_call_path_enter
Enter(f) ==
    depth' = IF f \notin Internal /\ context # None /\ context.recorded THEN OnEnter ELSE depth

\* A call can begin anywhere, inside a client's own publish or transfer too: what
\* stands here are bounds.
Callable(f) ==
    /\ Len(frames) < MaxDepth
    /\ f \in Outermost => frames = <<>>
    /\ (\E i \in 1..Len(frames) : Table[frames[i].f] \in {"publish", "natssend", "network"})
            => f \in Reentrant

\* push_frame
Push(frame) == frames' = Append(frames, frame)

\* observe_only_fallback, and the same lines of the begin handler.
PassThrough(f) ==
    IF context = None THEN UNCHANGED frameVars
    ELSE /\ Push(Plain(f)) /\ Enter(f)
         /\ UNCHANGED <<parents, spans, bodies, armedUnder, minted>>

CallIgnored(f) ==
    /\ Callable(f) /\ Factory(f) = "ignored" /\ Look(f)
    /\ UNCHANGED <<requestVars, frameVars, wireVars>>

CallPlain(f) ==
    /\ Callable(f) /\ Look(f)
    /\ \E remote \in BOOLEAN : Policy(f, remote) = "ObserveOnly"
    /\ PassThrough(f)
    /\ UNCHANGED <<requestVars, wireVars>>

\* Every span frame gets an attribute at begin, a poll when its answer is read; an HTTP
\* transfer carries the traceparent of its own span.
CallSpan(f) ==
    /\ Callable(f) /\ Look(f) /\ minted < MaxIds
    /\ Policy(f, TRUE) \in {"UserSpan", "ManifestSpan", "IoSpan", "MessagingPoll"}
    /\ IF context = None THEN UNCHANGED <<frameVars, wire>>
       ELSE /\ Push([OnBegin(f) EXCEPT !.attributes = Policy(f, TRUE) # "MessagingPoll"])
            /\ parents' = Append(parents, Minted) /\ minted' = Minted
            /\ Enter(f)
            /\ wire' = IF Table[f] # "network" THEN wire
                       ELSE wire \cup {[id |-> Minted, sampled |-> context.sampled,
                                        publish |-> FALSE]}
            /\ UNCHANGED <<spans, bodies, armedUnder>>
    /\ UNCHANGED <<requestVars, held, shipped, lost>>
-----------------------------------------------------------------------------
(* A publish.                                                              *)

\* inject_array_entries, inject_amqp_application_headers, inject_property_array_entries:
\* add what is absent, the caller's own value wins.
Injected(present) == IF present = None THEN Minted ELSE present

\* Mutant: a promise is taken to be made by every publish method.
BypassByPolicy(f, written) == TRUE

\* bypass_span_cap: the headers had a place and were written.
Bypass(f, written) == written

\* What the message object carries on.
Holds(o, value) == held' = IF o = None THEN held ELSE [held EXCEPT ![o] = value]

\* An unreadable header slot, or none, leaves the message alone.
CanWrite(f, written) == written => Headers[f] # "none"

Announces(present, written) ==
    IF ~written \/ Injected(present) # Minted THEN wire
    ELSE wire \cup {[id |-> Minted, sampled |-> context.sampled, publish |-> TRUE]}

\* store_message_body: a sampled request and a place among the pending bodies.
Stores(large) == large /\ context.sampled /\ Cardinality(bodies) < MaxBodies

\* Mutant: the marker is set without waiting for the store's answer.
MarkedAnyway(large) == large

\* .stored, when the store took the bytes
Marked(large) == Stores(large)

\* The message is an argument or an object: what it carries, and whether it takes more.
PublishSpan(f, o, present, written, large) ==
    LET frame == [OnBegin(f) EXCEPT !.attributes = TRUE, !.bypass = Bypass(f, written),
                                    !.stored = Marked(large)]
    IN  /\ minted < MaxIds /\ minted' = Minted
        /\ parents' = Append(parents, Minted)
        /\ Holds(o, IF written THEN Injected(present) ELSE present)
        /\ wire' = Announces(present, written)
        /\ bodies' = IF Stores(large) THEN bodies \cup {Minted} ELSE bodies
        /\ Push(frame) /\ Enter(f)
        /\ UNCHANGED <<spans, armedUnder, shipped, lost>>

\* What the four publish handlers share.  Without an open request only the stamp of the
\* queue time is written.
Publish(f, o, present, written, large) ==
    /\ CanWrite(f, written)
    /\ IF context = None THEN PassThrough(f) /\ UNCHANGED wireVars
       ELSE PublishSpan(f, o, present, written, large)

\* begin_messaging_publish_bunny, begin_messaging_publish_rdkafka: the headers are an array
\* of this call; rdkafka's produce has none.
PublishArray(f) ==
    /\ Headers[f] \in {"array", "none"}
    /\ \E present \in {None, Foreign}, written, large \in BOOLEAN :
            Publish(f, None, present, written, large)

\* begin_messaging_publish_amqplib: a property of the message object, which may be sent
\* again; the argument may be no object.
PublishAmqplib(f) ==
    /\ Headers[f] = "amqplib"
    /\ \/ PassThrough(f) /\ UNCHANGED wireVars
       \/ \E o \in Messages, written, large \in BOOLEAN :
            Publish(f, o, held[o], written, large)

CallPublish(f) ==
    /\ Callable(f) /\ Look(f) /\ Policy(f, TRUE) = "MessagingPublish"
    /\ PublishArray(f) \/ PublishAmqplib(f)
    /\ UNCHANGED requestVars

\* begin_nats_publish: a property of the payload object, if there is one.
PublishNats(f) ==
    \/ PassThrough(f) /\ UNCHANGED wireVars
    \/ \E o \in Messages, written, large \in BOOLEAN :
            Publish(f, o, held[o], written, large)

\* begin_nats_send_message: the one method of the wire decides by what it is given; a
\* subscription and any other message are passed through.
CallNatsSend(f) ==
    /\ Callable(f) /\ Look(f) /\ Policy(f, TRUE) = "MessagingNatsSend"
    /\ \/ PassThrough(f) /\ UNCHANGED wireVars
       \/ "messaging" \notin suppressed /\ PublishNats(f)
    /\ UNCHANGED requestVars

\* The application makes a new message.
NewMessage(o) ==
    /\ held[o] # None
    /\ held' = [held EXCEPT ![o] = None]
    /\ UNCHANGED <<policyVars, requestVars, frameVars, wire, shipped, lost>>
-----------------------------------------------------------------------------
(* Requests and the end of a call.                                         *)

\* set_request_context, and the call path armed if the request is recorded from the start
Opened(how) ==
    /\ started < MaxRequests /\ started' = started + 1
    /\ context' = how
    /\ suppressed' = {} /\ parents' = <<>> /\ spans' = {}
    /\ bodies' = {}
    /\ armedUnder' = 0

RequestStart(how) ==
    /\ context = None /\ frames = <<>>
    /\ Opened(how) /\ depth' = 0
    /\ UNCHANGED <<policyVars, frames, minted, wireVars>>

\* enrich_request: a bridge brings a recording directive to the open request, which arms the
\* call path under whatever is open, again if it was armed before.
Enrich ==
    /\ context # None
    /\ context' = [context EXCEPT !.recorded = TRUE]
    /\ depth' = 0 /\ armedUnder' = Len(frames)
    /\ UNCHANGED <<policyVars, started, suppressed, frames, parents, spans, bodies, minted,
                   wireVars>>

\* A delivery opens a request of its own unless one is open.
CallDeliver(f) ==
    /\ Callable(f) /\ Look(f) /\ Policy(f, TRUE) = "MessagingDeliver"
    /\ UNCHANGED wireVars
    /\ \/ context # None /\ PassThrough(f) /\ UNCHANGED requestVars
       \/ /\ context = None /\ frames = <<>>
          /\ \E how \in Verdicts :
                /\ Opened(how)
                /\ depth' = IF how.recorded /\ f \notin Internal THEN 1 ELSE 0
          /\ Push([Plain(f) EXCEPT !.owns = TRUE]) /\ UNCHANGED minted

\* end_request: an unsampled request sends nothing.
Sent ==
    shipped' = IF ~context.sampled THEN shipped
               ELSE [spans |-> shipped.spans \cup spans, bodies |-> shipped.bodies \cup bodies]

\* What is left on the frame stack is recorded by nobody.
Closed(remaining) ==
    /\ context' = None /\ parents' = <<>> /\ spans' = {} /\ bodies' = {}
    /\ depth' = 0 /\ armedUnder' = 0 /\ Sent
    /\ lost' = lost \cup ({remaining[i].id : i \in 1..Len(remaining)} \ {None})

\* Not from inside a client's publish or transfer: nothing a client calls ends a request.
RequestEnd ==
    /\ context # None
    /\ \A i \in 1..Len(frames) :
            ~frames[i].owns /\ Table[frames[i].f] \notin {"publish", "natssend", "network"}
    /\ Closed(frames)
    /\ UNCHANGED <<policyVars, started, suppressed, frames, minted, held, wire>>

\* Said outside of a request it is forgotten by the next one.
SuppressNative(kind) ==
    /\ context # None /\ kind \notin suppressed
    /\ suppressed' = suppressed \cup {kind}
    /\ UNCHANGED <<policyVars, context, started, frameVars, wireVars>>

\* Mutant: a span is kept for its own time or error alone.
KeepSlow(frame, notable) == notable

\* on_end, the keep rule: it threw or took long enough, has a kept child or an attribute
Keep(frame, notable) == notable \/ frame.kept \/ frame.attributes

\* Mutant: the cap spares no span.
HasRoomForAny(bypass) == Cardinality(spans) < MaxSpans

\* push_span
HasRoom(bypass) == bypass \/ Cardinality(spans) < MaxSpans

AsSpan(frame) == [id |-> frame.id, parent |-> frame.parent, of |-> started,
                  f |-> frame.f, stored |-> frame.stored]

\* A kept child marks the frame right below it.
MarkedBelow(below, pushed) ==
    IF pushed /\ below # <<>> THEN [below EXCEPT ![Len(below)].kept = TRUE] ELSE below

Finished(frame, notable) ==
    LET kept   == frame.id # None /\ Keep(frame, notable)
        pushed == kept /\ HasRoom(frame.bypass)
    IN  /\ spans' = IF pushed THEN spans \cup {AsSpan(frame)} ELSE spans
        /\ lost' = IF kept /\ ~pushed THEN lost \cup {frame.id} ELSE lost
        /\ frames' = MarkedBelow(Pop(frames), pushed)

\* call_path::on_leave, saturating
OnLeave == IF depth = 0 THEN 0 ELSE depth - 1

\* record_call_path_leave
Leave(f) ==
    depth' = IF f \notin Internal /\ context # None /\ context.recorded THEN OnLeave ELSE depth

\* Calls that were open when the recording was armed, and still are.
OutlivedBy(remaining) ==
    armedUnder' = IF armedUnder > Len(remaining) THEN Len(remaining) ELSE armedUnder

\* capture_messaging_poll_result
Answered(frame) ==
    IF Table[frame.f] = "poll" /\ frame.id # None
    THEN [frame EXCEPT !.attributes = TRUE] ELSE frame

\* chronos_end_trampoline
End(notable) ==
    /\ frames # <<>>
    /\ LET frame == Answered(Top(frames))
       IN  IF frame.owns
           THEN /\ Closed(Pop(frames)) /\ frames' = Pop(frames)
                /\ UNCHANGED <<started, suppressed, minted, held, wire>>
           ELSE /\ Finished(frame, notable) /\ Leave(frame.f) /\ OutlivedBy(Pop(frames))
                /\ parents' = IF parents # <<>> /\ Top(parents) = frame.id
                              THEN Pop(parents) ELSE parents
                /\ UNCHANGED <<requestVars, bodies, minted, held, wire, shipped>>
    /\ UNCHANGED policyVars

\* record_userland_span: a span of the SDK takes a place of the same batch.  It stands under the
\* root here; which parent the SDK names is SpanStack's.
RecordSpan ==
    /\ context # None /\ minted < MaxIds /\ minted' = Minted
    /\ IF HasRoom(FALSE)
       THEN /\ spans' = spans \cup {[id |-> Minted, parent |-> None, of |-> started,
                                     f |-> None, stored |-> FALSE]}
            /\ UNCHANGED lost
       ELSE /\ lost' = lost \cup {Minted} /\ UNCHANGED spans
    /\ UNCHANGED <<policyVars, requestVars, frames, parents, bodies, depth, armedUnder,
                   held, wire, shipped>>
-----------------------------------------------------------------------------
Next ==
    \/ \E f \in Manifest : TraceFunction(f)
    \/ \E f \in Functions :
        \/ CallIgnored(f) \/ CallPlain(f) \/ CallSpan(f)
        \/ CallPublish(f) \/ CallNatsSend(f)
        \/ CallDeliver(f)
    \/ \E notable \in BOOLEAN : End(notable)
    \/ \E how \in Verdicts : RequestStart(how)
    \/ RequestEnd \/ Enrich
    \/ \E kind \in Kinds : SuppressNative(kind)
    \/ RecordSpan
    \/ \E o \in Messages : NewMessage(o)

Spec == Init /\ [][Next]_vars
============================================================================
