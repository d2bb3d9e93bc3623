---------------------------- MODULE HttpCapture ----------------------------
(***************************************************************************)
(* native/src/http_capture.rs and the documents it ends in: the settings   *)
(* of a request, what is kept of its HTTP exchange while it runs, the      *)
(* attributes and bodies drained from it when it ends, and the documents   *)
(* that carry them, written one by one: the bodies, then the spans that    *)
(* promise them, then what a profile or a recording has collected.         *)
(*                                                                         *)
(* One request of one worker.  Any write may fail, and the worker may be   *)
(* killed between two of them.                                             *)
(***************************************************************************)
EXTENDS Documents

CONSTANTS
    Characters,     \* what texts are made of
    Names,          \* the names of headers and parameters
    NameBytes,      \* how long each of them is: names are never cut
    Exchanges,      \* the requests that are tried: [settings, maps, body, multipart, items]
    Responses,      \* what a bridge may hand over: [body, headers]
    Buffers,        \* what an output buffer of the application may hold
    Outbound,       \* what curl_exec may return: [body, size]
    Payloads,       \* message bodies userland may store, none of them empty
    Listed,         \* what headers_list() may answer
    Sensitive,      \* the names the redaction patterns match
    Mask,           \* what a masked value is replaced with
    DefaultInline,  \* DEFAULT_MAX_BODY_BYTES
    DefaultTotal,   \* DEFAULT_MAX_BODY_TOTAL_BYTES
    Ceiling,        \* MAX_BODY_TOTAL_CEILING
    MaxMapEntries, MaxMapBytes, MaxValueBytes,
    MaxPhases,      \* 32 marks
    MaxBodies,      \* MAX_PENDING_BODIES
    PublishPreview, \* PUBLISH_PREVIEW_CAP of a message
    MaxCalls,       \* bound: events between the start and the end of the request
    MaxTime,        \* bound: nanoseconds a request lasts
    MaxFailures,    \* bound: writes that fail
    Absent

ASSUME HttpCaptureConstants ==
    /\ {DefaultInline, DefaultTotal, MaxPhases, MaxBodies, MaxCalls} \subseteq Nat \ {0}
    /\ {Ceiling, MaxMapEntries, MaxMapBytes, MaxValueBytes, PublishPreview, MaxTime,
        MaxFailures} \subseteq Nat
    /\ NameBytes \in [Names -> Nat]

Text == Seq(Characters)
Pairs == Seq([name : Names, value : Text])
Settings == [enabled : BOOLEAN, bodies : BOOLEAN, buffer : BOOLEAN, redact : BOOLEAN,
             inline : Nat, total : Nat]

\* An item takes at least its comma, and an empty message is not stored.
ASSUME HttpCaptureData ==
    /\ Exchanges \subseteq [settings : Settings, maps : Pairs, body : Text, multipart : BOOLEAN,
                           items : Seq([item : Nat, size : Nat \ {0}])]
    /\ Responses \subseteq [body : Text, headers : Pairs]
    /\ Outbound \subseteq [body : Text, size : Nat]
    /\ Buffers \subseteq Text /\ Payloads \subseteq Text \ {<<>>} /\ Listed \subseteq Pairs
    /\ Mask \in Text
    /\ Absent \notin Text /\ Absent \notin [text : Text, size : Nat]

VARIABLES
    step,           \* "new", "open", "writing" or "over"
    capture,        \* CAPTURE, or Absent
    spans,          \* the spans the request has recorded
    pending,        \* PENDING of body_spool
    queue,          \* documents still to be written
    written,        \* the spool
    failed,         \* history: documents whose write failed
    killed,         \* history: the worker was killed while it wrote
    truth           \* history: what the application had, and when it marked a phase

captureVars == <<step, capture, spans, pending, queue, written, failed, killed, truth>>

------------------------------------------------------------------------------
(* Settings. *)

\* env_usize: zero stands for anything that is not a positive number.
Asked(value, default) == IF value > 0 THEN value ELSE default

Disabled ==
    [enabled |-> FALSE, bodies |-> FALSE, buffer |-> FALSE, redact |-> TRUE,
     inline |-> DefaultInline, total |-> DefaultTotal]

Resolve(s) ==
    LET inline == Asked(s.inline, DefaultInline)
    IN  IF ~s.enabled THEN Disabled
        ELSE [enabled |-> TRUE, bodies |-> s.bodies, buffer |-> s.buffer, redact |-> s.redact,
              inline |-> inline,
              total |-> Min({Max({Asked(s.total, DefaultTotal), inline}), Max({Ceiling, inline})})]

------------------------------------------------------------------------------
(* Attributes. *)

\* What encode_map_masked has made of the pairs so far: a value for each name it has seen,
\* the bytes it has counted, and how many pairs it has left out.
EmptyMap == [held |-> [name \in Names |-> Absent], bytes |-> 0, dropped |-> 0]

NamesIn(map) == {name \in Names : map.held[name] # Absent}

Masked(pair, config) ==
    IF config.redact /\ pair.name \in Sensitive THEN Mask ELSE Cut(pair.value, MaxValueBytes)

IsFull(map) == Cardinality(NamesIn(map)) >= MaxMapEntries \/ map.bytes >= MaxMapBytes

\* Mutant: only values are counted.
TakeValue(map, pair, config) ==
    [map EXCEPT !.held[pair.name] = Masked(pair, config),
                !.bytes = @ + Bytes(Masked(pair, config))]

\* A name that comes again has its value replaced, and is counted again.
Take(map, pair, config) ==
    [map EXCEPT !.held[pair.name] = Masked(pair, config),
                !.bytes = @ + NameBytes[pair.name] + Bytes(Masked(pair, config))]

\* A pair that comes when the map is full is counted and left out, its name held or not.
Offered(map, pair, config) ==
    IF IsFull(map) THEN [map EXCEPT !.dropped = @ + 1] ELSE Take(map, pair, config)

\* encode_map_masked: the map, and the note on what it left out.
Encoded(pairs, config) ==
    LET map[i \in 0..Len(pairs)] ==
            IF i = 0 THEN EmptyMap ELSE Offered(map[i - 1], pairs[i], config)
    IN  map[Len(pairs)]

\* What is kept of a body, and the size the application saw.
Kept(text, limit) == [text |-> Cut(text, limit), size |-> Bytes(text)]

Overflows(body, config) == Bytes(body.text) > config.inline

\* Mutant: only what the span itself left out counts.
AttributesOfKept(side, body, config) ==
    [side |-> side, preview |-> Cut(body.text, config.inline), size |-> body.size,
     truncated |-> Overflows(body, config),
     stored |-> Overflows(body, config) /\ config.total > config.inline]

BodyAttributes(side, body, config) ==
    [side |-> side, preview |-> Cut(body.text, config.inline), size |-> body.size,
     truncated |-> Overflows(body, config) \/ body.size > Bytes(body.text),
     stored |-> Overflows(body, config) /\ config.total > config.inline]

StoredBody(side, body, config) ==
    IF BodyAttributes(side, body, config).stored
      THEN <<[side |-> side, text |-> body.text]>> ELSE <<>>

\* Marks are numbered from 1.
Bootstrap == 0

\* Mutant: what comes before the first mark is left out.
FromFirstMark(phases) == phases

\* The time before the first mark is bootstrap.
FromStart(phases) ==
    (IF phases # <<>> /\ Head(phases).at > 0 THEN <<[name |-> Bootstrap, at |-> 0]>> ELSE <<>>)
    \o phases

\* A mark lasts to the next one.
EndOf(marks, i, duration) == IF i < Len(marks) THEN marks[i + 1].at ELSE duration

Drawn(line, marks, i, duration) ==
    IF EndOf(marks, i, duration) > marks[i].at
      THEN Append(line, [name |-> marks[i].name, start |-> marks[i].at,
                         end |-> EndOf(marks, i, duration)])
      ELSE line

PhaseJson(phases, duration) ==
    LET marks == FromStart(phases)
        line[i \in 0..Len(marks)] ==
            IF i = 0 THEN <<>> ELSE Drawn(line[i - 1], marks, i, duration)
    IN  line[Len(marks)]

Span(id, kind, bodies, maps, timeline) ==
    [id |-> id, kind |-> kind, bodies |-> bodies, maps |-> maps, timeline |-> timeline,
     size |-> SpanOverhead + SumOf([i \in DOMAIN bodies |-> Bytes(bodies[i].preview)])]

------------------------------------------------------------------------------
(* The request. *)

Untold == [exchange |-> Absent, response |-> Absent, headers |-> <<>>, marks |-> <<>>,
           end |-> 0, calls |-> 0, texts |-> <<>>]

CaptureInit ==
    /\ step = "new" /\ capture = Absent /\ spans = <<>> /\ pending = <<>>
    /\ queue = <<>> /\ written = {} /\ failed = {} /\ killed = FALSE
    /\ truth = Untold

Body(x, config) ==
    IF config.bodies /\ ~x.multipart /\ x.body # <<>> THEN Kept(x.body, config.total) ELSE Absent

OnRequestStart(x) ==
    /\ step = "new"
    /\ step' = "open"
    /\ pending' = <<>>
    /\ LET config == Resolve(x.settings)
       IN  capture' = IF config.enabled
                        THEN [config |-> config, maps |-> x.maps, body |-> Body(x, config),
                              headers |-> <<>>, response |-> Absent, phases |-> <<>>]
                        ELSE Absent
    /\ truth' = [truth EXCEPT !.exchange = x]
    /\ UNCHANGED <<spans, queue, written, failed, killed>>

Busy == step = "open" /\ truth.calls < MaxCalls

\* The last response wins, but for the parts it leaves empty.
SetResponse(r) ==
    /\ Busy
    /\ LET headed == capture # Absent /\ r.headers # <<>>
           bodied == capture # Absent /\ capture.config.bodies /\ r.body # <<>>
       IN  /\ capture' = IF capture = Absent THEN Absent
                         ELSE [capture EXCEPT
                                 !.headers  = IF headed THEN r.headers ELSE @,
                                 !.response = IF bodied THEN Kept(r.body, capture.config.total) ELSE @]
           /\ truth' = [truth EXCEPT
                          !.calls = @ + 1,
                          !.headers  = IF headed THEN r.headers ELSE @,
                          !.response = IF bodied THEN r.body ELSE @]
    /\ UNCHANGED <<step, spans, pending, queue, written, failed, killed>>

LastMark == IF truth.marks = <<>> THEN 0 ELSE Last(truth.marks)

\* Marks are numbered in the order they are made.
MarkPhase(at) ==
    /\ Busy /\ at >= LastMark
    /\ truth' = [truth EXCEPT !.marks = Append(@, at), !.calls = @ + 1]
    /\ capture' = IF capture # Absent /\ Len(capture.phases) < MaxPhases
                    THEN [capture EXCEPT !.phases =
                            Append(@, [name |-> Len(truth.marks) + 1, at |-> at])]
                    ELSE capture
    /\ UNCHANGED <<step, spans, pending, queue, written, failed, killed>>

\* A publish span previews its message and hands the whole of it to chronos_store_span_body,
\* also when the preview is whole; it says stored if the buffer took it.
StoreBody(text) ==
    LET id      == Len(spans) + 1
        preview == Cut(text, PublishPreview)
        taken   == Len(pending) < MaxBodies
    IN  /\ Busy
        /\ pending' = IF taken THEN Append(pending, [owner |-> id, side |-> "message", text |-> text])
                      ELSE pending
        /\ spans' = Append(spans, Span(id, "publish",
              <<[side |-> "message", preview |-> preview, size |-> Bytes(text),
                 truncated |-> preview # text, stored |-> taken]>>, <<>>, <<>>))
        /\ truth' = [truth EXCEPT !.calls = @ + 1, !.texts = Append(@, text)]
        /\ UNCHANGED <<step, capture, queue, written, failed, killed>>

\* capture_curl_result: encode_body keeps the attributes and not the body.
CurlReturns(r) ==
    LET id     == Len(spans) + 1
        shown  == capture # Absent /\ capture.config.bodies
        body   == [text |-> r.body, size |-> IF r.size > 0 THEN r.size ELSE Bytes(r.body)]
    IN  /\ Busy
        /\ spans' = Append(spans, Span(id, "client",
              IF shown THEN <<BodyAttributes("response", body, capture.config)>> ELSE <<>>,
              <<>>, <<>>))
        /\ truth' = [truth EXCEPT !.calls = @ + 1, !.texts = Append(@, r.body)]
        /\ UNCHANGED <<step, capture, pending, queue, written, failed, killed>>

\* The response to encode: a bridge's, or what a buffer of the application holds, whole.
Response(buffer) ==
    IF capture.response = Absent /\ capture.config.bodies /\ capture.config.buffer /\ buffer # <<>>
      THEN Kept(buffer, Bytes(buffer)) ELSE capture.response

ResponseHeaders(listed) == IF capture.headers = <<>> THEN listed ELSE capture.headers

Sided(side, body) == IF body = Absent THEN <<>> ELSE <<[side |-> side, body |-> body]>>

\* drain: the attributes of the root span and the bodies that do not fit in it.
Drained(duration, listed, buffer) ==
    LET config == capture.config
        kept   == Sided("request", capture.body) \o Sided("response", Response(buffer))
        maps   == <<capture.maps, ResponseHeaders(listed)>>
    IN  [bodies |-> FlattenSeq([i \in DOMAIN kept |-> StoredBody(kept[i].side, kept[i].body, config)]),
         root   |-> Span(0, "root",
                      [i \in DOMAIN kept |-> BodyAttributes(kept[i].side, kept[i].body, config)],
                      [i \in DOMAIN maps |-> Encoded(maps[i], config)],
                      PhaseJson(capture.phases, duration))]

Nothing == [bodies |-> <<>>, root |-> Span(0, "root", <<>>, <<>>, <<>>)]

EndRequest(duration, listed, buffer) ==
    /\ step = "open" /\ duration >= LastMark
    /\ LET drained == IF capture = Absent THEN Nothing ELSE Drained(duration, listed, buffer)
       IN  queue' =
             FlattenSeq([i \in DOMAIN drained.bodies |-> BodyDocuments(0, drained.bodies[i])])
             \o FlattenSeq([i \in DOMAIN pending |-> BodyDocuments(pending[i].owner, pending[i])])
             \o Batches(<<drained.root>> \o spans)
             \o Recorded(truth.exchange.items)
    /\ truth' = [truth EXCEPT
                   !.end = duration,
                   !.headers = IF @ = <<>> THEN listed ELSE @,
                   !.response = IF @ = Absent THEN buffer ELSE @]
    /\ step' = "writing" /\ capture' = Absent /\ spans' = <<>> /\ pending' = <<>>
    /\ UNCHANGED <<written, failed, killed>>

\* Mutant: what follows a failed write is given up.
WriteUntilError ==
    /\ step = "writing" /\ queue # <<>>
    /\ \/ written' = written \cup {Head(queue)} /\ queue' = Tail(queue) /\ UNCHANGED failed
       \/ /\ Cardinality(failed) < MaxFailures
          /\ failed' = failed \cup {Head(queue)} /\ queue' = <<>> /\ UNCHANGED written
    /\ UNCHANGED <<step, capture, spans, pending, killed, truth>>

\* write_atomic: every document is attempted, whatever became of the ones before it.
WriteDocument ==
    /\ step = "writing" /\ queue # <<>>
    /\ queue' = Tail(queue)
    /\ \/ written' = written \cup {Head(queue)} /\ UNCHANGED failed
       \/ /\ Cardinality(failed) < MaxFailures
          /\ failed' = failed \cup {Head(queue)} /\ UNCHANGED written
    /\ UNCHANGED <<step, capture, spans, pending, killed, truth>>

\* The process manager kills a worker that takes too long.
KillWorker ==
    /\ step = "writing" /\ queue # <<>>
    /\ killed' = TRUE /\ queue' = <<>> /\ step' = "over"
    /\ UNCHANGED <<capture, spans, pending, written, failed, truth>>

CloseRequest ==
    /\ step = "writing" /\ queue = <<>>
    /\ step' = "over"
    /\ UNCHANGED <<capture, spans, pending, queue, written, failed, killed, truth>>

CaptureNext ==
    \/ \E x \in Exchanges : OnRequestStart(x)
    \/ \E r \in Responses : SetResponse(r)
    \/ \E at \in 0..MaxTime : MarkPhase(at)
    \/ \E text \in Payloads : StoreBody(text)
    \/ \E r \in Outbound : CurlReturns(r)
    \/ \E duration \in 0..MaxTime, listed \in Listed, buffer \in Buffers :
          EndRequest(duration, listed, buffer)
    \/ WriteDocument \/ KillWorker \/ CloseRequest

CaptureSpec == CaptureInit /\ [][CaptureNext]_captureVars
============================================================================
