# Chronos PHP collector: models and proofs

TLA+ models of the Chronos PHP collector: the native extension (`src/native/src/`, Rust,
loaded into every PHP worker) and the SDK (`src/api/src/`, PHP, run by the application).
TLC checks the models on small instances; TLAPS proves the central invariants for every
value of the constants. `PROJECT.json` lists the runs, the mutants that show each property
can fail, the source lines behind each definition, the hazards and the theorems.

## 1. The system and its parts

A PHP worker (FPM child, CLI consumer, Octane or Swoole worker) is single-threaded and
lives for many requests. Three parties act in it, on the same thread, in orders nobody
fixes:

* **the engine**: RINIT / RSHUTDOWN, and the begin and end handlers of the Zend observer
  around every call;
* **the SDK**: bridges that start, enrich and end a request, open spans, stamp outgoing
  messages, and (in a replay) answer the application's effects from a recording;
* **a signal handler** (SIGPROF) that counts ticks.

Workers share nothing but a directory on a volume, the *spool*. An agent outside the
repository reads and deletes the spool's segments while they are being written.

| Component | State it keeps | Operations | What it talks to |
|---|---|---|---|
| Spool log `spool_log.rs` | `ACTIVE` descriptor and generation per process, drop counters; the directory | `append` → `open_active`, `rotate`, `enforce_segment_budget` | every `*_spool.rs` calls `append`; other workers and the agent through the directory |
| Request lifecycle `lib.rs`, `body_spool.rs`, `dst_spool.rs`, `log_spool.rs`, `request_attributes.rs` | thread-locals: open request, sampled bag, pending payloads, recording, logs, root attributes | `start_request`, `enrich_request`, the collecting calls, `end_request_full` | called by RINIT/RSHUTDOWN, by the bridges, and by the observer for deliveries; flushes to the spool |
| Zend observer `observer.rs` | `CONTEXT` (a clone), `SPANS`, `SPAN_STACK`, `CALL_FRAMES`, `DELIVERY_SCOPE`, `LAST_THROW` | begin/end trampolines, delivery begin/close | calls `start_request` / `end_request`, feeds the counted profile |
| The observer's banks `observer.rs`, `messaging.rs` | `PREPARED_STATEMENTS`, `CURL_HEADERS`, `CONSUMER_QUEUES`, `SUBSCRIBE_SIDS`, `MESSAGE_BANK`: what was learnt of an object, under its handle or digest | bank and evict on prepare, set option, subscribe, serialize; look up on execute, transfer, delivery, publish | observer's trampolines; cleared (some of them) with the request |
| Counted profile `deterministic.rs` | function and edge tables, caps, live depth | `on_enter`, `on_leave`, `record_edge`, `drain` | observer; drained by the flush |
| Spans of the observer `observer.rs`, `messaging.rs` | factory's verdicts and `POLICY_CACHE` per function, manifest and its generation, `SPANS` with its cap, the traceparents messages carry | factory, `observe_policy`, `begin_messaging_publish_*`, curl and stream calls, `on_end`, `chronos_trace_function`, `chronos_suppress_native` | broker clients through their arguments; the body spool; the flush |
| Sampler `sampler.rs` | `PENDING_TICKS`, drain clock, sample and label maps | signal handler, `consume_pending_ticks`, `on_request_start`, `record_io_wait`, `set_label` | observer's handlers, flush, SDK labels |
| HTTP capture `http_capture.rs` | `CAPTURE`: head, bodies, maps, marks of the open request | `on_request_start`, `set_response`, `mark_phase`, `encode_body`, `drain` | bridges, output buffers, curl; the entry span and the body spool |
| Documents `spool_common.rs`, `body_spool.rs`, `dst_spool.rs`, `deterministic_spool.rs` | what is still to be written | `truncate`, `split`, `write_chunked`, `flush`, the batches of spans | the flush; `spool_log::append` |
| SDK span stack `SpanManager.php`, `Span.php`, `NativeExtension.php` | static stack of spans, reservations held by messages | reset, open, detach, reserve, spend, complete | bridges; `chronos_record_span` |
| Bridges `Framework/*` | a middleware frame, message objects | start/end a request, publish (reserve, stamp, send, describe), consume | SDK, extension |
| Replay runtime `Replay/*` | recording (events, pairs, index), cursors, consumed set, lookups, divergences, outcome | boot, `resolve`, perform, abort, finish, settle | hooks and adapters that ask for an effect; report file, exit code |
| Settings, identity, VCS facts, rates, HTTP parsing, canonical forms | caches and pure functions | lookups, parsing | everything above |

### What is hard

* **Workers racing on one directory without a lock.** Every decision in `spool_log.rs`
  is made on a listing or a length that can be out of date.
* **Thread-locals that outlive requests.** About fifteen buffers must be reset, armed and
  disarmed in step; three callers may open the same request and four may close it.
* **Begin/end pairing.** The observer pushes a frame only while a request is open, the end
  handler pops unconditionally.
* **Promises on the wire.** An id leaves the process in a header before its span is
  recorded; a payload is announced by a marker before its bytes are written.
* **Answers that are cached.** The engine asks once per function whether to observe it,
  and a policy is cached per function; the manifest that decided can still grow.
* **A clock that ticks by itself.** The signal handler counts between any two steps, and
  the count is charged later, to a stack that is no longer the one that ran.
* **Documents in pieces.** A body or a recording leaves as several documents whose writes
  fail one by one, and the worker may die between two.
* **A replay that must not lie.** Nested performers, blocked and missing effects, scripts
  that exit in the middle, and shutdown functions that run after the verdict.
* **Names that are given again.** What is remembered of an object is keyed by a handle the
  engine reuses, and not every call that changes an object is seen.
* **Bounds.** Segments, bags, payload buffers, tables and edges have caps, and each cap
  has an edge where something is half done.

`PROJECT.json` lists the places under "hazards", each with the properties that watch it.

### What makes each part correct

* *Spool log*: a segment stays near its size limit and the directory near its budget
  whatever races; one file per name; a process's frames stay in order; what is lost adds up
  to what the processes counted, the agent took and `append` loses without counting; `append`
  returns.
* *Request*: a document carries evidence of its own request only; nothing collected is
  lost; one trace per request; a span never promises a payload that is not there; an open
  request keeps its identity.
* *Observer and counted profile*: frames are the calls of the window one for one; depth,
  self time, inclusive time, counts and edges say what happened; spans nest; the request a
  delivery opened ends with that delivery's call, and no call begun inside a request ends it.
* *Banks*: they may forget, they may not say of an object what is so of another: a text, a
  class, a queue or a header line is the right one or none; the maps keep their caps.
* *Spans of the observer*: a span that was named on the wire is recorded; the batch keeps
  its cap; the tree hangs together; a payload and the span that announces it leave
  together; no cache outlives the manifest it was made from.
* *Sampler*: every tick is charged once, to the request that ran; the wall windows tile
  the request; no wait is missed and an instrumented one is exact.
* *HTTP capture and documents*: a preview, a mark and a note never say more or less than
  what was kept; parts find each other; the phases tile the request.
* *SDK*: one trace on the stack, whatever is finished or kept, but for what the program
  itself puts under a span it kept; every announced id is handed over for recording once;
  only open spans are parents of spans whose caller names none.
* *Replay*: events answer once and in order; what was not performed is reported; invented
  answers are announced; the verdict is green only for a conformant run.

## 2. Plan

The order is that of the damage done when the part is wrong, and what it depends on.

| # | Modules | Composes | State |
|---|---|---|---|
| 1 | `FrameLog` (abstract), `SpoolLog`, `SpoolLogChecks` (with `Sums`), `SpoolProofs`, `MCSpoolLog` | workers × directory × agent | done |
| 2 | `Request`, `RequestChecks`, `RequestProofs`, `MCRequest` | engine × bridge × delivery, over all buffers | done |
| 3 | `ObserverFrames`, `ObserverFramesChecks` (with `Sums`), `ObserverFramesProofs`, `MCObserverFrames` | call stack × frame stack × counted profile × request window | done |
| 4 | `SpanStack`, `SpanStackChecks`, `SpanStackProofs`, `MCSpanStack` | SDK stack × messages × native batch × deliveries | done |
| 5 | `ReplaySession`, `ReplaySessionChecks`, `ReplaySessionProofs`, `MCReplaySession` | recording × policy × nested performers × shutdown | done |
| 6 | `Sampler`, `SamplerChecks` (with `Sums`), `SamplerProofs`, `MCSampler` | timer and signal × observer × flush | done |
| 7 | `HandleBanks`, `HandleBanksChecks`, `HandleBanksProofs`, `MCHandleBanks` | object store × observer's maps × requests and deliveries | done |
| 8 | `NativeSpans`, `NativeSpansChecks`, `NativeSpansProofs`, `MCNativeSpans` | engine's memory × policy cache × manifest × broker clients × body spool | done |
| 9 | `Documents` (operators, with `Sums`), `HttpCapture`, `HttpCaptureChecks`, `SpoolProofs`, `MCHttpCapture` | one request's exchange × flush × failing writes | done |
| 10 | the counted profile's document (rows, tiers), argument capture, fibers | counted profile × spool; engine × frame stack | planned |

Abstract specifications: `FrameLog` says what `append` promises (done). An abstract replay
(a partial order-preserving matching of lookups with events) is the next one worth
stating; `SessionInv` in `ReplaySessionProofs` is most of it.

Every invariant that a run checks, and every action property, is stated by a theorem now;
what stays with TLC is liveness (section 5). `SpoolProofs` has the theorems of both modules about the
spool, the log and the documents in it, which share no variable; the two have the laws of sums in common.

## 3. The modules and the code

Each component has its module, a `...Checks` module with the properties, an `MC...` module
and configurations for TLC, and a `...Proofs` module where something is proved. The
`\* Mutant:` operators in the modules are plausible bugs of the definition that follows
them; no action uses them.

### 3.1 SpoolLog

One action per system call, because any other worker and the agent may act between two:
`ScanActive` (`generations` as `open_active` calls it), `OpenActive`, `CreateFirst` and
`Rotate` (`create_segment`, an exclusive create), `Stat`, `BudgetScan`, `Measure` and
`RemoveVictim` of `enforce_segment_budget`, `Write`; `...Fails`, `WriteShort` and `Kill` for a
call that returns an error, a short write and a worker that dies. A failed `fstat`
(`StatFails`) is taken for length 0, as `unwrap_or(0)` does, so the worker writes to a segment
that may be full. The directory is a set of linked inodes with a generation; a descriptor stays valid after its
file is unlinked, as it does on a Unix file system. A worker's `pc` stands for the place in
`append` it is in. Frames have size 1, and remember who wrote them and as which append.
`history` is what no process counts: documents `append` gives up in silence (the
directory or the segment cannot be opened, the process dies in it), counters that died with
their process, files the agent retired, appends whose `fstat` failed.

The **agent** is external (nothing in `src/` implements it); it is modelled from
what the comments of `spool_log.rs` expect of it: it ships the frames of a segment in
order, takes the segments from the oldest up, and deletes a segment only when a newer
one exists (`AgentShip`, `AgentRetire`).

`FrameLog` is the promise: the fate of each append is decided once (stored, shipped,
lost, failed), a failed append never surfaces, and the frames of a worker are shipped in
order. `ImplementsFrameLog` reads a fate off the segments and the cursor of the agent.

### 3.2 Request

Evidence is a record (what it is, the request it was made in, a number). `open` is the
thread-local request, `buf` every buffer that a flush reads, `observed` the observer's
clone of the context, `spool` the sequence of documents written. A document has its kind,
the request it is stamped with, and what it carries. The actions are the callers:
RINIT, the bridge that starts or enriches, the observer's delivery, every collecting
call (spans, payloads, logs, effects, tags, attributes, samples, calls, throws), and
the ends (bridge, delivery frame, fatal-error net, RSHUTDOWN), each performing the whole of
`start_request`, `enrich_request` or `end_request_full` including the order in which it
clears, arms and flushes.

A *deployment* is the set of tiers that are on; it may differ from request to request
(per-virtual-host settings in one FPM pool). The sampling die and the DST directive are
choices. `RequestStartup` is RINIT, `BridgeStart` the bridge's start or enrichment
(`chronos_request_start`), `DeliveryBegin` the observer's; `RequestEnd`, `DeliveryEnd` and
`RequestShutdown` end the request, all through `End`.

### 3.3 ObserverFrames

`php` is PHP's call stack, `frames` is `CALL_FRAMES`; the clock ticks once per handler, so
a start time identifies a call. `Begin` and `End` are the trampolines: begin pushes only if
a request is open, end pops whatever is on top. `Deliver` is a begin that opens a request
and whose frame owns it; the bridge may open and close a request at any depth (`RequestStart`,
`RequestEnd`). The tables of `deterministic.rs` are functions with the two caps, its
arithmetic saturates as in the code (`Minus`). Variables `since`, `clean` and `begun` are
history: when the window opened, whether the frame stack was empty, how many calls began.
A frame left by an earlier request stays on the stack and may own a request that is over:
`End` of such a frame closes what is open, as the end handler does.

### 3.4 SpanStack

`stack` is `SpanManager`'s static stack, ids are numbered as they are minted, a request's
trace is its number. A message holds its reservation (Bunny, Messenger) or must read it
back from the payload (Laravel), which can fail. `told` says whether the SDK was told of
the open request: `BridgeStart` resets the stack, `NativeStart`, the observer's delivery,
does not. `Open`, `Child`, `OpenDetached`, `OpenAndPropagate`, `Finish` are what
applications and bridges do with spans; `handles` are the spans a caller was ever given, and
`Child` takes any of them as parent, finished, detached or of an earlier request, as
`Span::child()` does. `guests` is history: which entries of the stack came there under a parent
from outside it. `Stamp`, `Send`, `SendFails`, `Describe` are
the steps of a publish. `Keeps` is the cap of `chronos_record_span`. `Without` removes the
finished span from wherever it is on the stack, as `array_filter` by identity does; a span is on
the stack once at most, so it removes one entry by its index.

### 3.5 ReplaySession

The environment and the mounted recording are one `plan`, fixed for the behaviour. A
recorded event has a channel, a selector and a role; requests and answers stand both for
query/result and for HTTP request/response. `Bind` is the pairing of `Recording.php`,
`BootOrdinary`, `BootRefused`, `BootReplay` the branches of `ReplayRuntime::boot`. `resolve`
has its branches: blocked, hit, simulated, miss, and perform; a hooked builtin whose recorded
answer has no scalar calls the original, although its lookup says hit (`Hit`); a performer may make effects
of its own before it returns, so `waiting` is a stack. `Abort` finishes the session and
exits with 92; `ScriptEnds` may come at any time, also inside a performer; `Settle` is
the shutdown handler, and in the phase "after" later shutdown functions and destructors
meet a session that is finished.

### 3.6 HandleBanks

`heap` is the engine's object store and `subjects` the NATS subscriptions, which is what is
true; `statements`, `headers`, `queues`, `sids` and `messages` are the maps, which is what
the observer believes. `Drop` and `Create` give handles back and out again, and the observer sees
neither. Every call of the application either is in the observer's tables, and then has
the banking it performs (`Prepare`, `PrepareThis`, `CurlHeaders`, `CurlExec`, `Subscribe`,
`SubscribeNats`, `Serialize`, and `CurlHeadersFail`, a `curl_setopt` that sets nothing but
whose list was banked when it began), or is not, and then changes the object alone
(`PrepareUnseen`, `CurlReset`, `Cancel`). `told` is what the last call said from a map, and
of what: the text of an execute, the lines of a transfer, the route of a delivery that
ends, the class of a publish. `Forget` is what the two ends of a request clear; the maps of
the subscriptions outlive it.

### 3.7 NativeSpans

`Look` is the factory, asked once per function and remembered by the engine (`verdict`);
`Policy` is `cached_policy` with its generation, `ObservePolicy` what it would compute. A
call of an observed function is one of `CallPlain`, `CallSpan` (an allowlisted function, an
HTTP transfer whose id goes into a header, the manifest's), `CallPublish` and
`CallNatsSend` (one per way a library has of carrying headers: Bunny's array, amqplib's
message object, rdkafka's `producev`, NATS, none), `CallDeliver`. `End` is the end handler
with the keep rule and the cap, `RecordSpan` a span that userland records against the same
cap. `NewMessage` gives the application a message object that it may publish twice,
`SuppressNative` and `TraceFunction` are the two functions of that name. `context` has the
sampling verdict and whether the request is recorded; `depth` is the counter of the call
path. `Enrich` is a bridge that brings a directive to the open request: it arms the call
path, again if it was armed, and sets the depth to 0 under whatever is open. From then on the
depth counts the calls begun since; the calls of before leave without an entry, and
the counter saturates. `armedUnder`, `wire`, `shipped` and `lost` are history. Calls begin
anywhere, also inside a client's publish or transfer (a userland client library may call what
is observed); `Reentrant` bounds what TLC tries there, and `Outermost` names functions it tries on
an empty stack only. `RequestEnd` does not come from there. Requests open on an empty stack here; a
stack that is not empty is `ObserverFrames`' subject. A span that userland records hangs under
the root; which parent the SDK names is `SpanStack`'s subject. `Foreign` is a traceparent the
application set itself.

### 3.8 Sampler

Time and CPU run in units: `Compute` spends one unit of both and lets the timer tick
(`NoteTick` is the signal handler, which may run between any two other steps), `Block`
spends time only. Both may happen inside an instrumented wait, whose function may call others of the
program (a curl callback; `Callbacks` bounds which), but a request neither starts nor ends in
one. `Call` is the begin handler: it drains (`ConsumePendingTicks`,
`DrainSamples`, `SampleIdleWindows`) and pushes; `Return` measures an instrumented wait.
`OnRequestStart` and `OnRequestEnd` arm and disarm the timer; `StartKeepingTicks` is a
mutant, not an action. `truth` is history: what each request ran, waited and was blocked.

### 3.9 HttpCapture and Documents

`Documents` has the pure part: a text is a sequence of characters of one or two bytes;
`Cut` is `truncate`, `Split` the parts of a body, `Packed` the greedy packing that
`write_chunked` and the span batches share (`PutIn` puts in one item), with the sizes each of
them measures. Loops are recursive functions of the number of items that were looked at.
`HttpCapture` has the life of one request: settings to configuration (`Resolve`), start,
`SetResponse`, `MarkPhase`, `StoreBody`, `CurlReturns`, then `EndRequest`, which drains
everything into spans, attributes and documents in the order of `end_request_full`, and
`WriteDocument` with its failures, one document at a time, up to `CloseRequest` or `KillWorker`.
`StoreBody` is a publish, whose span previews its message and hands over the whole of it.
`Encoded` is `encode_map_masked`: `Offered` is what it does with one pair, `Take` inserts it, with
the name's bytes (`NameBytes`; names are never cut) and in place of the value a repeated name
had, and a pair that comes when the map is full is counted for the note.
`PhaseJson` is the phases (`FromStart` with the time before the first mark, `Drawn` what becomes of one).
The assumption `HttpCaptureData` says what data is: texts of characters, pairs of a name and a
text, items of a byte or more, for their comma, and no empty message, which
`chronos_store_span_body` would not store.

## 4. The runs

| Run | Instance | What it asks |
|---|---|---|
| `spool_faults` | 2 workers, 2 appends each, segments of 1 frame, budget of 1 segment, up to two failed calls (a failed `fstat` included), short writes or killed workers | bounds, accounting of every loss and the newest generation under every interleaving with the agent; the contract `FrameLog` |
| `spool_progress` | 2 appends each, no failures, fair workers | `append` returns; an excess over the budget is removed |
| `request_evidence` | 2 requests, 3 calls, each request under one of four deployments, directives allowed | nothing crosses or is lost, one document a request, promises, identity; recordings are complete where no bridge brought a directive to an open request; every profile has its trace, and every recording but one armed late in a request already left out of the sample |
| `request_labels` | default deployment | **violation**: a tag appears on the next request's counted profile |
| `frames_pairing` | 3 functions, tables of 2 functions and 2 edges, depth 4, 9 handler calls, 2 requests | pairing, depth and times, counts, nesting; which call ends a request, whatever is left on the stack |
| `handle_banks` | 2 handles, caps of 1, a ring of 2 classes and 3 identities, 3 requests, 6 calls | what is said from a map is said of the right object; caps |
| `span_promises` | 2 requests, 5 ids, stack of 3, batch of 2, 1 message pending | trace, promises, ids, parents, with children of any span that was ever handed out |
| `replay_session` | every database stream of up to 4 events under the default policy and both strictnesses; 4 scenes under every policy setting one or two variables, truncated, refused, absent; 3 calls | answers, findings, announcements, exit |
| `replay_live` | refused plans, 2 calls | **violation**: a refused replay performs the workload for real |
| `sampler` | 2 requests, a function that computes, a call that waits and may call the first, period 2, room for 3 samples, stacks of 2 cut to 1, 4 units of time | ticks, windows, waits and instrumented I/O add up |
| `native_spans` | 2 requests sampled or not, recorded from the start, later or not, 7 functions (one per role; NATS, a kept message object, no headers), 2 ids, 1 registration, room for 1 span and 1 body, nesting of 2 | promises, cap, tree, payloads, caches, depth |
| `http_capture` | 6 exchanges, bodies of up to 7 bytes over previews of 1 to 3, maps over their caps, with names of 1, 2 and 4 bytes and one that comes again, 2 marks kept, 1 payload, 3 events, 2 units of time, 1 failed write, death at any write | previews, parts, phases, notes |

### Bounds, and why they are enough

* *Spool log.* The decisions depend on "full or not", "over budget or not", "my descriptor
  is the newest or not", and on who moves first. Segments of one frame and a budget of one
  are full after every write; two workers give every stale pair of views; with two appends
  each a worker creates a generation and rotates to the next, and a dead one is overtaken.
  That a segment exceeds its limit by less than one frame per worker, and by one for each append
  whose `fstat` failed, is proved for any number of them.
* *Request.* The four deployments are everything, a recorder, no traces, and nothing: every
  tier is on in one and off in another. Leaks go from one request to the next, so two requests are enough; three
  collecting calls are enough to put one item in a buffer of the first, one in the second,
  and one in between. `MaxPending`, `MaxAttributes` and `MaxLabels` are reached.
* *Observer.* Nine handler calls allow a recursion of depth four with its ends, or a
  delivery inside a call with another request after it. Both caps are hit with three
  functions and a table of two.
* *Banks.* Two handles make every pair of an old owner and a new one, and a map that is
  full while another key is written; a ring of two with three identities fills and evicts.
  Six calls reach a handle that is used, dropped, created again and asked about, inside a
  request and across one. The theorems hold for any numbers.
* *Span stack.* Two requests (one told, one native) with five ids exhaust the batch, the
  stack and one message in flight over the change of requests.
* *Replay.* Four events are two interleaved pairs, or a pair with a lost and a stray
  answer; three calls reach a nested performer with a hit inside and one after it. The
  policy table is read per variable and per channel, so settings of two variables cover
  every combination of the cases it tells apart.

* *Sampler.* Four units of time at a period of two give a tick inside a window, one on its
  edge, one before the first drain and one across the change of requests. Three samples are
  one drain; the cap is met by the second.
* *Native spans.* One function per policy is all the observer tells apart (headers in an array, Bunny's
  and `producev`'s, are left to the theorems, which hold for any table of functions); one function
  is called inside a client's own call, at a nesting of two; two ids are a
  promise and a span below or beside it; a batch of one is full after the first span, a
  body store after the first payload. Two requests find what the first left (caches, kept
  messages, suppression). What no bound reaches, any number of them, is proved.
* *HTTP capture.* Bodies below, at and above preview, total and ceiling, with a wide
  character on the cut; a map below and above its entries and its bytes, the latter also by a long name that comes
  again; one mark more than is kept. One failed write and a death show every loss, because documents are written
  one by one and nothing is retried.

Deadlock is not checked where the workload is finite (appends, requests, clock, calls): the
system stops because its bounded input is used up. `spool_faults`
uses the symmetry of the workers, `sampler` that of requests, `handle_banks` that of handles, texts, queues, classes,
identities and ids, which nothing in the models tells apart; `spool_progress` does not,
as symmetry is unsound for liveness.

### Fairness

Only `SpoolLog` has liveness properties. `FairSpec` is weak fairness of each worker's next
step: the kernel goes on running a process that has a system call to make, and every call
returns. Nothing is assumed of the agent, of when requests arrive, or of which worker wins.
An `append` in the code has no timeout and no lock to wait for; what could keep it from
returning is `open_active` rescanning for ever, and `AppendReturns` says it does not: every
rescan is caused by progress of somebody else. Faults are off in this run because with a
failed unlink the excess stays until the next rotation (`BudgetRestored` is then false of
the code too).

### The two disagreements that are runs

* `request_labels` — labels are set by an ungated call and cleared only on the profiler's
  paths; with the profiler off and counted calls on (the default) they move on to the next
  request's counted profile.
* `replay_live` — after a refused discovery the prepended file returns and the script runs,
  while `Effect::resolve` answers null as if this were no replay.

Others are in section 7.

## 5. What is proved

All theorems are of `Spec` (`CaptureSpec` for `HttpCapture`), for every value of the constants that satisfies the named
assumptions (`ConstantsAssumption` in `SpoolLog`, `DocumentsConstants` in `Documents`,
`HttpCaptureConstants` and `HttpCaptureData` in `HttpCapture`, `RequestConstants` in `Request`,
`FrameConstants` in `ObserverFrames`, `SpanStackAssumption` in `SpanStack`, `BankAssumption`
in `HandleBanks`, `NativeSpansConstants` in `NativeSpans`, `ReplayAssumption` in
`ReplaySession`, `SamplerAssumption` in `Sampler`): any finite set of workers, any sizes, caps, tags, recordings, policies,
functions, numbers of requests, calls and failures. TLC evaluates the assumptions in every
run. The inductive invariants were first checked by TLC on the instances above, but for `CaptureInv`,
which quantifies over all sets of bodies and spans and which TLC cannot evaluate.

Four components add up quantities over sets (drops, charges, samples, bytes). `Sums` counts
instead of adding: what is summed is laid out in columns, and the sum is the number of
squares. So the laws of sums (a part, a term that grows, a disjoint union) follow from those of
cardinalities, without induction. Each proof module states the ones it needs.

**SpoolProofs, the log.** *Argument*: the type invariant is not inductive for the overshoot: a
worker may write to a full segment only when its view of the length is old, or when it has none. `IInv` adds
what a worker's view still guarantees: the newest generation is never older than one
that was created (`FilesReached`), the descriptor a worker holds at each point of `append`
is a file that was created (`WorkersHold`), what the budget is about to remove is older
than something that stays (`VictimsAreOld`), and a worker that has overshot a segment is not
on its way to write to it again (`NeverTwice`). From
`Init => IInv` and `IInv /\ [Next]_vars => IInv'`, proved conjunct by conjunct
(`FilesStep`, `WorkersStep`, `VictimsStep`, `NeverTwiceStep`, `OneOvershootStep`), follow
`TypeCorrect`, `OvershootOnce` (a worker that is told the length writes at most one frame to a
segment that is full), `BoundedSegments` (so a segment exceeds its limit by less than a frame per
worker and one per failed `fstat`, by counting the overshooting frames), `ExclusiveNames` and `NewestStays`.

That the log implements `FrameLog` (`ContractIsKept`) needs more than `IInv`: `FramesInv` says
that a document is in the log only once its append was entered, and not while it runs
(`Numbered`), that a worker's documents follow each other within its files and its files
in generations (`Ordered`), and that what a worker is about to write to is never older than
what it wrote (`NeverBack`). The agent ships the oldest generation first, so it ships each
process's documents in order; each step then settles the fate of one document
(`Becomes`), buries some that were waiting, or touches none. `BudgetHolds` bounds the directory by
what somebody is still to remove. `Claims` is the inductive form: for *any* set of workers
that hold a listing, what their listings leave of the excess is at most the number of the
other workers at work plus the failures. A worker whose listing was taken before others
created generations misses some, and those are in the listing of whoever created them.
Both theorems assume `Blind = {}`, that each worker can list the directory: one that
cannot begins at generation 1 again, behind its own frames, and finds nothing to remove.

That losses add up (`LossesAreAccounted`) ties the counters to what is lost, not to the steps
that count: on one side the counters of the processes, and what is known to escape them, which is
appends that give up without counting, counts that died with their process, and files the agent
retired; on the other the documents whose append is over and of which no file has a frame (`Refused`) and
the files without a name (`Removed`). A step takes a document into `Refused` (`EnteringRefuses`,
`LeavingRefuses`) or one file into `Removed` (`UnlinkRemovesOne`) or leaves both sides alone, and what several workers
try to remove at once is removed, and counted, by the one whose unlink succeeds.

**SpoolProofs, the documents.** *Argument*: the properties speak of what is on disk, which is
made in one step, `EndRequest`, of all that was kept before. So the invariant (`CaptureInv`, theorem
`CaptureKeeps`) has three cases. Nothing has begun (`Awaited`). The request is open (`Collected`): the
capture is a *function* of the history (`CaptureOf`: settings, last response, headers, the marks
that fit), each span tells of the text it was recorded with, and a pending message is the
text of the span that owns it. It has ended (`Delivered`): there is a row of documents of which
those written or failed are the first ones and the rest is queued, or lost with the worker (`Progress`),
and the row tells the truth (`EndsIn`): it is made of the parts of some bodies, one for
each side of a span, of batches of spans and of the recording; no span is before a body; each body is a
beginning of what the application had and is cut only at its limit (`KeptBody`); each attribute
agrees with its text and says stored exactly if its body is in the row (`Tells`, `Promised`).

The rest is what the loops compute, which is induction over data: each recursive function is
shown to exist and to keep an invariant of its loop by the least number of items for which it would
not. So a text is what is flattened from its parts, none is empty and none above the limit
(`Split`); what is packed is the items in their order, each document within the budget or a single
item (`Packed`); a map holds each name of the pairs before the first one left out with the last of its values, has counted
the others, and was below its bounds one pair earlier (`EncodedAdmits`); what is drawn of the phases up to a
mark tiles the time up to its end, each phase
under the last mark made by then (`DrawnBy`, `PhasesTile`). `Bytes` is a sum, so `Cut` is the longest
beginning within its limit and misses it by one byte at most. Theorems `PreviewsTellTheTruth`, `NumberedPartsReassemble`,
`PhasesTileTheRequest` and `MapsAdmitTheirLoss`: with any texts, settings, numbers of calls,
bounds and failures, and a death at any write.

**RequestProofs.** *Argument*: that every document carries its own request's evidence is
not inductive; it needs that every buffer a flush reads is the open request's
(`BuffersAreOwn`), that nothing is armed between requests (`QuietInBetween`), that the
observer's clone agrees (`ObserverAgrees`), that no request is open while PHP is down, and
that spans and payloads, which an unsampled request may leave behind, are the only things
that stay (`FiledByKind`). Theorems `Invariance`, `EvidenceStaysWithItsRequest` and the
action property `IdentityNeverMoves`.

That what a request accepts is in its documents once it is
over is not inductive. `FlushInv` adds where each piece waits while its request is open
(`Accounted`: `Waiting`, then `Delivered`), that what is armed was asked for by the deployment
and the verdict (`Armament`; a buffer that is not armed is thrown away), that each buffer
holds its own kind, so that nothing is overwritten or taken for a promise (`Sorted`),
that the payload of each promise is pending or on disk (`Promises`), and that a batch of
spans belongs to a request that is over and is the only one of it (`Stamped`). A step
collects (`Collects`), starts a request (`Starts`), ends one (`EndWrites`), or leaves
all this alone (`Idles`), and each kind is shown to keep the whole. Theorems
`EvidenceIsDelivered`, `PromisesFollowTheirBodies`, `RecordingsAreComplete` and
`CapturesHaveTheirTrace`: a recording is armed by the start, which then samples the request, or late by
a bridge, whose directive is on record, so the only recording without a trace is that of an unsampled
request with a late directive; a profile has its trace always. That no tag is called like a kind of evidence (in
`RequestConstants`) only says that label keys are a name space of their own.

**ObserverFramesProofs.** *Argument*: in a window that was opened on an empty frame stack
the frames are the suffix of PHP's stack that began since. At the opening there is nothing
to pair; a begin appends to both stacks, an end drops from both; no call began after "now",
which keeps the calls of before out of the next window (`Past`). Theorems `Invariance` and
`PairingHolds`.

Who ends a request is said of every window, with whatever frames were left on the stack. Its invariant
(`InsidePaired`, theorem `InsideInvariance`) counts from the top of the stacks: the calls begun since the
opening are the last ones and have the last frames, so a leftover frame is popped by a call of before
only. With it the frame of a delivery that opened the open request is popped by that delivery's
call, and no call begun inside the request pops a frame that owns one. Theorem
`DeliveriesEndTheirRequest`.

What the counted profile says rests on a second invariant, of clean windows (`WindowInv`, theorem
`WindowInvariance`). PHP's calls began one after the other (`Ascending`); the span stack is that
of the frames that emit spans (`SpansInv`); calls begun are calls in the table, refused
ones and open ones (`CountInv`). `Good` is about time: the live depth of a function is the
number of its counted frames (`Depths`), what a frame was charged for its calls was over before the
next frame began, for each and for all of them in a row (`Charges`, `Stretches`), self
times lie before the oldest frame or in those charges (`SelfTimes`), inclusive time lies
before each frame of its function (`InclusiveTimes`) and falls short of the self time only by what
the outermost frame and those above it were charged (`SelfAndInclusive`), and the edges into a
function have no more calls than have ended (`EdgeCalls`). Theorems
`TimesAreOfTheWindow`, `CountsAccountForCalls` and `SpansNestInWindow`.

**SpanStackProofs.** *Argument*: that an id is handed over once is not inductive. The ledger
says whose each id is: a root's, an open span's, a reservation's or a recorded span's, and of
one of them only (`Distinct`), all of them minted before now (`Numbered`), a header without a
reservation is that of a root (`Headers`), every announced id has somebody to answer for it
(`Announced`), and only a root can be handed over again (`Once`). The stack (`Stacked`) holds
open spans and roots, those of the open request if the SDK was told of it, and no id twice,
so that taking out the one that finishes leaves none of it. What is of another trace is in `guests`:
a span whose parent was not on the stack, or was a guest itself. Theorems `Invariance`,
`StackIsOfOneTrace`, `PromisesAreKept` and `ParentsAreOpen`.

**HandleBanksProofs.** *Argument*: what is said comes from a map, so the maps must agree
with the objects now under their keys, as far as an object can be asked about. A text that
is left under the handle of a freed statement is harmless because a new one is created
either without a text, or by a call that banks or evicts (`StatementsMatch`); a header list counts
only if it was set in the open request, whose tracking is still there (`HeadersMatch`); a
queue is overwritten by the subscription that reuses handle and tag (`QueuesMatch`), and the
channel of a delivery is alive while the delivery runs (`DeliveringChannelLives`); the ring has
every identity while it has not been full, which is a count of identities against its
length (`ClassesMatch`). Caps rest on `Capped` and `Record` (`CappedWithin`, `EvictWithin`,
`RecordWithin`). Theorems `Invariance` and `NamesAreTrue`.

**NativeSpansProofs.** *Argument*: whatever a caller does, a step is one of a few
(`Seen`, then `Pushes`, `PushesSpan`, `Opens`, `Closes`, `Pops`, `Records`), so each conjunct is
shown once per kind of step. A span named on the wire is kept because its frame knows:
a frame whose id is on the wire has an attribute, is exempt from the cap if it is a message's,
and belongs to the request that is open (`WireInv`); only the top frame is a client's own
call, and only a method with headers makes a frame exempt (`FrameInv`); what is not exempt is
under the cap (`BatchInv`). The policy of the cache is current because a generation is bumped by the call
that changes the manifest, and the factory gives up for good only what no manifest can
name. The tree (`TreeInv`): the ids of open spans rise with the stack and each hangs below an open
one or the root (`Ordered`, `Nested`); a recorded span hangs on the root, on an open or
recorded span or on one in `lost` (`Tied`), which is where an ending span goes that is not
recorded. The frame of a span has an attribute by the time it ends (`KeepInv`), so that the
keep rule takes none away. A pending payload belongs to a span that is open, recorded or lost, and what
says it is stored is pending (`Stocked`); at the end of the request both leave (`SentInv`). The depth is the number of
userland frames above the place where the recording was armed, at each step: a push is above it, and a pop
takes away one that was counted, or lowers the place when the counter is already 0. Theorems
`PromisesAreKept`, `BatchStaysBounded`,
`PoliciesAreCurrent`, `DepthIsCounted`, `TreesAreConnected` and `BodiesFollowTheirSpans`.

**SamplerProofs.** *Argument*: what was sampled is tied to what ran through the timer. While
a request is profiled the CPU it used is a whole number of periods less what the timer has
left (`ClockInv`), so the ticks charged are the periods completed but those still pending
(`Drained`, `CpuInv`). A drain ends a window or banks; the wall samples and the
bank together are the time since the first drain (`WindowsTile`, inductive as it stands). For
the waits three bounds are needed (`OffInv`): what ran before the first drain is less than
its ticks and one more, the ticks not yet banked ran within the open window, and the off-CPU samples
make up for the windows less the ticks in them. A request that is over keeps
what was shown of it (`PastInv`). Pushing is the same for every kind: a table that grew by
samples of different kinds adds to each its own (`Added`), all of it if there is room.
Theorems `Invariance`, `TicksAreChargedOnce`, `WindowsTileTheRequest`, `WaitsAreCounted` and
`IoIsMeasured`. `Complete`, room for another sample, is their only condition, and the bound of
the waits is the code's: a quantum, and the ticks it subtracts from a window they are not of.

**ReplaySessionProofs.** *Argument*: lookups and the calls of performers in flight hold
places (`Places`): a later step has a later ordinal of the same channel and selector, below the cursor, so
the events fetched are in order although a lookup is recorded only when its performer is
back. An event that could answer is consumed exactly if a lookup was answered by it
(`Answers`); while the session is open nothing is reported as unconsumed, and finishing
takes everything that is left, once (`Findings`); the exit status is the verdict's
(`Phases`). The pairing of answers with requests is a recursive function of the
recording (`Bind`). What it computes is proved by the least number of events for which it would
fail (`UpTo`, from the library's theorem on well-founded relations): after each event the
pairs are `Fair`, each request took the first answer that was left, answers follow the
order of their requests, and a request without one found every later one taken. Theorems
`EventsAnswerOnce`, `AnswersComeInOrder`, `NothingIsEverForgotten`,
`InventionsAreAnnounced` and `GreenIsConformant`. The assumption that an effect on the clock
is a read is what `Effect::time()` does; a custom effect on the channel "time" with the intent to
write would get around the downgrade of a simulated clock.

**Only model-checked.** Liveness, which is out of the prover's reach: `AppendReturns` and
`BudgetRestored`. The two runs that expect a violation show a behaviour, and need no proof.

## 6. What is not modelled, and why

* *Spool log*: log lines and their latches. Durability (the code does not fsync).
* *Request*: `chronos_set_app_metadata` (one assignment) and argument capture. Marks are in
  `HttpCapture`, suppression and the manifest in `NativeSpans`. Writes succeed
  here, since `SpoolLog` and `HttpCapture` cover failing ones. A worker killed inside a
  request loses it; so does the code. Deliveries do not nest.
* *Observer*: what handlers read off arguments, route labels, the rows and tiers of the counted
  profile, and PHP fibers (one frame stack serves them all: a hazard with a note).
* *Native spans*: the minimum duration (it never applies, see section 7), names and
  attributes of spans beyond what decides whether they are kept.
* *Payloads of a delivery's span, and two under one key*: `chronos_store_span_body` takes its ids from the
  caller, empty ones meaning the root (`lib.rs:1613-1622`), and consume payloads are stored so (`observer.rs:3327`
  and its like). No call path was found that stores two payloads under one key in one request, and
  `HttpCapture` gives each one a span of its own.
* *Banks*: `tracestate` and `baggage` lines, and a bridge that ends the request inside a
  delivery (see `Request`).
* *Sampler*: names of frames, the memory of a sample, and a signal inside the handler itself
  (it is blocked). Only SIGPROF's own handler runs concurrently with the program. A request that starts or
  ends (an `exit`) inside an instrumented wait.
* *HTTP capture*: how `$_SERVER` and its like are parsed, the JSON text, the contents of
  the mask list.
* *Spool, settings*: a ceiling on bodies that an operator sets, and base64 of bodies that are not
  UTF-8, which changes sizes by a factor.
* *SDK*: what a span carries, the pure-PHP buffer used without the extension, the sampled
  flag, and headers the application set itself.
* *Replay*: digests and integrity checks one by one, the call-path fragment, the queue,
  file, cache and custom channels (they differ by the policy variable only), a report that
  cannot be written. `exit()` inside a hook is taken to end the script.
* *Not at all*: settings, identity and VCS lookups (cached reads), rates (floating point),
  values of HTTP fields, SDK formatters, canonical forms, DTOs, build files. `PROJECT.json` gives
  the reason for each.

## 7. Seen while modelling, not a run

* `open_active` takes a refused `read_dir` for an empty directory and then fails to create
  generation 1 for ever: the constant `Blind` makes a worker such a one, and TLC then
  refutes `AppendReturns`.
* `RecordingKeepsEveryEffect` excepts the requests to which a bridge brought a directive while
  they were open (`Redirected`), for a directive repeated wipes the recording (`dst_spool.rs:88`).
  `EveryCaptureHasItsTrace` admits one recording without a trace, that of a request which the rate
  roll had left out when the directive came (`lib.rs:668`). Without these TLC refutes both.
* A directive that arms a recording late sets the depth of the call path to 0 under open calls
  (`dst_spool.rs:93`): the events tell depths from there, and calls that were open saturate. A
  reader who takes the depth for that of the request is wrong by the calls of before.
* The heartbeat is captured into the log buffer by the same call of `start_request` that
  clears the buffer ninety lines later.
* The span stack survives the end of its request, so `reserve()` gives ids away between two
  requests; and a delivery opened by the observer never resets it, so the spans of later
  deliveries carry the first one's trace when the bridge stands down (`observer.rs:3115`). `OneTraceOnTheStack`
  therefore names the trace only in requests the SDK was told of; in the others it says that there is
  one, and does not flag an older request's.
* `child()` takes any span object (`Span.php:197`, `SpanManager.php:104`): a child of a finished or
  detached span is opened all the same, and one of an earlier request's span puts that
  trace on the stack, where everything opened after it inherits it. `OneTraceOnTheStack` leaves out what came
  there so and `OnlyOpenSpansAreParents` speaks of parents the caller did not name.
* The synthetic root that `active()` hands out is never finished (`RichTelemetryHooks.php:832`). Ids that the
  extension refuses, or that could not be read back from a payload, count as kept promises in `PromiseKept`.
* A delivery whose handler ends its request and opens another through the bridge closes that one when
  it returns, since the end handler closes whatever is open (`observer.rs:1925`). `EndsWithItsOpener` admits it: the
  call began before the request.
* `curl_setopt` banks its list before it runs (`observer.rs:4535`); one that throws or fails leaves a list
  that the handle does not have, and the next transfer sends it with the traceparent.
* A hooked builtin whose recorded answer is not a scalar calls the original (`replay_hooks.rs:187-211`,
  248-252), while the report says hit.
* A performer that is cut off by `exit` leaves a real effect that no lookup or finding
  mentions.
* Where `NothingFalseIsSaid` has a condition, TLC refutes it without: `mysqli_stmt_prepare`
  is in no table and leaves the text of the statement before; a subscription with a
  server-named queue, or whose answer is a promise, leaves the queue of the one that had its
  handle and tag before, though the comment of `MAX_CONSUMER_QUEUES` says a
  re-subscribe never does; an identity that the ring has evicted is no longer known to be
  shared by two classes; a call after the request ended sends the traceparent
  it left on the handle, and lines left over by a freed handle go out on another transfer.
* The subscription maps refuse new keys when full and nothing removes the dead, so a worker
  that subscribes often enough falls back to routing keys for good.
* `log_spool.rs:100` cuts a message at a byte offset that may be inside a character.
* `DROPPED_FRAMES` counts one per segment removed, though `dropped()` is documented in
  frames "by any path" (`spool_log.rs:129-130`). A document refused because the directory or the segment
  cannot be opened is in no counter (339-352), though "every drop increments `dropped`" (32-33); the report
  of the failure prints the counter without it. `LossesAddUp` names these losses.
* A failed `fstat` is taken for an empty segment (`spool_log.rs:347`), so such a worker goes on writing to a full one.

*Spool and documents*

* `open_active` and `rotate` create the generation after the one they saw. From a stale
  listing that is a generation the agent has already shipped and retired, and a frame
  written there is behind its cursor, although the code says it rescans "rather than recreate a
  generation the reader has already finished with". `NewestNeverRetreats` and `FrameLog`
  are stated of what does hold: such a frame is lost, not shipped out of order.
* `write_chunked` says "each under `max_body_bytes`"; a document that is split exceeds it by
  its chunk block and the digits of a count that is measured as 0. All parts of a group carry one `messageId`,
  while `job_spool.rs` (82-84) relies on
  a transport that deduplicates on that field. A `.log` document is never split.
* `job_spool.rs` (72-75) wants one marker to have the same bytes each time; `startedAt` is the
  time of the write.
* `spool.rs` (35-37) puts the identity "on the ROOT span only"; each batch of one request puts it
  on its own first span.

*HTTP capture*

* `encode_body` returns `http.response.body.stored = true` for an outbound body that
  overflows its preview and drops the body; the comment of `body_attributes` says `.stored`
  means "there is more, and it is retrievable". `PreviewTells` leaves outbound bodies out of
  its last clause for this reason.
* A body found in an output buffer is not cut to the total the way a bridge's is. A cookie
  or query name that comes twice has its first value overwritten (`http_capture.rs:642`) and no note tells, although
  the note is there "so a reader never mistakes a bounded map for a complete one" (14-17); its bytes
  are counted twice, so that one name can fill the map. A parameter named `chronos.dropped` collides with the note. Marks
  past the limit are ignored without a note, so that the last phase kept runs to the end.

*Sampler*

* CPU time banked before the first drain is subtracted from the first window, whose wall time
  begins with that drain: its off-CPU time is too small (`sampler.rs:13` and 331 say
  that the CPU is that of the same window). The cap on samples is one buffer for all kinds.

*Spans of the observer*

* The end handler pops unconditionally and the frame stack is not cleared with its request: a frame
  left by a request that closed inside a call is popped by a call of the next request. This is why
  `FramesPaired` and its like are stated of windows opened on an empty stack (`clean`).
* `inject_curl_traceparent` takes a handle it has not tracked for one without
  headers, and sets the list it knows on it.
* Every span has an attribute, so the minimum duration of the keep rule never applies.
  `kept_child` is set on the frame directly below, also when that one emits no span, and
  the span above it stays ignorant; a function of the manifest inside which the request
  ends leaves children without a parent. `TreeIsConnected` is conditioned accordingly.
* A publish is exempt from the span cap because its id is on the wire; so is the id in a curl header, which
  is not exempt. `PromiseIsKept` says so for publishes and for curl under the cap.
* `observe_policy` "never returns `None` for a plain userland function", but does for the
  prefixes it skips and for autoloaders when `SPAN_ALL_USERLAND` is set. Functions that share a recycled
  handle (closures) share the policy of the first.
* A message object published twice (amqplib, NATS) keeps the traceparent and the stamp of
  the first publish.
* `PENDING_TRACEPARENT` is written by `inject_curl_traceparent` alone and cleared by no request
  boundary, so a bridge that asks late (`src/api/src/Service/NativeExtension.php:849`) is given an id of
  an earlier transfer or request.

*Settings* (not modelled)

* `first_validated` asks each name in all tiers before the next, so a `team_id` in `.chronos`
  wins over `CHRONOS_PHP_PROJECT` in the environment.

## 8. Running it

    tlasany M.tla                              parse
    tlc -workers 2 -config X.cfg MCModule.tla  one run; PROJECT.json names module and cfg
    tlapm SpoolProofs.tla                      the proofs of one
