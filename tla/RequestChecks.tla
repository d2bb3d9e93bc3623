--------------------------- MODULE RequestChecks ---------------------------
(***************************************************************************)
(* What the documents of one process must say, whatever order PHP, the SDK *)
(* and the observer call in.  The last section holds statements of the     *)
(* source's own comments that the code does not keep.                      *)
(***************************************************************************)
EXTENDS Request

\* Evidence that names its own trace and span, whatever batch carries it.
Keyed == {"span", "stored", "body"}

Labels == Tags \cup {"trigger", "service", "outcome"}

\* The calls a document may report belong to the request it is stamped with.
Own(items, r) ==
    \A i \in items : i.what \notin Keyed \cup Labels \cup {"heartbeat"} => i.of = r

\* While a request is open, everything buffered that a flush would stamp with its
\* identity was made in it: the resets of start_request leave nothing behind.
BuffersAreOwn ==
    Active => /\ \A items \in {buf.bag, buf.window, buf.effects, buf.samples, buf.logs} :
                     Own(items, open.id)
              /\ buf.thrown \in {0, open.id}

\* Between two requests nothing is armed, so nothing is collected for nobody
\* (lib.rs, "Disarm for the gap between requests").
QuietInBetween ==
    /\ ~Active => ~buf.counting /\ ~buf.recording /\ ~buf.capturing
    /\ buf.sampling \/ buf.samples # {} => On("profiler")

\* The observer works on a clone of the context: what it puts on an outbound call
\* is what a bridge asking for the propagation headers would send.
ObserverAgrees == observed = [id |-> open.id, carried |-> open.carried]

\* Logs, counted calls, effects, samples, root attributes and the reported error
\* of a document were made in the request whose identity it carries.
OwnEvidenceOnly ==
    \A d \in DOMAIN spool : Own(spool[d].has, spool[d].of)

\* No request is open while PHP is down: RSHUTDOWN ends whatever the bridge left.
OpenOnlyWhileUp == Active => up

\* What is filed where: only evidence that names its own span waits in the span and
\* payload buffers, which an unsampled request may leave to the next start.
FiledByKind ==
    /\ \A i \in buf.spans \cup buf.bodies : i.what \in Keyed
    /\ \A i \in buf.labels : i.what \in Labels
    /\ publish # NoPublish => publish.what \in Keyed

\* The inductive invariant: every document is stamped rightly because every buffer
\* a flush reads is.
IInv ==
    /\ TypeOK
    /\ BuffersAreOwn /\ QuietInBetween /\ ObserverAgrees
    /\ OpenOnlyWhileUp /\ FiledByKind
    /\ OwnEvidenceOnly

\* body_spool.rs: "the .stored marker on a span can never be shipped ahead of the
\* bytes it promises", whichever request's batch the span ends up in.
NoPromiseWithoutBody ==
    \A d \in DOMAIN spool : \A i \in spool[d].has :
        i.what = "stored" =>
            \E b \in DOMAIN spool : b < d /\ It("body", i.of, i.n) \in spool[b].has

Carrying(item, r) == \E d \in DOMAIN spool : spool[d].of = r /\ item \in spool[d].has

HasTrace(docs, r) ==
    \E d \in DOMAIN docs : docs[d].of = r /\ It("root", r, 0) \in docs[d].has

Effect == {"effect", "exception"}

\* A request is flushed once, though its bridge, the delivery frame and RSHUTDOWN
\* may each end it.
OneTraceEach ==
    \A c, d \in DOMAIN spool :
        spool[c].kind = "spans" /\ spool[d].kind = "spans" /\ spool[c].of = spool[d].of
            => c = d

\* What the collector took while a request was open is in that request's documents
\* once it is over, however it was ended and whoever else called in between, and in one
\* batch of spans.
NothingAcceptedIsLost ==
    /\ OneTraceEach
    /\ \A m \in made :
          m.during # open.id /\ m.item.what \notin Effect \cup {"heartbeat", "directive"}
              => Carrying(m.item, m.during)

\* A request that is open keeps its trace, its verdict and what it propagates:
\* a bridge that starts it again, or a delivery, never takes them away.
IdentityIsFixed ==
    [][Active /\ open'.id # 0 =>
          /\ open'.id = open.id /\ open'.sampled = open.sampled
          /\ open.carried # Nothing => open'.carried = open.carried]_vars

\* A bridge brought a directive to request r when r was already open.
Redirected(r) == \E m \in made : m.item = It("directive", r, 0)

\* dst_spool.rs, "A capped recording can silently stop short": every effect of an
\* armed request is in its recording, unless a bridge repeats the directive, which
\* starts the recording over.
RecordingKeepsEveryEffect ==
    \A m \in made :
        m.during # open.id /\ m.item.what \in Effect /\ ~Redirected(m.during)
            => Carrying(m.item, m.during)

\* lib.rs, "a recording with no sampled request to hang off is an orphan": where traces
\* are kept, every profile is written with the trace of its request, and so is every
\* recording but one: that of a request which lost the rate roll before a bridge brought
\* it the directive, which then forces nothing (enrich_request).
EveryCaptureHasItsTrace ==
    [][\A d \in DOMAIN spool' \ DOMAIN spool :
          spool'[d].kind \in {"dst", "profile"} /\ On("apm")
            => \/ HasTrace(spool', spool'[d].of)
               \/ /\ spool'[d].kind = "dst" /\ spool'[d].of = open.id
                  /\ Redirected(open.id) /\ ~open.sampled]_vars
-----------------------------------------------------------------------------
\* lib.rs on chronos_profile_tag, "No-op when the request is not being profiled", and
\* sampler.rs on take_labels, "clearing them for the next request": a tag of the
\* application stays with the request it was set in.  Refuted while the profiler is off.
OwnLabelsOnly ==
    \A d \in DOMAIN spool : \A i \in spool[d].has :
        i.what \in Tags => i.of = spool[d].of
=============================================================================
