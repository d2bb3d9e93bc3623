--------------------------- MODULE RequestProofs ---------------------------
(***************************************************************************)
(* Every request of a process keeps its evidence to itself, and delivers   *)
(* all of it, for every set of deployments, every bound and any number of  *)
(* requests and calls.                                                     *)
(***************************************************************************)
EXTENDS RequestChecks, TLAPS

\* A bounded map holds what it held, and at most the new entry besides.
LEMMA PutWithin ==
    ASSUME NEW map, NEW limit, NEW item
    PROVE  Put(map, limit, item) \subseteq map \cup {item}
  BY DEF Put

\* Evidence of one request stays evidence of that request when it is put together
\* or picked from.
LEMMA OwnUnion ==
    ASSUME NEW r, NEW A, NEW B, Own(A, r), Own(B, r)
    PROVE  Own(A \cup B, r)
  BY DEF Own

\* A part of what belongs to a request belongs to it.
LEMMA OwnSubset ==
    ASSUME NEW r, NEW A, NEW B, A \subseteq B, Own(B, r)
    PROVE  Own(A, r)
  BY DEF Own

\* A piece of evidence belongs to the request it was made in.
LEMMA OwnItem ==
    ASSUME NEW w, NEW r, NEW k
    PROVE  Own({It(w, r, k)}, r)
  BY DEF Own, It

\* An empty buffer belongs to any request: what a reset leaves.
LEMMA OwnNothing == ASSUME NEW r PROVE Own({}, r)
  BY DEF Own

\* Evidence that names its own span, and labels, may ride in any document.
LEMMA OwnExempt ==
    ASSUME NEW r, NEW A, \A i \in A : i.what \in Keyed \cup Labels
    PROVE  Own(A, r)
  BY DEF Own

\* Evidence put together from its parts is well formed.
LEMMA ItIsItem ==
    ASSUME NEW w \in What, NEW r \in Nat, NEW k \in Nat
    PROVE  It(w, r, k) \in Item
  BY DEF It, Item

\* Documents that are typed, and stamped with the request their evidence is of.
OwnDocs(s) == s \in Seq(Doc) /\ \A d \in DOMAIN s : Own(s[d].has, s[d].of)

\* A flush writes at most one document, stamped with the request's identity.
LEMMA DocumentIsOwn ==
    ASSUME NEW kind \in Kinds, NEW r \in Nat, NEW has \in SUBSET Item, Own(has, r)
    PROVE  OwnDocs(D(kind, r, has))
<1> DEFINE doc == [kind |-> kind, of |-> r, has |-> has]
<1>1. doc \in Doc /\ doc.has = has /\ doc.of = r
  BY DEF Doc
<1> HIDE DEF doc
<1>2. OwnDocs(<<doc>>)
  BY <1>1 DEF OwnDocs
<1>3. OwnDocs(<<>>)
  BY DEF OwnDocs
<1>4. D(kind, r, has) = IF has = {} THEN <<>> ELSE <<doc>>
  BY DEF D, doc
<1>5. QED
  BY <1>2, <1>3, <1>4

\* One flush after another.
LEMMA DocumentsAreOwn ==
    ASSUME NEW s, NEW t, OwnDocs(s), OwnDocs(t)
    PROVE  OwnDocs(s \o t)
<1>1. s \o t \in Seq(Doc) /\ Len(s \o t) = Len(s) + Len(t)
  BY DEF OwnDocs
<1>2. ASSUME NEW d \in DOMAIN (s \o t)
      PROVE  Own((s \o t)[d].has, (s \o t)[d].of)
  <2>1. CASE d \in 1..Len(s)
    BY <2>1 DEF OwnDocs
  <2>2. CASE d \notin 1..Len(s)
    <3>1. d - Len(s) \in 1..Len(t) /\ (s \o t)[d] = t[d - Len(s)]
      BY <1>1, <2>2 DEF OwnDocs
    <3>2. QED
      BY <3>1 DEF OwnDocs
  <2>3. QED
    BY <2>1, <2>2
<1>3. QED
  BY <1>1, <1>2 DEF OwnDocs

\* A flush that writes nothing writes nothing wrong.
LEMMA NoDocuments == OwnDocs(<<>>)
  BY DEF OwnDocs
-----------------------------------------------------------------------------
\* What the invariant says of buffers b while the request o is open.
Clean(b, o) ==
    /\ b \in Buffers
    /\ o.id # 0 => /\ \A items \in {b.bag, b.window, b.effects, b.samples, b.logs} :
                          Own(items, o.id)
                   /\ b.thrown \in {0, o.id}
    /\ o.id = 0 => ~b.counting /\ ~b.recording /\ ~b.capturing
    /\ b.sampling \/ b.samples # {} => o.id # 0 /\ "profiler" \in o.cfg
    /\ \A i \in b.spans \cup b.bodies : i.what \in Keyed
    /\ \A i \in b.labels : i.what \in Labels

\* A request as start_request leaves it in the thread-locals.
Opened == [id : Nat, cfg : SUBSET Signals, sampled : BOOLEAN, carried : Baggage]

\* The state after a request was taken is one the variable may hold.
LEMMA ClosedIsOpened == Closed \in Opened
<1>1. {} \in SUBSET Signals /\ 0 \in Nat /\ FALSE \in BOOLEAN /\ "nothing" \in Baggage
  BY DEF Baggage
<1>2. QED
  BY <1>1, Zenon DEF Closed, Opened, Nothing

\* The invariant in the shape the steps establish it: the buffers, the documents,
\* the two copies of the context and the rest.
Shaped ==
    /\ up \in BOOLEAN /\ announced \in BOOLEAN /\ delivering \in BOOLEAN
    /\ started \in Nat /\ calls \in Nat
    /\ open \in Opened
    /\ observed = [id |-> open.id, carried |-> open.carried]
    /\ Clean(buf, open)
    /\ publish \in Item
    /\ publish # NoPublish => publish.what \in Keyed
    /\ OwnDocs(spool)
    /\ made \in SUBSET [item : Item, during : Nat]
    /\ open.id # 0 => up

\* The invariant, regrouped so that each action has one formula per buffer to keep.
LEMMA Shape == (IInv => Shaped) /\ (Shaped => IInv)
<1>1. Clean(buf, open) <=>
         /\ buf \in Buffers /\ BuffersAreOwn /\ QuietInBetween
         /\ \A i \in buf.spans \cup buf.bodies : i.what \in Keyed
         /\ \A i \in buf.labels : i.what \in Labels
  BY DEF Clean, BuffersAreOwn, QuietInBetween, Active, On
<1>2. OwnDocs(spool) <=> spool \in Seq(Doc) /\ OwnEvidenceOnly
  BY DEF OwnDocs, OwnEvidenceOnly
<1>3. open \in Opened /\ ObserverAgrees => observed \in [id : Nat, carried : Baggage]
  BY DEF Opened, ObserverAgrees
<1>4. TypeOK <=> /\ up \in BOOLEAN /\ announced \in BOOLEAN /\ delivering \in BOOLEAN
                 /\ started \in Nat /\ calls \in Nat
                 /\ open \in Opened
                 /\ observed \in [id : Nat, carried : Baggage]
                 /\ buf \in Buffers
                 /\ publish \in Item
                 /\ spool \in Seq(Doc)
                 /\ made \in SUBSET [item : Item, during : Nat]
  BY DEF TypeOK, Opened
<1>5. ASSUME IInv PROVE Shaped
  BY <1>1, <1>2, <1>4, <1>5
     DEF IInv, Shaped, ObserverAgrees, OpenOnlyWhileUp, FiledByKind, Active
<1>6. ASSUME Shaped PROVE IInv
  <2>1. ObserverAgrees /\ OpenOnlyWhileUp
    BY <1>6 DEF Shaped, ObserverAgrees, OpenOnlyWhileUp, Active
  <2>2. FiledByKind
    BY <1>6, <1>1 DEF Shaped, FiledByKind
  <2>3. TypeOK
    BY <1>6, <1>1, <1>2, <1>3, <1>4, <2>1 DEF Shaped
  <2>4. QED
    BY <1>6, <1>1, <1>2, <2>1, <2>2, <2>3 DEF Shaped, IInv
<1>7. QED
  BY <1>5, <1>6

\* A process starts with nothing open, armed or buffered.
THEOREM InitIInv == Init => IInv
<1> SUFFICES ASSUME Init PROVE IInv
  OBVIOUS
<1>1. open \in Opened /\ publish \in Item
  BY ClosedIsOpened, ItIsItem DEF Init, NoPublish, What, Evidence
<1>2. Clean(buf, open)
  <2>1. /\ {} \in SUBSET Item /\ 0 \in Nat /\ FALSE \in BOOLEAN
    OBVIOUS
  <2>2. buf \in Buffers
    BY <2>1, Zenon DEF Init, Buffers
  <2>3. QED
    BY <2>2 DEF Init, Clean, Closed
<1>3. OwnDocs(spool)
  BY NoDocuments DEF Init
<1>4. observed = [id |-> open.id, carried |-> open.carried]
  BY DEF Init, Closed, Unobserved
<1>5. QED
  BY <1>1, <1>2, <1>3, <1>4, Shape DEF Init, Closed, Shaped
-----------------------------------------------------------------------------
(* What each operation does to the buffers. *)

\* A bounded map of evidence stays one (request_attributes merge, set_label).
LEMMA PutTyped ==
    ASSUME NEW map \in SUBSET Item, NEW limit, NEW item \in Item
    PROVE  Put(map, limit, item) \in SUBSET Item
  BY PutWithin

\* The label map holds labels only.
LEMMA LabelFiled ==
    ASSUME NEW map \in SUBSET Item, \A i \in map : i.what \in Labels,
           NEW w \in What \cap Labels, NEW r \in Nat
    PROVE  /\ Label(map, It(w, r, 0)) \in SUBSET Item
           /\ \A i \in Label(map, It(w, r, 0)) : i.what \in Labels
<1>1. It(w, r, 0) \in Item /\ It(w, r, 0).what \in Labels
  BY ItIsItem DEF It
<1>2. QED
  BY <1>1, PutWithin, PutTyped DEF Label

\* Attributes merged into a request's bag leave it that request's.
LEMMA MergeOwn ==
    ASSUME NEW bag \in SUBSET Item, NEW r \in Nat, Own(bag, r),
           NEW w \in What, NEW k \in Nat
    PROVE  /\ Merge(bag, It(w, r, k)) \in SUBSET Item
           /\ Own(Merge(bag, It(w, r, k)), r)
<1>1. It(w, r, k) \in Item
  BY ItIsItem
<1>2. Own(bag \cup {It(w, r, k)}, r)
  BY OwnItem, OwnUnion
<1>3. Merge(bag, It(w, r, k)) \subseteq bag \cup {It(w, r, k)}
  BY PutWithin DEF Merge
<1>4. QED
  BY <1>1, <1>2, <1>3, OwnSubset

\* start_request leaves buffers that are clean for the request it opens.
LEMMA ClearedClean ==
    ASSUME NEW old, Clean(old, Closed),
           NEW now \in Opened, now.id # 0,
           NEW sampled \in BOOLEAN, NEW armed \in BOOLEAN, NEW profiled \in BOOLEAN,
           profiled => "profiler" \in now.cfg
    PROVE  Clean(Cleared(old, now.id, now.cfg, sampled, armed, profiled), now)
<1> DEFINE r == now.id
           cfg == now.cfg
           arms == profiled /\ "stacks" \in cfg
           new == Cleared(old, r, cfg, sampled, armed, profiled)
           labels == IF arms THEN Label({It("trigger", r, 0)}, It("service", r, 0))
                     ELSE old.labels
<1>1. /\ old \in Buffers /\ ~old.sampling /\ old.samples = {}
      /\ \A i \in old.labels : i.what \in Labels
  BY DEF Clean, Closed
<1>2. r \in Nat /\ cfg \in SUBSET Signals
  BY DEF Opened
<1>3. labels \in SUBSET Item /\ \A i \in labels : i.what \in Labels
  <2>1. It("trigger", r, 0) \in Item /\ It("trigger", r, 0).what \in Labels
    BY <1>2, ItIsItem DEF It, What, Evidence, Labels
  <2>2. {"service"} \subseteq What \cap Labels
    BY DEF What, Evidence, Labels
  <2>3. old.labels \in SUBSET Item
    BY <1>1 DEF Buffers
  <2>4. QED
    BY <1>1, <1>2, <2>1, <2>2, <2>3, LabelFiled
<1>4. new = [spans |-> {}, bodies |-> {}, logs |-> {}, bag |-> {}, labels |-> labels,
             sampling |-> arms \/ old.sampling, samples |-> {},
             counting |-> "counted" \in cfg, window |-> {},
             recording |-> armed, effects |-> {},
             capturing |-> "apm" \in cfg /\ sampled, held |-> FALSE, thrown |-> 0]
  BY <1>1 DEF Cleared, LogsAtStart, ThrownAtStart
<1>5. new \in Buffers
  <2>1. /\ {} \in SUBSET Item /\ 0 \in Nat /\ FALSE \in BOOLEAN
        /\ (arms \/ old.sampling) \in BOOLEAN /\ ("counted" \in cfg) \in BOOLEAN
        /\ ("apm" \in cfg /\ sampled) \in BOOLEAN
    OBVIOUS
  <2> HIDE DEF arms, labels, cfg, new
  <2>2. QED
    BY <1>3, <1>4, <2>1, Zenon DEF Buffers
<1> HIDE DEF labels, new
<1>6. QED
  BY <1>1, <1>3, <1>4, <1>5, OwnNothing DEF Clean, new

\* One more item in the bag, a payload, a span, a label.
LEMMA BagClean ==
    ASSUME NEW b, NEW o \in Opened, o.id # 0, Clean(b, o),
           NEW w \in What, NEW k \in Nat
    PROVE  Clean([b EXCEPT !.bag = Merge(@, It(w, o.id, k))], o)
<1> DEFINE bag == Merge(b.bag, It(w, o.id, k))
<1>1. bag \in SUBSET Item /\ Own(bag, o.id)
  BY MergeOwn DEF Clean, Buffers, Opened
<1> HIDE DEF bag
<1>2. Clean([b EXCEPT !.bag = bag], o)
  BY <1>1 DEF Clean, Buffers
<1>3. QED
  BY <1>2 DEF bag

\* Taking a payload disturbs no buffer a flush stamps.
LEMMA BodiesClean ==
    ASSUME NEW b, NEW o, Clean(b, o),
           NEW new \in SUBSET Item, \A i \in new : i.what \in Keyed
    PROVE  Clean([b EXCEPT !.bodies = @ \cup new], o)
  BY DEF Clean, Buffers

\* Recording a span disturbs no buffer a flush stamps.
LEMMA SpansClean ==
    ASSUME NEW b, NEW o, Clean(b, o),
           NEW new \in SUBSET Item, \A i \in new : i.what \in Keyed
    PROVE  Clean([b EXCEPT !.spans = @ \cup new], o)
  BY DEF Clean, Buffers

\* Setting a label disturbs no buffer a flush stamps.
LEMMA LabelsClean ==
    ASSUME NEW b, NEW o \in Opened, Clean(b, o), NEW w \in What \cap Labels
    PROVE  Clean([b EXCEPT !.labels = Label(@, It(w, o.id, 0))], o)
<1> DEFINE labels == Label(b.labels, It(w, o.id, 0))
<1>1. labels \in SUBSET Item /\ \A i \in labels : i.what \in Labels
  BY LabelFiled DEF Clean, Buffers, Opened
<1> HIDE DEF labels
<1>2. Clean([b EXCEPT !.labels = labels], o)
  BY <1>1 DEF Clean, Buffers
<1>3. QED
  BY <1>2 DEF labels

\* The caller of start_request adds to the bag and to the payloads.
LEMMA BroughtClean ==
    ASSUME NEW b, NEW now \in Opened, now.id # 0, Clean(b, now),
           NEW with \in {"nothing", "origin", "facts", "message"}
    PROVE  Clean(Brought(now, b, with), now)
<1>1. CASE with = "nothing"
  BY <1>1 DEF Brought
<1>2. CASE with = "origin"
  BY <1>2, BagClean DEF Brought, What, Evidence
<1>3. CASE with \in {"facts", "message"}
  <2> DEFINE taken == with = "message" /\ Storable(now, b)
             body == It("body", now.id, Message)
             kept == [b EXCEPT !.bodies = @ \cup (IF taken THEN {body} ELSE {})]
             facts == [kept EXCEPT !.bag = Merge(@, It("consume", now.id, 0))]
             stored == [facts EXCEPT !.bag = Merge(@, It("stored", now.id, Message))]
  <2>1. body \in Item /\ body.what \in Keyed
    BY ItIsItem DEF Opened, What, Evidence, It, Keyed, Message
  <2>2. Clean(kept, now)
    <3>1. (IF taken THEN {body} ELSE {}) \in SUBSET Item
      BY <2>1
    <3>2. \A i \in (IF taken THEN {body} ELSE {}) : i.what \in Keyed
      BY <2>1
    <3> HIDE DEF taken, body
    <3>3. QED
      BY <3>1, <3>2, BodiesClean
  <2>3. Clean(facts, now)
    BY <2>2, BagClean DEF What, Evidence
  <2>4. Clean(stored, now)
    BY <2>3, BagClean DEF What, Evidence, Message
  <2>5. Brought(now, b, with) = IF taken THEN stored ELSE facts
    BY <1>3 DEF Brought, Promised, Clean, Buffers
  <2>6. QED
    BY <2>3, <2>4, <2>5
<1>4. QED
  BY <1>1, <1>2, <1>3
-----------------------------------------------------------------------------
(* The operations. *)

\* What the properties note of accepted evidence is well formed.
LEMMA NotedTyped ==
    ASSUME NEW now \in Opened, NEW traced \in SUBSET Item, NEW others \in SUBSET Item
    PROVE  Noted(now, traced, others) \in SUBSET [item : Item, during : Nat]
  BY DEF Noted, Opened

\* The part of the invariant that start_request, enrich_request and
\* end_request_full assign; the rest is what their callers assign.
Settled ==
    /\ announced \in BOOLEAN /\ started \in Nat
    /\ open \in Opened
    /\ observed = [id |-> open.id, carried |-> open.carried]
    /\ Clean(buf, open)
    /\ made \in SUBSET [item : Item, during : Nat]

\* A request is only started when none is open.
LEMMA StartSettles ==
    ASSUME Settled, ~Active, NEW wire, NEW carried \in Baggage, NEW directive \in BOOLEAN,
           NEW token \in BOOLEAN, NEW with \in {"nothing", "origin", "facts", "message"},
           Start(wire, carried, directive, token, with)
    PROVE  Settled' /\ started' = started + 1 /\ open'.id = started'
<1>1. PICK cfg \in Deployments, profileRoll \in BOOLEAN, apmRoll \in BOOLEAN :
         LET r == started + 1
             armed == Armed(cfg, directive)
             profiled == Profiled(cfg, armed, token, wire, profileRoll)
             sampled == Sampled(armed, profiled, wire, apmRoll)
             now == [id |-> r, cfg |-> cfg, sampled |-> sampled, carried |-> carried]
         IN  /\ "collector" \in cfg
             /\ r <= MaxRequests
             /\ started' = r
             /\ announced' = TRUE
             /\ open' = now
             /\ observed' = [id |-> r, carried |-> carried]
             /\ buf' = Brought(now, Cleared(buf, r, cfg, sampled, armed, profiled), with)
             /\ made' = made \cup Noted(now, buf'.bag, Heartbeat(cfg) \cup buf'.bodies)
  BY Zenon DEF Start
<1> DEFINE armed == Armed(cfg, directive)
           profiled == Profiled(cfg, armed, token, wire, profileRoll)
           sampled == Sampled(armed, profiled, wire, apmRoll)
           now == [id |-> started + 1, cfg |-> cfg, sampled |-> sampled,
                   carried |-> carried]
           cleared == Cleared(buf, now.id, now.cfg, sampled, armed, profiled)
<1>2. /\ armed \in BOOLEAN /\ profiled \in BOOLEAN /\ sampled \in BOOLEAN
      /\ profiled => "profiler" \in cfg
  BY DEF Armed, Profiled, Sampled
<1>3. now \in Opened /\ now.id = started + 1 /\ now.id # 0 /\ now.cfg = cfg
      /\ now.carried = carried
  <2> HIDE DEF sampled
  <2>1. started + 1 \in Nat /\ started + 1 # 0 /\ cfg \in SUBSET Signals
    BY RequestConstants DEF Settled
  <2>2. QED
    BY <1>2, <2>1 DEF Opened
<1>4. /\ open' = now /\ started' = started + 1 /\ announced' = TRUE
      /\ observed' = [id |-> started + 1, carried |-> carried]
      /\ buf' = Brought(now, cleared, with)
      /\ made' = made \cup Noted(now, buf'.bag, Heartbeat(cfg) \cup buf'.bodies)
  <2> HIDE DEF armed, profiled, sampled
  <2>1. cleared = Cleared(buf, started + 1, cfg, sampled, armed, profiled)
    BY <1>3
  <2> HIDE DEF cleared, now
  <2>2. QED
    BY <1>1, <2>1 DEF armed, profiled, sampled, now
<1> HIDE DEF armed, profiled, sampled, now
<1>5. Clean(buf, Closed)
  BY DEF Settled, Active, Clean, Closed
<1>6. Clean(cleared, now)
  BY <1>2, <1>3, <1>5, ClearedClean
<1> HIDE DEF cleared
<1>7. Clean(buf', now)
  BY <1>3, <1>4, <1>6, BroughtClean
<1>8. made' \in SUBSET [item : Item, during : Nat]
  <2>1. Heartbeat(cfg) \in SUBSET Item
    BY ItIsItem DEF Heartbeat, What, Evidence
  <2>2. buf'.bag \in SUBSET Item /\ buf'.bodies \in SUBSET Item
    BY <1>7 DEF Clean, Buffers
  <2>3. Noted(now, buf'.bag, Heartbeat(cfg) \cup buf'.bodies)
            \in SUBSET [item : Item, during : Nat]
    BY <1>3, <2>1, <2>2, NotedTyped
  <2>4. QED
    BY <1>4, <2>3 DEF Settled
<1>9. Clean(buf, open)'
  BY <1>4, <1>7
<1>10. observed' = [id |-> open'.id, carried |-> open'.carried]
  BY <1>3, <1>4
<1>11. announced' \in BOOLEAN /\ started' \in Nat /\ open' \in Opened
  BY <1>3, <1>4 DEF Settled
<1>12. QED
  BY <1>3, <1>4, <1>8, <1>9, <1>10, <1>11 DEF Settled

\* A bridge that starts an open request fills in, names and arms.
LEMMA EnrichSettles ==
    ASSUME Settled, NEW offered \in Baggage, NEW directive \in BOOLEAN,
           NEW named \in BOOLEAN, Enrich(offered, directive, named)
    PROVE  Settled' /\ open'.id = open.id
<1> DEFINE carried == Filled(open.carried, offered)
           labelled == IF named
                       THEN [buf EXCEPT !.labels = Label(@, It("service", open.id, 0))]
                       ELSE buf
<1>1. carried \in Baggage
  BY DEF Settled, Opened, Filled
<1>2. Clean(labelled, open)
  <2>1. "service" \in What \cap Labels
    BY DEF What, Evidence, Labels
  <2>2. QED
    BY <2>1, LabelsClean DEF Settled
<1>3. Clean(Activated(labelled), open)
  <2> HIDE DEF labelled
  <2>1. open.id # 0
    BY DEF Enrich, Active
  <2>2. Own({}, open.id) /\ TRUE \in BOOLEAN /\ {} \in SUBSET Item
    BY OwnNothing
  <2>3. QED
    BY <1>2, <2>1, <2>2 DEF Clean, Activated, Buffers
<1>4. /\ open' = [open EXCEPT !.carried = carried]
      /\ observed' = IF offered = Nothing THEN observed
                     ELSE [observed EXCEPT !.carried = carried]
      /\ buf' = IF directive THEN Activated(labelled) ELSE labelled
      /\ UNCHANGED <<announced, started>>
  BY DEF Enrich, ObserverTold
<1>5. offered = Nothing => carried = open.carried
  BY DEF Filled
<1> HIDE DEF carried, labelled
<1>6. open' \in Opened /\ open'.id = open.id /\ open'.cfg = open.cfg
      /\ open'.carried = carried
  BY <1>1, <1>4 DEF Settled, Opened
<1>7. observed' = [id |-> open'.id, carried |-> open'.carried]
  BY <1>4, <1>5, <1>6 DEF Settled
<1>8. Clean(buf', open)
  BY <1>2, <1>3, <1>4
<1>9. Clean(buf', open')
  BY <1>6, <1>8 DEF Clean
<1>10. made' \in SUBSET [item : Item, during : Nat]
  <2>1. "directive" \in What
    BY DEF What, Evidence
  <2>2. It("directive", open.id, 0) \in Item
    BY <2>1, ItIsItem DEF Settled, Opened
  <2>3. Noted(open, {}, {It("directive", open.id, 0)}) \in SUBSET [item : Item, during : Nat]
    BY <2>2, NotedTyped DEF Settled
  <2>4. QED
    BY <2>3 DEF Enrich, Settled
<1>11. QED
  BY <1>4, <1>6, <1>7, <1>9, <1>10 DEF Settled

\* One more piece of evidence of the open request, in any of its buffers.
LEMMA GrownClean ==
    ASSUME NEW b, NEW o \in Opened, o.id # 0, Clean(b, o), NEW w \in What
    PROVE  /\ Clean([b EXCEPT !.logs = @ \cup {It(w, o.id, 0)}], o)
           /\ Clean([b EXCEPT !.window = @ \cup {It(w, o.id, 0)}], o)
           /\ Clean([b EXCEPT !.effects = @ \cup {It(w, o.id, 0)}], o)
           /\ "profiler" \in o.cfg => Clean([b EXCEPT !.samples = @ \cup {It(w, o.id, 0)}], o)
<1> DEFINE item == It(w, o.id, 0)
<1>1. item \in Item /\ Own({item}, o.id)
  BY ItIsItem, OwnItem DEF Opened
<1>2. \A items \in {b.logs, b.window, b.effects, b.samples} :
          items \cup {item} \in SUBSET Item /\ Own(items \cup {item}, o.id)
  BY <1>1, OwnUnion DEF Clean, Buffers
<1> HIDE DEF item
<1>3. Clean([b EXCEPT !.logs = @ \cup {item}], o)
  BY <1>2 DEF Clean, Buffers
<1>4. Clean([b EXCEPT !.window = @ \cup {item}], o)
  BY <1>2 DEF Clean, Buffers
<1>5. Clean([b EXCEPT !.effects = @ \cup {item}], o)
  BY <1>2 DEF Clean, Buffers
<1>6. "profiler" \in o.cfg => Clean([b EXCEPT !.samples = @ \cup {item}], o)
  BY <1>2 DEF Clean, Buffers
<1>7. QED
  BY <1>3, <1>4, <1>5, <1>6 DEF item

\* The calls that add to a buffer and do nothing else.
LEMMA AcceptKeeps ==
    ASSUME Shaped, Call, NEW traced \in SUBSET Item, NEW others \in SUBSET Item,
           NEW changed, Clean(changed, open), Accept(traced, others, changed)
    PROVE  Shaped'
<1>1. calls' \in Nat
  BY DEF Call, Shaped
<1>2. made' \in SUBSET [item : Item, during : Nat]
  BY NotedTyped DEF Accept, Shaped
<1>3. QED
  BY <1>1, <1>2 DEF Accept, Shaped

\* What the calls of the application may rely on: the buffers that are armed belong
\* to the open request.
LEMMA ArmedMeansOpen ==
    ASSUME Shaped
    PROVE  /\ observed.id = open.id /\ open.id \in Nat
           /\ buf.recording \/ buf.counting \/ buf.capturing => open.id # 0
           /\ buf.sampling => open.id # 0 /\ "profiler" \in open.cfg
  BY DEF Shaped, Opened, Clean

\* The marker is stamped with the open request and holds nothing.
LEMMA MarkerOwn ==
    ASSUME NEW s, OwnDocs(s), NEW r \in Nat
    PROVE  OwnDocs(Append(s, [kind |-> "jobrun", of |-> r, has |-> {}]))
<1> DEFINE doc == [kind |-> "jobrun", of |-> r, has |-> {}]
<1>1. doc \in Doc /\ doc.has = {} /\ doc.of = r
  BY DEF Doc, Kinds
<1> HIDE DEF doc
<1>2. Append(s, doc) \in Seq(Doc) /\ Len(Append(s, doc)) = Len(s) + 1
  BY <1>1 DEF OwnDocs
<1>3. \A d \in DOMAIN Append(s, doc) :
          Append(s, doc)[d] = IF d = Len(s) + 1 THEN doc ELSE s[d]
  BY <1>1, <1>2 DEF OwnDocs
<1>4. ASSUME NEW d \in DOMAIN Append(s, doc)
      PROVE  Own(Append(s, doc)[d].has, Append(s, doc)[d].of)
  <2>1. CASE d = Len(s) + 1
    BY <1>1, <1>3, <2>1, OwnNothing
  <2>2. CASE d # Len(s) + 1
    <3>1. d \in DOMAIN s /\ Append(s, doc)[d] = s[d]
      BY <1>2, <1>3, <2>2 DEF OwnDocs
    <3>2. QED
      BY <3>1 DEF OwnDocs
  <2>3. QED
    BY <2>1, <2>2
<1>5. OwnDocs(Append(s, doc))
  BY <1>2, <1>4 DEF OwnDocs
<1>6. QED
  BY <1>5 DEF doc

\* chronos_job_started writes a marker stamped with the open request.
LEMMA JobStartedKeeps == ASSUME Shaped, JobStarted PROVE Shaped'
<1>1. calls' \in Nat
  BY DEF JobStarted, Call, Shaped
<1>2. OwnDocs(spool')
  BY MarkerOwn DEF JobStarted, Shaped, Opened
<1>3. QED
  BY <1>1, <1>2 DEF JobStarted, Shaped

\* Reserving a publish span only touches the payload buffer.
LEMMA PublishBeginKeeps == ASSUME Shaped, PublishBegin PROVE Shaped'
<1> DEFINE body == It("body", open.id, FirstPublish + calls)
           taken == Storable(open, buf)
<1>1. /\ publish' = It(IF taken THEN "stored" ELSE "span", body.of, body.n)
      /\ buf' = IF taken THEN [buf EXCEPT !.bodies = @ \cup {body}] ELSE buf
      /\ made' = IF taken THEN made \cup Noted(open, {body}, {}) ELSE made
      /\ UNCHANGED <<up, announced, started, open, observed, delivering, spool>>
  BY DEF PublishBegin
<1>2. body \in Item /\ body.what \in Keyed /\ body.of \in Nat /\ body.n \in Nat
  BY ItIsItem DEF Shaped, Opened, FirstPublish, What, Evidence, Keyed, It
<1>3. publish' \in Item /\ publish'.what \in Keyed
  BY <1>1, <1>2, ItIsItem DEF It, Keyed, What, Evidence
<1> HIDE DEF body, taken
<1>4. Clean(buf', open)
  BY <1>1, <1>2, BodiesClean DEF Shaped
<1>5. made' \in SUBSET [item : Item, during : Nat]
  BY <1>1, <1>2, NotedTyped DEF Shaped
<1>6. calls' \in Nat
  BY DEF PublishBegin, Call, Shaped
<1>7. QED
  BY <1>1, <1>3, <1>4, <1>5, <1>6 DEF Shaped

\* Recording a publish span only touches the span buffer.
LEMMA PublishEndKeeps == ASSUME Shaped, PublishEnd PROVE Shaped'
<1>1. publish \in Item /\ publish.what \in Keyed
  BY DEF Shaped, PublishEnd
<1>2. Clean(buf', open)
  BY <1>1, SpansClean DEF PublishEnd, Shaped
<1>3. made' \in SUBSET [item : Item, during : Nat]
  BY <1>1, NotedTyped DEF PublishEnd, Shaped
<1>4. NoPublish \in Item
  BY ItIsItem DEF NoPublish, What, Evidence
<1>5. QED
  BY <1>2, <1>3, <1>4 DEF PublishEnd, Shaped

\* Each of the application's calls keeps the invariant.
LEMMA ApplicationKeeps ==
    ASSUME Shaped, Application
    PROVE  Shaped'
<1> USE ArmedMeansOpen
<1>1. Clean(buf, open) /\ open \in Opened
  BY DEF Shaped
<1>2. \A w \in What : It(w, open.id, 0) \in Item
  BY ItIsItem
<1>3. CASE SetRequestAttributes
  <2> DEFINE bag == Merge(buf.bag, It("fact", open.id, 0))
             changed == [buf EXCEPT !.bag = bag]
  <2>1. open.id # 0
    BY <1>3 DEF SetRequestAttributes, Active
  <2>2. Clean(changed, open)
    BY <1>1, <2>1, BagClean DEF What, Evidence
  <2>3. bag \in SUBSET Item
    BY <1>1, <1>2, PutTyped DEF Merge, What, Evidence, Clean, Buffers
  <2>4. Call /\ Accept(bag, {}, changed)
    BY <1>3 DEF SetRequestAttributes
  <2> HIDE DEF bag, changed
  <2>5. QED
    BY <2>2, <2>3, <2>4, AcceptKeeps
<1>4. CASE RecordSpan
  <2> DEFINE span == It("span", open.id, 0)
             changed == [buf EXCEPT !.spans = @ \cup {span}]
  <2>1. span \in Item /\ span.what \in Keyed
    BY <1>2 DEF What, Evidence, Keyed, It
  <2>2. Call /\ Accept({span}, {}, changed)
    BY <1>4 DEF RecordSpan
  <2> HIDE DEF span
  <2>3. Clean(changed, open)
    BY <1>1, <2>1, SpansClean
  <2> HIDE DEF changed
  <2>4. QED
    BY <2>1, <2>2, <2>3, AcceptKeeps
<1>5. CASE CaptureLog
  <2> DEFINE changed == [buf EXCEPT !.logs = @ \cup {It("log", open.id, 0)}]
  <2>1. open.id # 0 /\ Call /\ Accept({}, {It("log", open.id, 0)}, changed)
    BY <1>5 DEF CaptureLog, On, Active
  <2>2. Clean(changed, open)
    BY <1>1, <2>1, GrownClean DEF What, Evidence
  <2> HIDE DEF changed
  <2>3. QED
    BY <1>2, <2>1, <2>2, AcceptKeeps DEF What, Evidence
<1>6. CASE ProfileTag
  <2>1. PICK tag \in Tags :
            Accept({}, {}, [buf EXCEPT !.labels = Label(@, It(tag, open.id, 0))])
    BY <1>6 DEF ProfileTag
  <2> DEFINE changed == [buf EXCEPT !.labels = Label(@, It(tag, open.id, 0))]
  <2>2. tag \in What \cap Labels
    BY DEF What, Evidence, Labels
  <2>3. Clean(changed, open)
    BY <1>1, <2>2, LabelsClean
  <2>4. Call /\ Accept({}, {}, changed)
    BY <1>6, <2>1 DEF ProfileTag
  <2> HIDE DEF changed
  <2>5. QED
    BY <2>3, <2>4, AcceptKeeps
<1>7. CASE CountCall
  <2> DEFINE changed == [buf EXCEPT !.window = @ \cup {It("call", open.id, 0)}]
  <2>1. open.id # 0 /\ Call /\ Accept({}, {It("call", open.id, 0)}, changed)
    BY <1>7 DEF CountCall
  <2>2. Clean(changed, open)
    BY <1>1, <2>1, GrownClean DEF What, Evidence
  <2> HIDE DEF changed
  <2>3. QED
    BY <1>2, <2>1, <2>2, AcceptKeeps DEF What, Evidence
<1>8. CASE TakeSample
  <2> DEFINE changed == [buf EXCEPT !.samples = @ \cup {It("sample", open.id, 0)}]
  <2>1. /\ open.id # 0 /\ "profiler" \in open.cfg
        /\ Call /\ Accept({}, {It("sample", open.id, 0)}, changed)
    BY <1>8 DEF TakeSample
  <2>2. Clean(changed, open)
    BY <1>1, <2>1, GrownClean DEF What, Evidence
  <2> HIDE DEF changed
  <2>3. QED
    BY <1>2, <2>1, <2>2, AcceptKeeps DEF What, Evidence
<1>9. CASE RecordEffect
  <2> DEFINE changed == [buf EXCEPT !.effects = @ \cup {It("effect", open.id, 0)}]
  <2>1. open.id # 0 /\ Call /\ Accept({}, {It("effect", open.id, 0)}, changed)
    BY <1>9 DEF RecordEffect
  <2>2. Clean(changed, open)
    BY <1>1, <2>1, GrownClean DEF What, Evidence
  <2> HIDE DEF changed
  <2>3. QED
    BY <1>2, <2>1, <2>2, AcceptKeeps DEF What, Evidence
<1>10. CASE Throw
  <2> DEFINE effect == IF buf.recording THEN {It("exception", open.id, 0)} ELSE {}
             grown == [buf EXCEPT !.effects = @ \cup effect]
             changed == [grown EXCEPT !.thrown = open.id]
  <2>1. open.id # 0 /\ Call
    BY <1>10 DEF Throw
  <2>2. effect \in SUBSET Item
    BY <1>2 DEF What, Evidence
  <2>3. Clean(grown, open)
    <3>1. CASE buf.recording
      BY <1>1, <2>1, <3>1, GrownClean DEF What, Evidence
    <3>2. CASE ~buf.recording
      <4>1. grown = buf
        BY <1>1, <3>2 DEF Clean, Buffers
      <4>2. QED
        BY <1>1, <4>1
    <3>3. QED
      BY <3>1, <3>2
  <2>4. Accept({}, effect, [buf EXCEPT !.thrown = open.id, !.effects = @ \cup effect])
    BY <1>10, <2>1 DEF Throw
  <2> HIDE DEF effect
  <2>5. [buf EXCEPT !.thrown = open.id, !.effects = @ \cup effect] = changed
    BY <1>1 DEF Clean, Buffers
  <2> HIDE DEF grown
  <2>6. Clean(changed, open)
    BY <2>3 DEF Clean, Buffers
  <2> HIDE DEF changed
  <2>7. QED
    BY <2>1, <2>2, <2>4, <2>5, <2>6, AcceptKeeps
<1>11. CASE SetHttpResponse
  <2> DEFINE body == It("body", open.id, Response)
             changed == [buf EXCEPT !.held = TRUE]
  <2>1. body \in Item
    BY ItIsItem DEF What, Evidence, Response
  <2>2. Clean(changed, open)
    BY <1>1 DEF Clean, Buffers
  <2>3. Call /\ Accept({body}, {}, changed)
    BY <1>11 DEF SetHttpResponse
  <2> HIDE DEF body, changed
  <2>4. QED
    BY <2>1, <2>2, <2>3, AcceptKeeps
<1>12. CASE JobStarted
  BY <1>12, JobStartedKeeps
<1>13. CASE PublishBegin
  BY <1>13, PublishBeginKeeps
<1>14. CASE PublishEnd
  BY <1>14, PublishEndKeeps
<1>15. QED
  BY <1>3, <1>4, <1>5, <1>6, <1>7, <1>8, <1>9, <1>10, <1>11, <1>12, <1>13, <1>14
     DEF Application

\* What the end of a request leaves is clean for the gap that follows.
LEMMA DrainedClean ==
    ASSUME open \in Opened, open.id # 0, Clean(buf, open)
    PROVE  Clean(Drained(buf), Closed)
<1> DEFINE b == buf
           effects == IF b.recording THEN {} ELSE b.effects
           spans == IF Traced(open) THEN {} ELSE b.spans
           bodies == IF Traced(open) THEN {} ELSE b.bodies
           labels == IF On("profiler") THEN {} ELSE b.labels
           samples == IF On("profiler") THEN {} ELSE b.samples
           sampling == IF On("profiler") THEN FALSE ELSE b.sampling
           logs == IF On("logs") THEN {} ELSE b.logs
<1>1. Drained(buf) = [RecordingDone(b) EXCEPT !.bag = {}, !.spans = spans,
            !.bodies = bodies, !.labels = labels, !.samples = samples,
            !.sampling = sampling, !.counting = FALSE, !.window = {}, !.logs = logs,
            !.capturing = FALSE, !.held = FALSE]
  BY DEF Drained, RecordingDone, Clean, Buffers
<1>2. /\ effects \in SUBSET Item /\ spans \in SUBSET Item /\ bodies \in SUBSET Item
      /\ samples \in SUBSET Item /\ labels \in SUBSET Item /\ logs \in SUBSET Item
      /\ sampling \in BOOLEAN
  BY DEF Clean, Buffers
<1>3. samples = {} /\ ~sampling
  BY DEF Clean, On, Active
<1>4. \A i \in spans \cup bodies : i.what \in Keyed
  BY DEF Clean
<1>5. \A i \in labels : i.what \in Labels
  BY DEF Clean
<1>6. RecordingDone(b) = [buf EXCEPT !.recording = FALSE, !.effects = effects]
  BY DEF RecordingDone, Clean, Buffers
<1> HIDE DEF effects, spans, bodies, labels, samples, sampling, logs
<1>7. Drained(buf) \in Buffers
  <2> DEFINE done == RecordingDone(b)
             half == [done EXCEPT !.bag = {}, !.spans = spans, !.bodies = bodies,
                                  !.labels = labels, !.samples = samples]
  <2>1. done \in Buffers
    BY <1>2, <1>6 DEF Clean, Buffers
  <2> HIDE DEF done
  <2>2. half \in Buffers
    BY <1>2, <2>1 DEF Buffers
  <2>3. Drained(buf) = [half EXCEPT !.sampling = sampling, !.counting = FALSE,
            !.window = {}, !.logs = logs, !.capturing = FALSE, !.held = FALSE]
    BY <1>1, <2>1 DEF Buffers, done
  <2> HIDE DEF half
  <2>4. QED
    BY ZenonT(60), <1>2, <2>2, <2>3 DEF Buffers
<1>8. /\ Drained(buf).samples = samples /\ Drained(buf).sampling = sampling
      /\ Drained(buf).spans = spans /\ Drained(buf).bodies = bodies
      /\ Drained(buf).labels = labels
      /\ ~Drained(buf).counting /\ ~Drained(buf).recording /\ ~Drained(buf).capturing
  BY <1>1, <1>6 DEF Clean, Buffers
<1>9. QED
  BY <1>3, <1>4, <1>5, <1>7, <1>8 DEF Clean, Closed

\* The documents of one flush carry the evidence of the request they are stamped with.
LEMMA FlushOwn ==
    ASSUME open \in Opened, open.id # 0, Clean(buf, open),
           NEW error \in SUBSET Item, Own(error, open.id)
    PROVE  /\ OwnDocs(Trace(buf, error)) /\ OwnDocs(Profile(buf))
           /\ OwnDocs(Counted(buf)) /\ OwnDocs(Logs(buf)) /\ OwnDocs(Recording(buf))
<1>1. /\ buf.spans \in SUBSET Item /\ buf.bodies \in SUBSET Item
      /\ buf.labels \in SUBSET Item /\ open.id \in Nat
      /\ \A has \in {buf.bag, buf.window, buf.effects, buf.samples, buf.logs} :
             has \in SUBSET Item /\ Own(has, open.id)
  BY DEF Clean, Buffers, Opened
<1>2. Own(buf.spans, open.id) /\ Own(buf.bodies, open.id) /\ Own(buf.labels, open.id)
  BY <1>1, OwnExempt DEF Clean
<1>3. \A w \in What, k \in Nat :
          It(w, open.id, k) \in Item /\ Own({It(w, open.id, k)}, open.id)
  BY <1>1, ItIsItem, OwnItem
<1>4. OwnDocs(Trace(buf, error))
  <2> DEFINE held(w) == IF buf.held THEN {It(w, open.id, Response)} ELSE {}
             root == {It("root", open.id, 0)}
  <2>1. \A w \in {"body", "stored"} : held(w) \in SUBSET Item /\ Own(held(w), open.id)
    BY <1>3, OwnNothing DEF What, Evidence, Response
  <2>2. root \in SUBSET Item /\ Own(root, open.id)
    BY <1>3 DEF What, Evidence
  <2> HIDE DEF held, root
  <2>3. /\ buf.spans \cup (root \cup error \cup buf.bag \cup held("stored")) \in SUBSET Item
        /\ Own(buf.spans \cup (root \cup error \cup buf.bag \cup held("stored")), open.id)
    <3>1. Own(root \cup error, open.id)
      BY <2>2, OwnUnion
    <3>2. Own(root \cup error \cup buf.bag, open.id)
      BY <1>1, <3>1, OwnUnion
    <3>3. Own(root \cup error \cup buf.bag \cup held("stored"), open.id)
      BY <2>1, <3>2, OwnUnion
    <3>4. QED
      BY <1>1, <1>2, <2>1, <2>2, <3>3, OwnUnion
  <2>4. buf.bodies \cup held("body") \in SUBSET Item /\ Own(buf.bodies \cup held("body"), open.id)
    BY <1>1, <1>2, <2>1, OwnUnion
  <2>5. /\ OwnDocs(D("bodies", open.id, buf.bodies \cup held("body")))
        /\ OwnDocs(D("spans", open.id,
               buf.spans \cup (root \cup error \cup buf.bag \cup held("stored"))))
    BY <1>1, <2>3, <2>4, DocumentIsOwn DEF Kinds
  <2>6. Trace(buf, error) =
            IF ~Traced(open) THEN <<>>
            ELSE D("bodies", open.id, buf.bodies \cup held("body"))
                 \o D("spans", open.id,
                      buf.spans \cup (root \cup error \cup buf.bag \cup held("stored")))
    BY DEF Trace, BodiesFirst, Root, held, root
  <2>7. QED
    BY <2>5, <2>6, DocumentsAreOwn, NoDocuments
<1>5. OwnDocs(Profile(buf))
  <2> DEFINE has == buf.samples \cup OutcomeOf(buf.labels)
  <2>1. /\ OutcomeOf(buf.labels) \in SUBSET Item
        /\ \A i \in OutcomeOf(buf.labels) : i.what \in Labels
    <3>1. "outcome" \in What \cap Labels
      BY DEF What, Evidence, Labels
    <3>2. QED
      BY <1>1, <3>1, LabelFiled DEF OutcomeOf, Clean
  <2>2. has \in SUBSET Item /\ Own(has, open.id)
    BY <1>1, <2>1, OwnExempt, OwnUnion
  <2>3. Profile(buf) = IF ~On("profiler") \/ buf.samples = {} THEN <<>>
                       ELSE D("profile", open.id, has)
    BY DEF Profile
  <2> HIDE DEF has
  <2>4. OwnDocs(D("profile", open.id, has))
    BY <1>1, <2>2, DocumentIsOwn DEF Kinds
  <2>5. QED
    BY <2>3, <2>4, NoDocuments
<1>6. OwnDocs(Counted(buf))
  <2> DEFINE labels == {l \in buf.labels : l.what # "outcome"}
             has == buf.window \cup labels \cup {It("outcome", open.id, 0)}
  <2>1. labels \in SUBSET Item /\ Own(labels, open.id)
    BY <1>1, <1>2, OwnSubset
  <2>2. It("outcome", open.id, 0) \in Item /\ Own({It("outcome", open.id, 0)}, open.id)
    BY <1>3 DEF What, Evidence
  <2>3. Own(buf.window \cup labels, open.id)
    BY <1>1, <2>1, OwnUnion
  <2>4. has \in SUBSET Item /\ Own(has, open.id)
    BY <1>1, <2>1, <2>2, <2>3, OwnUnion
  <2>5. Counted(buf) = IF ~On("counted") \/ buf.window = {} THEN <<>>
                       ELSE D("counted", open.id, has)
    BY DEF Counted
  <2> HIDE DEF has
  <2>6. OwnDocs(D("counted", open.id, has))
    BY <1>1, <2>4, DocumentIsOwn DEF Kinds
  <2>7. QED
    BY <2>5, <2>6, NoDocuments
<1>7. OwnDocs(Logs(buf))
  BY <1>1, DocumentIsOwn, NoDocuments DEF Logs, Kinds
<1>8. OwnDocs(Recording(buf))
  BY <1>1, DocumentIsOwn, NoDocuments DEF Recording, Kinds
<1>9. QED
  BY <1>4, <1>5, <1>6, <1>7, <1>8

\* What the three ends assign, whichever error they report.
LEMMA EndSettles ==
    ASSUME Shaped, NEW error, End(error),
           Active => error \in SUBSET Item /\ Own(error, open.id)
    PROVE  /\ open' \in Opened /\ observed' = [id |-> open'.id, carried |-> open'.carried]
           /\ Clean(buf', open') /\ OwnDocs(spool') /\ open'.id = 0
<1>1. CASE ~Active
  BY <1>1 DEF End, Shaped, Active
<1>2. CASE Active
  <2>1. open.id # 0 /\ open \in Opened /\ Clean(buf, open) /\ OwnDocs(spool)
        /\ error \in SUBSET Item /\ Own(error, open.id)
    BY <1>2 DEF Shaped, Active
  <2>2. /\ open' = Closed /\ observed' = Unobserved /\ buf' = Drained(buf)
        /\ spool' = spool \o Trace(buf, error) \o Profile(buf) \o Counted(buf)
                          \o Logs(buf) \o Recording(buf)
    BY <1>2 DEF End, StateTaken
  <2>3. Clean(buf', open')
    BY <2>1, <2>2, DrainedClean
  <2>4. OwnDocs(spool')
    <3>1. /\ OwnDocs(Trace(buf, error)) /\ OwnDocs(Profile(buf))
          /\ OwnDocs(Counted(buf)) /\ OwnDocs(Logs(buf)) /\ OwnDocs(Recording(buf))
      BY <2>1, FlushOwn
    <3>2. OwnDocs(spool \o Trace(buf, error) \o Profile(buf))
      BY <2>1, <3>1, DocumentsAreOwn
    <3>3. OwnDocs(spool \o Trace(buf, error) \o Profile(buf) \o Counted(buf) \o Logs(buf))
      BY <3>1, <3>2, DocumentsAreOwn
    <3>4. QED
      BY <2>2, <3>1, <3>3, DocumentsAreOwn
  <2>5. QED
    BY <2>2, <2>3, <2>4, ClosedIsOpened DEF Closed, Unobserved
<1>3. QED
  BY <1>1, <1>2

\* The last throw's witness is of the open request, or there is none.
LEMMA LastThrowOwn ==
    ASSUME Shaped, Active
    PROVE  LastThrow \in SUBSET Item /\ Own(LastThrow, open.id)
<1>1. buf.thrown \in {0, open.id} /\ open.id \in Nat
  BY DEF Shaped, Clean, Opened, Active
<1>2. CASE buf.thrown = 0
  BY <1>2, OwnNothing DEF LastThrow
<1>3. CASE buf.thrown # 0
  BY <1>1, <1>3, ItIsItem, OwnItem DEF LastThrow, What, Evidence
<1>4. QED
  BY <1>2, <1>3
-----------------------------------------------------------------------------
\* RINIT: no request is open, so whatever starts finds the gap.
LEMMA RequestStartupKeeps == ASSUME Shaped, RequestStartup PROVE Shaped'
<1>1. Settled /\ ~Active
  BY DEF Shaped, Settled, RequestStartup, Active
<1>2. Settled'
  <2>1. CASE Decline
    BY <1>1, <2>1 DEF Decline, Settled
  <2>2. CASE \E wire \in Wires, carried \in Carried, directive, token \in BOOLEAN,
                with \in {"nothing", "origin"} :
                Start(wire, carried, directive, token, with)
    BY <1>1, <2>2, StartSettles DEF Carried, Baggage, Nothing
  <2>3. QED
    BY <2>1, <2>2 DEF RequestStartup
<1>3. QED
  BY <1>2 DEF RequestStartup, Shaped, Settled

\* chronos_request_start, whether it enriches or opens.
LEMMA BridgeStartKeeps == ASSUME Shaped, BridgeStart PROVE Shaped'
<1>1. Settled
  BY DEF Shaped, Settled
<1>2. Settled' /\ up
  <2>1. CASE ~Active /\ Decline
    BY <1>1, <2>1 DEF Decline, Settled, BridgeStart, Call
  <2>2. CASE \E wire \in Wires, offered \in {Nothing, "bridged"},
                directive \in BridgeDirectives, named \in BOOLEAN :
                BridgeOpens(wire, offered, directive, named)
    <3>1. PICK wire \in Wires, offered \in Baggage, directive \in BOOLEAN,
               named \in BOOLEAN : BridgeOpens(wire, offered, directive, named)
      BY <2>2, RequestConstants DEF Baggage, Nothing
    <3>2. CASE Enrich(offered, directive, named)
      BY <1>1, <3>2, EnrichSettles DEF BridgeStart, Call
    <3>3. CASE ~Active /\ Start(wire, offered, directive, FALSE, "nothing")
      BY <1>1, <3>3, StartSettles DEF BridgeStart, Call
    <3>4. QED
      BY <3>1, <3>2, <3>3 DEF BridgeOpens
  <2>3. QED
    BY <2>1, <2>2 DEF BridgeStart
<1>3. calls' \in Nat
  BY DEF BridgeStart, Call, Shaped
<1>4. QED
  BY <1>2, <1>3 DEF BridgeStart, Shaped, Settled

\* A delivery opens a request of its own and writes its marker.
LEMMA DeliveryBeginKeeps == ASSUME Shaped, DeliveryBegin PROVE Shaped'
<1>1. Settled /\ ~Active
  BY DEF Shaped, Settled, DeliveryBegin
<1>2. PICK wire \in Wires, carried \in Carried, with \in {"facts", "message"} :
          Start(wire, carried, FALSE, FALSE, with)
  BY DEF DeliveryBegin
<1>3. carried \in Baggage
  BY DEF Carried, Baggage, Nothing
<1>4. Settled' /\ started' \in Nat
  BY <1>1, <1>2, <1>3, StartSettles DEF Settled
<1>5. OwnDocs(spool')
  BY <1>4, MarkerOwn DEF DeliveryBegin, Shaped
<1>6. calls' \in Nat /\ up
  BY DEF DeliveryBegin, Call, Shaped
<1>7. QED
  BY <1>4, <1>5, <1>6 DEF DeliveryBegin, Shaped, Settled

\* chronos_request_end, with or without an error of the bridge.
LEMMA RequestEndKeeps == ASSUME Shaped, RequestEnd PROVE Shaped'
<1>1. PICK error \in {{}, {It("error", open.id, 0)}} : End(error)
  BY DEF RequestEnd
<1>2. error \in SUBSET Item /\ Own(error, open.id)
  <2>1. It("error", open.id, 0) \in Item
    BY ItIsItem DEF Shaped, Opened, What, Evidence
  <2>2. Own({It("error", open.id, 0)}, open.id) /\ Own({}, open.id)
    BY OwnItem, OwnNothing
  <2>3. QED
    BY <1>1, <2>1, <2>2
<1>3. calls' \in Nat
  BY DEF RequestEnd, Call, Shaped
<1>4. QED
  BY <1>1, <1>2, <1>3, EndSettles DEF RequestEnd, Shaped

\* The delivery's frame ends the request with the last witnessed throw.
LEMMA DeliveryEndKeeps == ASSUME Shaped, DeliveryEnd PROVE Shaped'
  BY EndSettles, LastThrowOwn DEF DeliveryEnd, Shaped

\* RSHUTDOWN ends what is still open.
LEMMA RequestShutdownKeeps == ASSUME Shaped, RequestShutdown PROVE Shaped'
<1>1. PICK error \in {{}, LastThrow} : End(error)
  BY DEF RequestShutdown
<1>2. Active => error \in SUBSET Item /\ Own(error, open.id)
  BY LastThrowOwn, OwnNothing
<1>3. NoPublish \in Item
  BY ItIsItem DEF NoPublish, What, Evidence
<1>4. QED
  BY <1>1, <1>2, <1>3, EndSettles DEF RequestShutdown, Shaped
-----------------------------------------------------------------------------
\* Every step of the process keeps every buffer clean and every document rightly
\* stamped.
THEOREM StepKeepsShaped == Shaped /\ [Next]_vars => Shaped'
<1> SUFFICES ASSUME Shaped, [Next]_vars PROVE Shaped'
  OBVIOUS
<1>1. CASE Next
  BY <1>1, RequestStartupKeeps, BridgeStartKeeps, DeliveryBeginKeeps, ApplicationKeeps,
     RequestEndKeeps, DeliveryEndKeeps, RequestShutdownKeeps DEF Next
<1>2. CASE UNCHANGED vars
  BY <1>2 DEF vars, Shaped
<1>3. QED
  BY <1>1, <1>2

\* The inductive invariant: whatever PHP, the SDK and the observer call, in any order
\* and number, the buffers a flush would stamp hold nothing of another request.
THEOREM Invariance == Spec => []IInv
<1>1. Init => Shaped
  BY InitIInv, Shape
<1>2. QED
  BY <1>1, StepKeepsShaped, Shape, PTL DEF Spec

\* No document of any request carries a call, a log, an effect, a sample, a root
\* attribute or an error that was made in another.
THEOREM EvidenceStaysWithItsRequest == Spec => []OwnEvidenceOnly
<1>1. IInv => OwnEvidenceOnly
  BY DEF IInv
<1>2. QED
  BY <1>1, Invariance, PTL

\* No call takes the trace, the verdict or the propagated state away from a request
\* that is open: a second opening only fills in what was missing.
THEOREM IdentityNeverMoves == Spec => IdentityIsFixed
<1> DEFINE Fixed == Active /\ open'.id # 0 =>
                        /\ open'.id = open.id /\ open'.sampled = open.sampled
                        /\ open.carried # Nothing => open'.carried = open.carried
<1>1. ASSUME IInv, Next PROVE Fixed
  <2>1. CASE RequestStartup
    BY <1>1, <2>1 DEF IInv, OpenOnlyWhileUp, RequestStartup
  <2>2. CASE BridgeStart
    <3>1. CASE ~Active
      BY <3>1
    <3>2. CASE Active
      <4>1. PICK wire, offered, directive, named :
                BridgeOpens(wire, offered, directive, named)
        BY <2>2, <3>2 DEF BridgeStart
      <4>2. open' = [open EXCEPT !.carried = Filled(open.carried, offered)]
        BY <3>2, <4>1 DEF BridgeOpens, Enrich
      <4>3. QED
        BY <1>1, <4>2 DEF IInv, TypeOK, Filled
    <3>3. QED
      BY <3>1, <3>2
  <2>3. CASE DeliveryBegin
    BY <2>3 DEF DeliveryBegin
  <2>4. CASE Application
    <3>1. open' = open
      BY <2>4 DEF Application, SetRequestAttributes, RecordSpan, CaptureLog, ProfileTag,
         CountCall, TakeSample, RecordEffect, Throw, SetHttpResponse, JobStarted,
         PublishBegin, PublishEnd, Accept
    <3>2. QED
      BY <3>1
  <2>5. CASE RequestEnd \/ DeliveryEnd \/ RequestShutdown
    <3>1. PICK error : End(error)
      BY <2>5 DEF RequestEnd, DeliveryEnd, RequestShutdown
    <3>2. QED
      BY <3>1 DEF End, StateTaken, Closed
  <2>6. QED
    BY <1>1, <2>1, <2>2, <2>3, <2>4, <2>5 DEF Next
<1>2. ASSUME IInv, [Next]_vars PROVE [Fixed]_vars
  BY <1>1, <1>2
<1>3. QED
  BY <1>2, Invariance, PTL DEF Spec, IdentityIsFixed
-----------------------------------------------------------------------------
(* What a request collects is in its documents, and what its documents     *)
(* promise is there.                                                       *)

\* The documents carry identities of requests that were started, and at most one batch
\* of spans each: none yet for the request that is open.
Stamped ==
    /\ open.id <= started
    /\ \A d \in DOMAIN spool : spool[d].of <= started
    /\ \A d \in DOMAIN spool : spool[d].kind = "spans" => spool[d].of \notin {0, open.id}
    /\ OneTraceEach

\* What is armed was asked for by the deployment and the verdict of the open request.
Armament ==
    /\ buf.counting => On("counted")
    /\ buf.capturing => Traced(open)
    /\ buf.sampling \/ buf.samples # {} => open.sampled
    /\ buf.recording /\ ~Redirected(open.id) => open.sampled
    /\ buf.held => Traced(open)
    /\ buf.bodies # {} => Active /\ Traced(open)

\* What is where, so that nothing is overwritten and nothing is taken for a promise.
Sorted ==
    /\ \A i \in buf.bag : i = It(i.what, open.id, 0)
    /\ \A i \in buf.bodies : i.what = "body"
    /\ \A i \in buf.window : i.what = "call"
    /\ \A i \in buf.samples : i.what = "sample"
    /\ \A i \in buf.effects : i.what \in Effect
    /\ \A i \in buf.logs : i.what = "log"

\* Evidence accepted for the open request is where its end will find it.
Waiting(i) ==
    \/ i.what \in {"heartbeat", "directive"}
    \/ Traced(open) /\ i \in buf.bag \cup buf.spans \cup buf.bodies
    \/ Traced(open) /\ buf.held /\ i = It("body", open.id, Response)
    \/ On("logs") /\ i \in buf.logs
    \/ On("counted") /\ i \in buf.window
    \/ On("profiler") /\ i \in buf.samples
    \/ buf.recording /\ i \in buf.effects
    \/ i.what \in Effect /\ Redirected(open.id)

\* Evidence of a request that is over has been written.
Delivered(m) ==
    \/ m.item.what \in {"heartbeat", "directive"}
    \/ Carrying(m.item, m.during)
    \/ m.item.what \in Effect /\ Redirected(m.during)

Accounted ==
    \A m \in made :
        /\ m.during \in 1..started
        /\ IF m.during = open.id THEN Waiting(m.item) ELSE Delivered(m)

\* The payload of a promise is in the buffer or on disk.
Backed(i) ==
    \/ It("body", i.of, i.n) \in buf.bodies
    \/ \E b \in DOMAIN spool : It("body", i.of, i.n) \in spool[b].has

Promises ==
    /\ \A i \in buf.bag \cup buf.spans \cup {publish} : i.what = "stored" => Backed(i)
    /\ NoPromiseWithoutBody

FlushInv == Stamped /\ Armament /\ Sorted /\ Accounted /\ Promises

\* What the invariant implies.
LEMMA FlushInvImplies ==
    ASSUME FlushInv
    PROVE  NothingAcceptedIsLost /\ NoPromiseWithoutBody /\ RecordingKeepsEveryEffect
<1>1. NothingAcceptedIsLost
  BY DEF FlushInv, Stamped, Accounted, Delivered, NothingAcceptedIsLost
<1>2. RecordingKeepsEveryEffect
  BY DEF FlushInv, Accounted, Delivered, RecordingKeepsEveryEffect, Effect
<1>3. QED
  BY <1>1, <1>2 DEF FlushInv, Promises
-----------------------------------------------------------------------------
(* Documents that are appended. *)

Longer(s, t) ==
    /\ s \in Seq(Doc) /\ t \in Seq(Doc) /\ Len(s) <= Len(t)
    /\ \A d \in DOMAIN s : d \in DOMAIN t /\ t[d] = s[d]

\* A document of request r among s has item i.
Holds(s, r, i) == \E d \in DOMAIN s : s[d].of = r /\ i \in s[d].has

\* Where the documents of a concatenation come from.
LEMMA Joined ==
    ASSUME NEW s \in Seq(Doc), NEW t \in Seq(Doc)
    PROVE  /\ Longer(s, s \o t)
           /\ \A d \in DOMAIN (s \o t) :
                  \/ d \in DOMAIN s /\ (s \o t)[d] = s[d]
                  \/ d > Len(s) /\ d - Len(s) \in DOMAIN t /\ (s \o t)[d] = t[d - Len(s)]
           /\ \A d \in DOMAIN t : Len(s) + d \in DOMAIN (s \o t) /\ (s \o t)[Len(s) + d] = t[d]
  BY DEF Longer

\* What was written is still there when more is written.
LEMMA LongerHolds ==
    ASSUME NEW s, NEW t, Longer(s, t), NEW r, NEW i, Holds(s, r, i)
    PROVE  Holds(t, r, i)
  BY DEF Longer, Holds

\* What either part has, the whole has.
LEMMA JoinedHolds ==
    ASSUME NEW s \in Seq(Doc), NEW t \in Seq(Doc), NEW r, NEW i, Holds(s, r, i) \/ Holds(t, r, i)
    PROVE  Holds(s \o t, r, i)
<1>1. CASE Holds(s, r, i)
  BY <1>1, Joined, LongerHolds
<1>2. CASE Holds(t, r, i)
  <2>1. PICK d \in DOMAIN t : t[d].of = r /\ i \in t[d].has
    BY <1>2 DEF Holds
  <2>2. Len(s) + d \in DOMAIN (s \o t) /\ (s \o t)[Len(s) + d] = t[d]
    BY Joined
  <2>3. QED
    BY <2>1, <2>2 DEF Holds
<1>3. QED
  BY <1>1, <1>2

\* Appending again is appending.
LEMMA LongerLonger ==
    ASSUME NEW s, NEW t, NEW u, Longer(s, t), Longer(t, u)
    PROVE  Longer(s, u)
  BY DEF Longer

\* One flush writes one document, or none when there is nothing to write.
LEMMA OneDocument ==
    ASSUME NEW kind \in Kinds, NEW r \in Nat, NEW has \in SUBSET Item
    PROVE  /\ D(kind, r, has) \in Seq(Doc) /\ Len(D(kind, r, has)) <= 1
           /\ \A d \in DOMAIN D(kind, r, has) :
                  /\ has # {} /\ D(kind, r, has)[d].kind = kind
                  /\ D(kind, r, has)[d].of = r /\ D(kind, r, has)[d].has = has
           /\ \A i \in has : Holds(D(kind, r, has), r, i)
<1> DEFINE doc == [kind |-> kind, of |-> r, has |-> has]
<1>1. doc \in Doc /\ doc.kind = kind /\ doc.of = r /\ doc.has = has
  BY DEF Doc
<1>2. D(kind, r, has) = IF has = {} THEN <<>> ELSE <<doc>>
  BY DEF D
<1> HIDE DEF doc
<1>3. CASE has = {}
  BY <1>2, <1>3
<1>4. CASE has # {}
  <2>1. /\ <<doc>> \in Seq(Doc) /\ DOMAIN <<doc>> = {1} /\ <<doc>>[1] = doc /\ Len(<<doc>>) = 1
    BY <1>1
  <2>2. \A i \in has : Holds(<<doc>>, r, i)
    BY <1>1, <2>1 DEF Holds
  <2>3. QED
    BY <1>1, <1>2, <1>4, <2>1, <2>2
<1>5. QED
  BY <1>3, <1>4

\* The marker of a job says nothing but whose it is.
Marker(r) == [kind |-> "jobrun", of |-> r, has |-> {}]

\* A marker behind the documents leaves them as they are.
LEMMA Marked ==
    ASSUME NEW s \in Seq(Doc), NEW r \in Nat
    PROVE  /\ Longer(s, Append(s, Marker(r)))
           /\ \A d \in DOMAIN Append(s, Marker(r)) :
                  \/ d \in DOMAIN s /\ Append(s, Marker(r))[d] = s[d]
                  \/ /\ Append(s, Marker(r))[d].kind = "jobrun" /\ Append(s, Marker(r))[d].of = r
                     /\ Append(s, Marker(r))[d].has = {}
<1> DEFINE doc == Marker(r)
<1>1. doc \in Doc /\ doc.kind = "jobrun" /\ doc.of = r /\ doc.has = {}
  BY DEF Marker, Doc, Kinds
<1> HIDE DEF doc
<1>2. /\ Append(s, doc) \in Seq(Doc) /\ Len(Append(s, doc)) = Len(s) + 1
      /\ \A d \in DOMAIN s : d \in DOMAIN Append(s, doc) /\ Append(s, doc)[d] = s[d]
      /\ \A d \in DOMAIN Append(s, doc) :
             IF d = Len(s) + 1 THEN Append(s, doc)[d] = doc
             ELSE d \in DOMAIN s /\ Append(s, doc)[d] = s[d]
  BY <1>1
<1>3. QED
  BY <1>1, <1>2 DEF Longer, doc

\* What was written stays written, what was accepted stays accepted.
LEMMA StaysDelivered ==
    ASSUME Longer(spool, spool'), made \subseteq made'
    PROVE  /\ \A m : Delivered(m) => Delivered(m)'
           /\ \A r : Redirected(r) => Redirected(r)'
<1>1. \A i, r : Carrying(i, r) => Carrying(i, r)'
  <2>1. \A i, r : /\ Carrying(i, r) <=> Holds(spool, r, i)
                  /\ Carrying(i, r)' <=> Holds(spool', r, i)
    BY DEF Carrying, Holds
  <2>2. QED
    BY <2>1, LongerHolds
<1>2. \A r : Redirected(r) => Redirected(r)'
  BY DEF Redirected
<1>3. QED
  BY <1>1, <1>2 DEF Delivered
-----------------------------------------------------------------------------
(* The calls that only collect. *)

\* A step that adds evidence of the open request to its buffers, and writes nothing.
Collects ==
    /\ Active
    /\ open'.id = open.id /\ open'.cfg = open.cfg /\ open'.sampled = open.sampled
    /\ started' = started /\ spool' = spool
    /\ made \subseteq made'
    /\ \A m \in made' \ made : m.during = open.id /\ Waiting(m.item)'
    /\ buf'.counting = buf.counting /\ buf'.capturing = buf.capturing
    /\ buf'.sampling = buf.sampling
    /\ buf.bag \subseteq buf'.bag /\ buf.spans \subseteq buf'.spans
    /\ buf.bodies \subseteq buf'.bodies /\ buf.logs \subseteq buf'.logs
    /\ buf.window \subseteq buf'.window /\ buf.samples \subseteq buf'.samples
    /\ buf.held => buf'.held
    /\ \/ buf.recording = buf'.recording /\ buf.effects \subseteq buf'.effects
       \/ Redirected(open.id)'

\* What such a step adds is filed where it belongs.
Files ==
    /\ \A i \in buf'.bag : i \in buf.bag \/ i = It("fact", open.id, 0)
    /\ \A i \in buf'.spans : i \in buf.spans \/ i.what = "span" \/ i = publish
    /\ \A i \in buf'.bodies : i \in buf.bodies \/ (i.what = "body" /\ Traced(open))
    /\ \A i \in buf'.window : i \in buf.window \/ i.what = "call"
    /\ \A i \in buf'.samples : i \in buf.samples \/ (i.what = "sample" /\ buf.sampling)
    /\ \A i \in buf'.effects : i \in buf.effects \/ i.what \in Effect
    /\ \A i \in buf'.logs : i \in buf.logs \/ i.what = "log"
    /\ buf'.held => buf.held \/ Traced(open)
    /\ publish'.what = "stored" => publish' = publish \/ Backed(publish)'

\* Collecting keeps the invariant.
LEMMA CollectsKeeps ==
    ASSUME Shaped, FlushInv, Collects, Files
    PROVE  FlushInv'
<1>1. /\ Active /\ Active' /\ Traced(open') = Traced(open)
      /\ \A signal : On(signal)' = On(signal)
  BY DEF Collects, Active, On, Traced
<1>2. Longer(spool, spool') /\ made \subseteq made'
  BY DEF Shaped, OwnDocs, Collects, Longer
<1>3. Stamped'
  BY DEF FlushInv, Stamped, Collects, OneTraceEach
<1>4. Armament'
  BY <1>1, <1>2, StaysDelivered DEF FlushInv, Armament, Collects, Files
<1>5. Sorted'
  BY DEF FlushInv, Sorted, Collects, Files, It
<1>6. Accounted'
  <2>1. ASSUME NEW i, Waiting(i) PROVE Waiting(i)'
    <3>1. CASE buf.recording /\ i \in buf.effects
      BY <3>1 DEF FlushInv, Sorted, Collects, Waiting
    <3>2. CASE ~(buf.recording /\ i \in buf.effects)
      BY <1>1, <1>2, <2>1, <3>2, StaysDelivered DEF Collects, Waiting
    <3>3. QED
      BY <3>1, <3>2
  <2>2. ASSUME NEW m \in made'
        PROVE  /\ m.during \in 1..started'
               /\ IF m.during = open'.id THEN Waiting(m.item)' ELSE Delivered(m)'
    <3>1. CASE m \in made
      <4>1. /\ m.during \in 1..started
            /\ IF m.during = open.id THEN Waiting(m.item) ELSE Delivered(m)
        BY <3>1 DEF FlushInv, Accounted
      <4>2. Delivered(m) => Delivered(m)'
        BY <1>2, StaysDelivered
      <4>3. QED
        BY <2>1, <4>1, <4>2 DEF Collects
    <3>2. CASE m \notin made
      BY <3>2 DEF Collects, FlushInv, Stamped, Shaped, Opened, Active
    <3>3. QED
      BY <3>1, <3>2
  <2>3. QED
    BY <2>2 DEF Accounted
<1>7. Promises'
  <2>1. ASSUME NEW i, Backed(i) PROVE Backed(i)'
    BY <2>1 DEF Backed, Collects
  <2>2. ASSUME NEW i \in buf'.bag \cup buf'.spans \cup {publish'}, i.what = "stored"
        PROVE  Backed(i)'
    <3>1. i \in buf.bag \cup buf.spans \cup {publish} \/ Backed(i)'
      <4>1. CASE i \in buf'.bag
        <5>1. It("fact", open.id, 0).what = "fact"
          BY DEF It
        <5>2. QED
          BY <2>2, <4>1, <5>1 DEF Files
      <4>2. CASE i \in buf'.spans
        BY <2>2, <4>2 DEF Files
      <4>3. CASE i = publish'
        BY <2>2, <4>3 DEF Files
      <4>4. QED
        BY <2>2, <4>1, <4>2, <4>3
    <3>2. QED
      BY <2>1, <2>2, <3>1 DEF FlushInv, Promises
  <2>3. NoPromiseWithoutBody'
    BY DEF FlushInv, Promises, Collects, NoPromiseWithoutBody
  <2>4. QED
    BY <2>2, <2>3 DEF Promises
<1>8. QED
  BY <1>3, <1>4, <1>5, <1>6, <1>7 DEF FlushInv

\* chronos_set_request_attributes
LEMMA SetRequestAttributesCollects ==
    ASSUME Shaped, FlushInv, SetRequestAttributes
    PROVE  Collects /\ Files
<1> DEFINE fact == It("fact", open.id, 0)
           bag == Merge(buf.bag, fact)
<1>1. /\ Active /\ Accept(bag, {}, [buf EXCEPT !.bag = bag])
      /\ buf \in Buffers
  BY DEF SetRequestAttributes, Shaped, Clean
<1>2. fact.what = "fact"
  BY DEF It
<1>3. bag \subseteq buf.bag \cup {fact} /\ buf.bag \subseteq bag
  <2>1. \A i \in buf.bag : i.what = "fact" => i = fact
    BY DEF FlushInv, Sorted
  <2>2. QED
    BY <1>2, <2>1 DEF Merge, Put
<1> HIDE DEF bag, fact
<1>4. /\ buf'.bag = bag /\ buf'.spans = buf.spans /\ buf'.bodies = buf.bodies
      /\ buf'.logs = buf.logs /\ buf'.window = buf.window /\ buf'.samples = buf.samples
      /\ buf'.effects = buf.effects /\ buf'.held = buf.held
      /\ buf'.counting = buf.counting /\ buf'.capturing = buf.capturing
      /\ buf'.sampling = buf.sampling /\ buf'.recording = buf.recording
  BY <1>1 DEF Accept, Buffers
<1>5. \A m \in made' \ made : m.during = open.id /\ Waiting(m.item)'
  BY <1>1, <1>4 DEF Accept, Noted, Waiting
<1>6. Collects
  BY <1>1, <1>3, <1>4, <1>5 DEF Accept, Collects
<1>7. Files
  BY <1>1, <1>3, <1>4 DEF Accept, Files, fact
<1>8. QED
  BY <1>6, <1>7

\* chronos_record_span
LEMMA RecordSpanCollects ==
    ASSUME Shaped, FlushInv, RecordSpan
    PROVE  Collects /\ Files
<1> DEFINE span == It("span", open.id, 0)
<1>1. /\ Active
      /\ Accept({span}, {}, [buf EXCEPT !.spans = @ \cup {span}])
      /\ buf \in Buffers
  BY ArmedMeansOpen DEF RecordSpan, On, Shaped, Clean
<1>2. span.what = "span"
  BY DEF It
<1> HIDE DEF span
<1>3. /\ buf'.bag = buf.bag /\ buf'.spans = buf.spans \cup {span}
      /\ buf'.bodies = buf.bodies /\ buf'.logs = buf.logs
      /\ buf'.window = buf.window /\ buf'.samples = buf.samples
      /\ buf'.effects = buf.effects /\ buf'.held = buf.held
      /\ buf'.counting = buf.counting /\ buf'.capturing = buf.capturing
      /\ buf'.sampling = buf.sampling /\ buf'.recording = buf.recording
  BY <1>1 DEF Accept, Buffers
<1>4. \A m \in made' \ made : m.during = open.id /\ Waiting(m.item)'
  BY <1>1, <1>3 DEF Accept, Noted, Waiting, On, Active
<1>5. Collects
  BY <1>1, <1>3, <1>4 DEF Accept, Collects
<1>6. Files
  BY <1>1, <1>2, <1>3 DEF Accept, Files, Effect
<1>7. QED
  BY <1>5, <1>6

\* chronos_capture_log
LEMMA CaptureLogCollects ==
    ASSUME Shaped, FlushInv, CaptureLog
    PROVE  Collects /\ Files
<1> DEFINE log == It("log", open.id, 0)
<1>1. /\ Active /\ On("logs")
      /\ Accept({}, {log}, [buf EXCEPT !.logs = @ \cup {log}])
      /\ buf \in Buffers
  BY ArmedMeansOpen DEF CaptureLog, On, Shaped, Clean
<1>2. log.what = "log"
  BY DEF It
<1> HIDE DEF log
<1>3. /\ buf'.bag = buf.bag /\ buf'.spans = buf.spans /\ buf'.bodies = buf.bodies
      /\ buf'.logs = buf.logs \cup {log} /\ buf'.window = buf.window
      /\ buf'.samples = buf.samples /\ buf'.effects = buf.effects
      /\ buf'.held = buf.held /\ buf'.counting = buf.counting
      /\ buf'.capturing = buf.capturing /\ buf'.sampling = buf.sampling
      /\ buf'.recording = buf.recording
  BY <1>1 DEF Accept, Buffers
<1>4. \A m \in made' \ made : m.during = open.id /\ Waiting(m.item)'
  BY <1>1, <1>3 DEF Accept, Noted, Waiting, On, Active
<1>5. Collects
  BY <1>1, <1>3, <1>4 DEF Accept, Collects
<1>6. Files
  BY <1>1, <1>2, <1>3 DEF Accept, Files, Effect
<1>7. QED
  BY <1>5, <1>6

\* The observer counts a call.
LEMMA CountCallCollects ==
    ASSUME Shaped, FlushInv, CountCall
    PROVE  Collects /\ Files
<1> DEFINE call == It("call", open.id, 0)
<1>1. /\ Active /\ On("counted")
      /\ Accept({}, {call}, [buf EXCEPT !.window = @ \cup {call}])
      /\ buf \in Buffers
  BY ArmedMeansOpen DEF CountCall, FlushInv, Armament, Active, Shaped, Clean
<1>2. call.what = "call"
  BY DEF It
<1> HIDE DEF call
<1>3. /\ buf'.bag = buf.bag /\ buf'.spans = buf.spans /\ buf'.bodies = buf.bodies
      /\ buf'.logs = buf.logs /\ buf'.window = buf.window \cup {call}
      /\ buf'.samples = buf.samples /\ buf'.effects = buf.effects
      /\ buf'.held = buf.held /\ buf'.counting = buf.counting
      /\ buf'.capturing = buf.capturing /\ buf'.sampling = buf.sampling
      /\ buf'.recording = buf.recording
  BY <1>1 DEF Accept, Buffers
<1>4. \A m \in made' \ made : m.during = open.id /\ Waiting(m.item)'
  BY <1>1, <1>3 DEF Accept, Noted, Waiting, On, Active
<1>5. Collects
  BY <1>1, <1>3, <1>4 DEF Accept, Collects
<1>6. Files
  BY <1>1, <1>2, <1>3 DEF Accept, Files, Effect
<1>7. QED
  BY <1>5, <1>6

\* A walk of the stack.
LEMMA TakeSampleCollects ==
    ASSUME Shaped, FlushInv, TakeSample
    PROVE  Collects /\ Files
<1> DEFINE sample == It("sample", open.id, 0)
<1>1. /\ Active /\ On("profiler") /\ buf.sampling
      /\ Accept({}, {sample}, [buf EXCEPT !.samples = @ \cup {sample}])
      /\ buf \in Buffers
  BY ArmedMeansOpen DEF TakeSample, On, Active, Shaped, Clean
<1>2. sample.what = "sample"
  BY DEF It
<1> HIDE DEF sample
<1>3. /\ buf'.bag = buf.bag /\ buf'.spans = buf.spans /\ buf'.bodies = buf.bodies
      /\ buf'.logs = buf.logs /\ buf'.window = buf.window
      /\ buf'.samples = buf.samples \cup {sample} /\ buf'.effects = buf.effects
      /\ buf'.held = buf.held /\ buf'.counting = buf.counting
      /\ buf'.capturing = buf.capturing /\ buf'.sampling = buf.sampling
      /\ buf'.recording = buf.recording
  BY <1>1 DEF Accept, Buffers
<1>4. \A m \in made' \ made : m.during = open.id /\ Waiting(m.item)'
  BY <1>1, <1>3 DEF Accept, Noted, Waiting, On, Active
<1>5. Collects
  BY <1>1, <1>3, <1>4 DEF Accept, Collects
<1>6. Files
  BY <1>1, <1>2, <1>3 DEF Accept, Files, Effect
<1>7. QED
  BY <1>5, <1>6

\* chronos_record_dst
LEMMA RecordEffectCollects ==
    ASSUME Shaped, FlushInv, RecordEffect
    PROVE  Collects /\ Files
<1> DEFINE effect == It("effect", open.id, 0)
<1>1. /\ Active /\ buf.recording
      /\ Accept({}, {effect}, [buf EXCEPT !.effects = @ \cup {effect}])
      /\ buf \in Buffers
  BY ArmedMeansOpen DEF RecordEffect, Active, Shaped, Clean
<1>2. effect.what = "effect"
  BY DEF It
<1> HIDE DEF effect
<1>3. /\ buf'.bag = buf.bag /\ buf'.spans = buf.spans /\ buf'.bodies = buf.bodies
      /\ buf'.logs = buf.logs /\ buf'.window = buf.window
      /\ buf'.samples = buf.samples /\ buf'.effects = buf.effects \cup {effect}
      /\ buf'.held = buf.held /\ buf'.counting = buf.counting
      /\ buf'.capturing = buf.capturing /\ buf'.sampling = buf.sampling
      /\ buf'.recording = buf.recording
  BY <1>1 DEF Accept, Buffers
<1>4. \A m \in made' \ made : m.during = open.id /\ Waiting(m.item)'
  BY <1>1, <1>3 DEF Accept, Noted, Waiting, On, Active
<1>5. Collects
  BY <1>1, <1>3, <1>4 DEF Accept, Collects
<1>6. Files
  BY <1>1, <1>2, <1>3 DEF Accept, Files, Effect
<1>7. QED
  BY <1>5, <1>6

\* The throw hook: an effect of a recording, and the witness of the last throw.
LEMMA ThrowCollects ==
    ASSUME Shaped, FlushInv, Throw
    PROVE  Collects /\ Files
<1> DEFINE effect == IF buf.recording THEN {It("exception", open.id, 0)} ELSE {}
           thrown == IF observed.id # 0 THEN observed.id ELSE buf.thrown
<1>1. /\ Active
      /\ Accept({}, effect, [buf EXCEPT !.thrown = thrown, !.effects = @ \cup effect])
      /\ buf \in Buffers
  BY ArmedMeansOpen DEF Throw, Active, Shaped, Clean
<1>2. /\ \A i \in effect : i.what = "exception"
      /\ effect # {} => buf.recording
  BY DEF It
<1> HIDE DEF effect, thrown
<1>3. /\ buf'.bag = buf.bag /\ buf'.spans = buf.spans /\ buf'.bodies = buf.bodies
      /\ buf'.logs = buf.logs /\ buf'.window = buf.window
      /\ buf'.samples = buf.samples /\ buf'.effects = buf.effects \cup effect
      /\ buf'.held = buf.held /\ buf'.counting = buf.counting
      /\ buf'.capturing = buf.capturing /\ buf'.sampling = buf.sampling
      /\ buf'.recording = buf.recording
  BY <1>1 DEF Accept, Buffers
<1>4. \A m \in made' \ made : m.during = open.id /\ Waiting(m.item)'
  BY <1>1, <1>2, <1>3 DEF Accept, Noted, Waiting
<1>5. Collects
  BY <1>1, <1>3, <1>4 DEF Accept, Collects
<1>6. Files
  BY <1>1, <1>2, <1>3 DEF Accept, Files, Effect
<1>7. QED
  BY <1>5, <1>6

\* chronos_set_http_response_body
LEMMA SetHttpResponseCollects ==
    ASSUME Shaped, FlushInv, SetHttpResponse
    PROVE  Collects /\ Files
<1> DEFINE body == It("body", open.id, Response)
<1>1. /\ Active /\ Traced(open)
      /\ Accept({body}, {}, [buf EXCEPT !.held = TRUE])
      /\ buf \in Buffers
  BY ArmedMeansOpen DEF SetHttpResponse, FlushInv, Armament, Active, Shaped, Clean
<1>2. /\ buf'.bag = buf.bag /\ buf'.spans = buf.spans /\ buf'.bodies = buf.bodies
      /\ buf'.logs = buf.logs /\ buf'.window = buf.window
      /\ buf'.samples = buf.samples /\ buf'.effects = buf.effects
      /\ buf'.held = TRUE /\ buf'.counting = buf.counting
      /\ buf'.capturing = buf.capturing /\ buf'.sampling = buf.sampling
      /\ buf'.recording = buf.recording
  BY <1>1 DEF Accept, Buffers
<1>3. \A m \in made' \ made : m.during = open.id /\ Waiting(m.item)'
  BY <1>1, <1>2 DEF Accept, Noted, Waiting, Traced
<1>4. Collects
  BY <1>1, <1>2, <1>3 DEF Accept, Collects
<1>5. Files
  BY <1>1, <1>2 DEF Accept, Files
<1>6. QED
  BY <1>4, <1>5

\* A publish reserves its span; the payload that was taken waits for the flush.
LEMMA PublishBeginCollects ==
    ASSUME Shaped, FlushInv, PublishBegin
    PROVE  Collects /\ Files
<1> DEFINE body == It("body", open.id, FirstPublish + calls)
           taken == Storable(open, buf)
<1>1. /\ Active /\ buf \in Buffers
      /\ publish' = It(IF taken THEN "stored" ELSE "span", body.of, body.n)
      /\ buf' = IF taken THEN [buf EXCEPT !.bodies = @ \cup {body}] ELSE buf
      /\ made' = IF taken THEN made \cup Noted(open, {body}, {}) ELSE made
      /\ UNCHANGED <<up, announced, started, open, observed, delivering, spool>>
  BY DEF PublishBegin, On, Shaped, Clean
<1>2. /\ body.what = "body" /\ body = It("body", body.of, body.n)
      /\ publish'.of = body.of /\ publish'.n = body.n
      /\ publish'.what = IF taken THEN "stored" ELSE "span"
      /\ taken => Traced(open)
  BY <1>1 DEF It, Storable
<1> HIDE DEF body, taken
<1>3. /\ buf'.bag = buf.bag /\ buf'.spans = buf.spans
      /\ buf'.bodies = (IF taken THEN buf.bodies \cup {body} ELSE buf.bodies)
      /\ buf'.logs = buf.logs /\ buf'.window = buf.window
      /\ buf'.samples = buf.samples /\ buf'.effects = buf.effects
      /\ buf'.held = buf.held /\ buf'.counting = buf.counting
      /\ buf'.capturing = buf.capturing /\ buf'.sampling = buf.sampling
      /\ buf'.recording = buf.recording
  BY <1>1 DEF Buffers
<1>4. \A m \in made' \ made : m.during = open.id /\ Waiting(m.item)'
  BY <1>1, <1>2, <1>3 DEF Noted, Waiting, Traced
<1>5. Collects
  BY <1>1, <1>3, <1>4 DEF Collects
<1>6. Files
  <2>1. taken => Backed(publish)'
    BY <1>2, <1>3 DEF Backed
  <2>2. QED
    BY <1>1, <1>2, <1>3, <2>1 DEF Files
<1>7. QED
  BY <1>5, <1>6

\* The publish returns while a request is open.
LEMMA PublishEndCollects ==
    ASSUME Shaped, FlushInv, PublishEnd, Active
    PROVE  Collects /\ Files
<1>1. /\ publish' = NoPublish /\ buf \in Buffers
      /\ buf' = IF On("apm") THEN [buf EXCEPT !.spans = @ \cup {publish}] ELSE buf
      /\ made' = IF On("apm") THEN made \cup Noted(open, {publish}, {}) ELSE made
      /\ UNCHANGED <<up, announced, started, open, observed, delivering, spool>>
  BY DEF PublishEnd, Shaped, Clean
<1>2. /\ buf'.bag = buf.bag
      /\ buf'.spans = (IF On("apm") THEN buf.spans \cup {publish} ELSE buf.spans)
      /\ buf'.bodies = buf.bodies /\ buf'.logs = buf.logs
      /\ buf'.window = buf.window /\ buf'.samples = buf.samples
      /\ buf'.effects = buf.effects /\ buf'.held = buf.held
      /\ buf'.counting = buf.counting /\ buf'.capturing = buf.capturing
      /\ buf'.sampling = buf.sampling /\ buf'.recording = buf.recording
  BY <1>1 DEF Buffers
<1>3. \A m \in made' \ made : m.during = open.id /\ Waiting(m.item)'
  BY <1>1, <1>2 DEF Noted, Waiting, Traced
<1>4. Collects
  <2>1. CASE On("apm")
    BY <1>1, <1>2, <1>3, <2>1 DEF Collects
  <2>2. CASE ~On("apm")
    BY <1>1, <1>2, <1>3, <2>2 DEF Collects
  <2>3. QED
    BY <2>1, <2>2
<1>5. publish'.what = "none"
  BY <1>1 DEF NoPublish, It
<1>6. Files
  BY <1>1, <1>2, <1>5 DEF Files
<1>7. QED
  BY <1>4, <1>6

\* A bridge starts the open request again: at most the recording starts over.
LEMMA EnrichCollects ==
    ASSUME Shaped, FlushInv, NEW offered, NEW directive \in BOOLEAN, NEW named,
           Enrich(offered, directive, named), spool' = spool, publish' = publish
    PROVE  Collects /\ Files
<1> DEFINE order == It("directive", open.id, 0)
           labels == IF named THEN Label(buf.labels, It("service", open.id, 0))
                     ELSE buf.labels
           labelled == IF named
                       THEN [buf EXCEPT !.labels = Label(@, It("service", open.id, 0))]
                       ELSE buf
<1>1. /\ Active /\ buf \in Buffers /\ open \in Opened /\ started' = started
      /\ open' = [open EXCEPT !.carried = Filled(open.carried, offered)]
      /\ buf' = IF directive THEN Activated(labelled) ELSE labelled
      /\ made' = IF directive THEN made \cup Noted(open, {}, {order}) ELSE made
  BY DEF Enrich, Shaped, Clean
<1>2. open'.id = open.id /\ open'.cfg = open.cfg /\ open'.sampled = open.sampled
  BY <1>1 DEF Opened
<1>3. order.what = "directive"
  BY DEF It
<1>4. labelled = [buf EXCEPT !.labels = labels]
  BY <1>1 DEF Buffers
<1> HIDE DEF order, labels, labelled
<1>5. directive => Redirected(open.id)'
  <2>1. ASSUME directive
        PROVE  \E m \in made' : m.item = order
    <3>1. [item |-> order, during |-> open.id] \in made'
      BY <1>1, <2>1 DEF Noted
    <3>2. QED
      BY <3>1
  <2>2. QED
    BY <1>2, <2>1 DEF Redirected, order
<1>6. /\ buf'.bag = buf.bag /\ buf'.spans = buf.spans /\ buf'.bodies = buf.bodies
      /\ buf'.logs = buf.logs /\ buf'.window = buf.window
      /\ buf'.samples = buf.samples
      /\ buf'.effects = (IF directive THEN {} ELSE buf.effects)
      /\ buf'.held = buf.held /\ buf'.counting = buf.counting
      /\ buf'.capturing = buf.capturing /\ buf'.sampling = buf.sampling
      /\ buf'.recording = (IF directive THEN TRUE ELSE buf.recording)
  BY <1>1, <1>4 DEF Buffers, Activated
<1>7. \A m \in made' \ made : m.during = open.id /\ Waiting(m.item)'
  BY <1>1, <1>3 DEF Noted, Waiting
<1>8. Collects
  BY <1>1, <1>2, <1>5, <1>6, <1>7 DEF Collects
<1>9. Files
  BY <1>6 DEF Files
<1>10. QED
  BY <1>8, <1>9
-----------------------------------------------------------------------------
(* The start of a request. *)

\* start_request leaves every buffer empty and arms what the verdict asks for.
Empty(b, cfg, sampled, armed, profiled) ==
    /\ b.bag = {} /\ b.spans = {} /\ b.bodies = {} /\ b.logs = {}
    /\ b.window = {} /\ b.samples = {} /\ b.effects = {}
    /\ b.held = FALSE
    /\ b.counting <=> "counted" \in cfg
    /\ b.capturing <=> "apm" \in cfg /\ sampled
    /\ b.sampling => profiled
    /\ b.recording = armed

\* start_request hands over what Empty says, whatever the last request left behind.
LEMMA ClearedIsEmpty ==
    ASSUME NEW old \in Buffers, ~old.sampling, old.samples = {}, NEW r, NEW cfg,
           NEW sampled, NEW armed, NEW profiled
    PROVE  Empty(Cleared(old, r, cfg, sampled, armed, profiled), cfg, sampled, armed, profiled)
<1> DEFINE new == Cleared(old, r, cfg, sampled, armed, profiled)
           arms == profiled /\ "stacks" \in cfg
           labels == IF arms THEN Label({It("trigger", r, 0)}, It("service", r, 0))
                     ELSE old.labels
<1>1. new = [spans |-> {}, bodies |-> {}, logs |-> {}, bag |-> {}, labels |-> labels,
             sampling |-> arms \/ old.sampling, samples |-> {},
             counting |-> "counted" \in cfg, window |-> {},
             recording |-> armed, effects |-> {},
             capturing |-> "apm" \in cfg /\ sampled, held |-> FALSE, thrown |-> 0]
  BY DEF Cleared, LogsAtStart, ThrownAtStart
<1> HIDE DEF new, labels, arms
<1>2. /\ new.bag = {} /\ new.spans = {} /\ new.bodies = {} /\ new.logs = {}
      /\ new.window = {} /\ new.samples = {} /\ new.effects = {}
  BY <1>1
<1>3. /\ new.held = FALSE /\ new.recording = armed
      /\ new.counting = ("counted" \in cfg)
      /\ new.capturing = ("apm" \in cfg /\ sampled)
      /\ new.sampling = (arms \/ old.sampling)
  <2>1. new.held = FALSE
    BY <1>1
  <2>2. new.recording = armed
    BY <1>1
  <2>3. new.counting = ("counted" \in cfg)
    BY <1>1
  <2>4. new.capturing = ("apm" \in cfg /\ sampled)
    BY <1>1
  <2>5. new.sampling = (arms \/ old.sampling)
    BY <1>1
  <2>6. QED
    BY <2>1, <2>2, <2>3, <2>4, <2>5
<1>4. arms => profiled
  BY DEF arms
<1>5. QED
  BY <1>2, <1>3, <1>4, Zenon DEF Empty, new

\* What RINIT or a delivery adds at once is in the bag, and its payload is kept.
Brings(new, b, now) ==
    /\ new.spans = b.spans /\ new.logs = b.logs /\ new.window = b.window
    /\ new.samples = b.samples /\ new.effects = b.effects /\ new.held = b.held
    /\ new.counting = b.counting /\ new.capturing = b.capturing
    /\ new.sampling = b.sampling /\ new.recording = b.recording
    /\ new.bag \subseteq {It(w, now.id, 0) : w \in {"origin", "consume", "stored"}}
    /\ new.bodies \subseteq {It("body", now.id, Message)}
    /\ new.bodies # {} => Traced(now)
    /\ \A i \in new.bag : i.what = "stored" => It("body", i.of, i.n) \in new.bodies

\* The originating trace and the facts and message of a delivery are filed as Brings says.
LEMMA BroughtBrings ==
    ASSUME NEW b \in Buffers, b.bag = {}, b.bodies = {}, NEW now,
           NEW with \in {"nothing", "origin", "facts", "message"}
    PROVE  Brings(Brought(now, b, with), b, now)
<1> DEFINE new == Brought(now, b, with)
<1> SUFFICES Brings(new, b, now)
  OBVIOUS
<1> HIDE DEF new
<1>1. CASE with = "nothing"
  BY <1>1 DEF new, Brought, Buffers, Brings
<1>2. CASE with = "origin"
  <2> DEFINE bag == Merge(b.bag, It("origin", now.id, 0))
  <2>1. new = [b EXCEPT !.bag = bag]
    BY <1>2 DEF new, Brought, Buffers
  <2>2. bag \subseteq {It("origin", now.id, 0)}
    BY PutWithin DEF Merge
  <2>3. It("origin", now.id, 0).what = "origin"
    BY DEF It
  <2> HIDE DEF bag
  <2>4. new.bag = bag /\ new.bodies = {}
    BY <2>1 DEF Buffers
  <2>5. QED
    BY <2>1, <2>2, <2>3, <2>4 DEF Buffers, Brings
<1>3. CASE with \in {"facts", "message"}
  <2> DEFINE taken == with = "message" /\ Storable(now, b)
             body == It("body", now.id, Message)
             bodies == IF taken THEN {body} ELSE {}
             bag == Promised(b.bag, now.id, taken)
             stored == It("stored", now.id, Message)
  <2>1. new = [b EXCEPT !.bodies = bodies, !.bag = bag]
    BY <1>3 DEF new, Brought, Buffers
  <2>2. /\ bag \subseteq {It("consume", now.id, 0), stored}
        /\ stored \in bag => taken \/ stored = It("consume", now.id, 0)
    BY PutWithin DEF Promised, Merge
  <2>3. /\ It("consume", now.id, 0).what = "consume" /\ stored.what = "stored"
        /\ stored.of = now.id /\ stored.n = Message /\ stored = It("stored", now.id, 0)
    BY DEF It, Message
  <2>4. taken => Traced(now)
    BY DEF Storable
  <2>5. bodies \subseteq {body} /\ (bodies # {} => taken) /\ (taken => body \in bodies)
    OBVIOUS
  <2>6. body = It("body", stored.of, stored.n)
    BY <2>3
  <2> HIDE DEF taken, bodies, bag, stored
  <2>7. new.bag = bag /\ new.bodies = bodies
    BY <2>1 DEF Buffers
  <2>8. \A i \in bag : i = It("consume", now.id, 0) \/ (i = stored /\ taken)
    BY <2>2, <2>3
  <2>9. QED
    BY <2>1, <2>3, <2>4, <2>5, <2>6, <2>7, <2>8 DEF Buffers, Brings
<1>4. QED
  BY <1>1, <1>2, <1>3

\* What a start leaves, in one place: the buffers hold what its caller brought and are
\* armed by the verdict, and what was brought is noted.
Starts ==
    /\ ~Active /\ started' = started + 1 /\ open'.id = started'
    /\ buf'.spans = {} /\ buf'.logs = {} /\ buf'.window = {}
    /\ buf'.samples = {} /\ buf'.effects = {} /\ ~buf'.held
    /\ buf'.counting => "counted" \in open'.cfg
    /\ buf'.capturing => Traced(open')
    /\ buf'.sampling => open'.sampled
    /\ buf'.recording => open'.sampled
    /\ buf'.bag \subseteq {It(w, open'.id, 0) : w \in {"origin", "consume", "stored"}}
    /\ buf'.bodies \subseteq {It("body", open'.id, Message)}
    /\ buf'.bodies # {} => Traced(open')
    /\ \A i \in buf'.bag : i.what = "stored" => It("body", i.of, i.n) \in buf'.bodies
    /\ made \subseteq made'
    /\ \A m \in made' \ made :
           /\ m.during = open'.id
           /\ \/ m.item.what = "heartbeat"
              \/ Traced(open') /\ m.item \in buf'.bag \cup buf'.bodies

\* start_request and its caller leave what Starts says, for any verdict.
LEMMA StartStarts ==
    ASSUME Settled, ~Active,
           NEW wire, NEW carried \in Baggage, NEW directive \in BOOLEAN,
           NEW token \in BOOLEAN, NEW with \in {"nothing", "origin", "facts", "message"},
           Start(wire, carried, directive, token, with)
    PROVE  Starts
<1>1. PICK cfg \in Deployments, profileRoll \in BOOLEAN, apmRoll \in BOOLEAN :
         LET r == started + 1
             armed == Armed(cfg, directive)
             profiled == Profiled(cfg, armed, token, wire, profileRoll)
             sampled == Sampled(armed, profiled, wire, apmRoll)
             now == [id |-> r, cfg |-> cfg, sampled |-> sampled, carried |-> carried]
         IN  /\ "collector" \in cfg
             /\ r <= MaxRequests
             /\ started' = r
             /\ announced' = TRUE
             /\ open' = now
             /\ observed' = [id |-> r, carried |-> carried]
             /\ buf' = Brought(now, Cleared(buf, r, cfg, sampled, armed, profiled), with)
             /\ made' = made \cup Noted(now, buf'.bag, Heartbeat(cfg) \cup buf'.bodies)
  BY Zenon DEF Start
<1> DEFINE armed == Armed(cfg, directive)
           profiled == Profiled(cfg, armed, token, wire, profileRoll)
           sampled == Sampled(armed, profiled, wire, apmRoll)
           now == [id |-> started + 1, cfg |-> cfg, sampled |-> sampled,
                   carried |-> carried]
           cleared == Cleared(buf, now.id, now.cfg, sampled, armed, profiled)
<1>2. /\ armed \in BOOLEAN /\ profiled \in BOOLEAN /\ sampled \in BOOLEAN
      /\ profiled => "profiler" \in cfg /\ sampled
      /\ armed => sampled
  BY DEF Armed, Profiled, Sampled
<1>3. /\ now \in Opened /\ now.id = started + 1 /\ now.id # 0 /\ now.cfg = cfg
      /\ now.sampled = sampled
  <2> HIDE DEF sampled
  <2>1. started + 1 \in Nat /\ started + 1 # 0 /\ cfg \in SUBSET Signals
    BY RequestConstants DEF Settled
  <2>2. QED
    BY <1>2, <2>1 DEF Opened
<1>4. /\ open' = now /\ started' = started + 1
      /\ buf' = Brought(now, cleared, with)
      /\ made' = made \cup Noted(now, buf'.bag, Heartbeat(cfg) \cup buf'.bodies)
  <2> HIDE DEF armed, profiled, sampled
  <2>1. cleared = Cleared(buf, started + 1, cfg, sampled, armed, profiled)
    BY <1>3
  <2> HIDE DEF cleared, now
  <2>2. QED
    BY <1>1, <2>1 DEF armed, profiled, sampled, now
<1> HIDE DEF armed, profiled, sampled, now
<1>5. Clean(buf, Closed) /\ buf \in Buffers /\ ~buf.sampling /\ buf.samples = {}
  BY DEF Settled, Active, Clean, Closed
<1>6. cleared \in Buffers
  BY <1>2, <1>3, <1>5, ClearedClean DEF Clean
<1>7. Empty(cleared, now.cfg, sampled, armed, profiled)
  BY <1>5, ClearedIsEmpty
<1> HIDE DEF cleared
<1>8. Brings(buf', cleared, now)
  <2>1. cleared.bag = {} /\ cleared.bodies = {}
    BY <1>7 DEF Empty
  <2>2. Brings(Brought(now, cleared, with), cleared, now)
    BY <1>6, <2>1, BroughtBrings
  <2>3. QED
    BY <1>4, <2>2
<1>9. made \subseteq made'
  BY <1>4
<1>10. ASSUME NEW m \in made' \ made
       PROVE  /\ m.during = now.id
              /\ \/ m.item.what = "heartbeat"
                 \/ Traced(now) /\ m.item \in buf'.bag \cup buf'.bodies
  <2>1. \A i \in Heartbeat(cfg) : i.what = "heartbeat"
    BY DEF Heartbeat, It
  <2>2. QED
    BY <1>4, <1>8, <2>1 DEF Noted, Brings
<1>11. Traced(now) <=> "apm" \in now.cfg /\ sampled
  BY <1>3 DEF Traced
<1>12. QED
  BY <1>2, <1>3, <1>4, <1>7, <1>8, <1>9, <1>10, <1>11 DEF Starts, Empty, Brings

\* A start keeps the invariant: nothing of the request before it is left to promise or
\* to deliver, and the marker of a job promises nothing.
LEMMA StartsKeeps ==
    ASSUME Shaped, FlushInv, Starts, publish' = publish,
           spool' \in {spool, Append(spool, Marker(started'))}
    PROVE  FlushInv'
<1>1. /\ open.id = 0 /\ started \in Nat /\ started' = started + 1 /\ open'.id = started'
      /\ Active' /\ spool \in Seq(Doc)
      /\ \A signal : On(signal)' <=> signal \in open'.cfg
  BY DEF Starts, Active, On, Shaped, OwnDocs
<1>2. /\ Longer(spool, spool')
      /\ \A d \in DOMAIN spool' :
             \/ d \in DOMAIN spool /\ spool'[d] = spool[d]
             \/ spool'[d].kind = "jobrun" /\ spool'[d].of = started' /\ spool'[d].has = {}
  <2>1. CASE spool' = spool
    BY <1>1, <2>1 DEF Longer
  <2>2. CASE spool' = Append(spool, Marker(started'))
    BY <1>1, <2>2, Marked
  <2>3. QED
    BY <2>1, <2>2
<1>3. made \subseteq made'
  BY DEF Starts
<1>4. Stamped'
  <2>1. /\ open.id <= started
        /\ \A d \in DOMAIN spool : spool[d].of <= started /\ spool[d].of \in Nat
        /\ \A d \in DOMAIN spool : spool[d].kind = "spans" => spool[d].of # 0
        /\ OneTraceEach
    <3>1. \A d \in DOMAIN spool : spool[d] \in Doc
      BY <1>1
    <3>2. \A d \in DOMAIN spool : spool[d].of \in Nat
      BY <3>1 DEF Doc
    <3>3. QED
      BY <1>1, <3>2 DEF FlushInv, Stamped
  <2>2. \A d \in DOMAIN spool' : spool'[d].of <= started'
    BY <1>1, <1>2, <2>1
  <2>3. \A d \in DOMAIN spool' : spool'[d].kind = "spans" => d \in DOMAIN spool /\ spool'[d] = spool[d]
    BY <1>2
  <2>4. \A d \in DOMAIN spool' : spool'[d].kind = "spans" => spool'[d].of \notin {0, open'.id}
    BY <1>1, <2>1, <2>3
  <2>5. OneTraceEach'
    BY <2>1, <2>3 DEF OneTraceEach
  <2>6. QED
    BY <1>1, <2>2, <2>4, <2>5 DEF Stamped
<1>5. Armament'
  BY <1>1 DEF Armament, Starts
<1>6. Sorted'
  <2>1. \A i \in buf'.bag : i = It(i.what, open'.id, 0)
    BY DEF Starts, It
  <2>2. \A i \in buf'.bodies : i.what = "body"
    BY DEF Starts, It
  <2>3. QED
    BY <2>1, <2>2 DEF Sorted, Starts
<1>7. Accounted'
  <2>1. ASSUME NEW m \in made'
        PROVE  /\ m.during \in 1..started'
               /\ IF m.during = open'.id THEN Waiting(m.item)' ELSE Delivered(m)'
    <3>1. CASE m \in made
      <4>1. m.during \in 1..started /\ Delivered(m)
        BY <1>1, <3>1 DEF FlushInv, Accounted
      <4>2. Delivered(m)'
        BY <1>2, <1>3, <4>1, StaysDelivered
      <4>3. QED
        BY <1>1, <4>1, <4>2
    <3>2. CASE m \notin made
      <4>1. /\ m.during = open'.id
            /\ \/ m.item.what = "heartbeat"
               \/ Traced(open') /\ m.item \in buf'.bag \cup buf'.bodies
        BY <3>2 DEF Starts
      <4>2. Waiting(m.item)'
        BY <4>1 DEF Waiting
      <4>3. QED
        BY <1>1, <4>1, <4>2
    <3>3. QED
      BY <3>1, <3>2
  <2>2. QED
    BY <2>1 DEF Accounted
<1>8. Promises'
  <2>1. ASSUME publish.what = "stored" PROVE Backed(publish)'
    <3>1. buf.bodies = {}
      BY DEF FlushInv, Armament, Starts
    <3>2. \E b \in DOMAIN spool : It("body", publish.of, publish.n) \in spool[b].has
      BY <2>1, <3>1 DEF FlushInv, Promises, Backed
    <3>3. \E b \in DOMAIN spool' : It("body", publish.of, publish.n) \in spool'[b].has
      BY <1>2, <3>2 DEF Longer
    <3>4. QED
      BY <3>3 DEF Backed
  <2>2. ASSUME NEW i \in buf'.bag \cup buf'.spans, i.what = "stored" PROVE Backed(i)'
    BY <2>2 DEF Starts, Backed
  <2>3. NoPromiseWithoutBody'
    <3>1. ASSUME NEW d \in DOMAIN spool', NEW i \in spool'[d].has, i.what = "stored"
          PROVE  \E b \in DOMAIN spool' : b < d /\ It("body", i.of, i.n) \in spool'[b].has
      <4>1. d \in DOMAIN spool /\ spool'[d] = spool[d]
        BY <1>2, <3>1
      <4>2. \E b \in DOMAIN spool : b < d /\ It("body", i.of, i.n) \in spool[b].has
        BY <3>1, <4>1 DEF FlushInv, Promises, NoPromiseWithoutBody
      <4>3. QED
        BY <1>2, <4>2 DEF Longer
    <3>2. QED
      BY <3>1 DEF NoPromiseWithoutBody
  <2>4. QED
    BY <2>1, <2>2, <2>3 DEF Promises
<1>9. QED
  BY <1>4, <1>5, <1>6, <1>7, <1>8 DEF FlushInv
-----------------------------------------------------------------------------
(* The end of a request. *)

\* The documents from s to t are of the open request; none is a batch of spans or
\* promises a payload, and a profile or a recording has something behind it.
Adds(s, t) ==
    /\ Longer(s, t)
    /\ \A d \in DOMAIN t \ DOMAIN s :
           /\ t[d].of = open.id /\ t[d].kind # "spans"
           /\ \A i \in t[d].has : i.what # "stored"
           /\ t[d].kind = "profile" => buf.samples # {}
           /\ t[d].kind = "dst" => buf.recording

\* A signal that is off adds nothing.
LEMMA AddsNothing == ASSUME NEW s \in Seq(Doc) PROVE Adds(s, s \o <<>>) /\ s \o <<>> = s
  BY DEF Adds, Longer

\* Flushes add up.
LEMMA AddsMore ==
    ASSUME NEW s, NEW t, NEW u, Adds(s, t), Adds(t, u)
    PROVE  Adds(s, u)
<1>1. Longer(s, u)
  BY LongerLonger DEF Adds
<1>2. ASSUME NEW d \in DOMAIN u \ DOMAIN s
      PROVE  /\ u[d].of = open.id /\ u[d].kind # "spans"
             /\ \A i \in u[d].has : i.what # "stored"
             /\ u[d].kind = "profile" => buf.samples # {}
             /\ u[d].kind = "dst" => buf.recording
  <2>1. CASE d \in DOMAIN t
    <3>1. u[d] = t[d]
      BY <2>1 DEF Adds, Longer
    <3>2. QED
      BY <1>2, <2>1, <3>1 DEF Adds
  <2>2. CASE d \notin DOMAIN t
    BY <1>2, <2>2 DEF Adds
  <2>3. QED
    BY <2>1, <2>2
<1>3. QED
  BY <1>1, <1>2 DEF Adds

\* One flush behind another.
LEMMA AddsDocument ==
    ASSUME NEW s \in Seq(Doc), open.id \in Nat, NEW kind \in Kinds, kind # "spans",
           NEW has \in SUBSET Item, \A i \in has : i.what # "stored",
           kind = "profile" => buf.samples # {}, kind = "dst" => buf.recording
    PROVE  /\ Adds(s, s \o D(kind, open.id, has))
           /\ \A i \in has : Holds(s \o D(kind, open.id, has), open.id, i)
<1> DEFINE t == D(kind, open.id, has)
<1>1. /\ t \in Seq(Doc)
      /\ \A d \in DOMAIN t : t[d].kind = kind /\ t[d].of = open.id /\ t[d].has = has
      /\ \A i \in has : Holds(t, open.id, i)
  BY OneDocument
<1> HIDE DEF t
<1>2. Longer(s, s \o t)
  BY <1>1, Joined
<1>3. ASSUME NEW d \in DOMAIN (s \o t) \ DOMAIN s
      PROVE  /\ (s \o t)[d].of = open.id /\ (s \o t)[d].kind = kind
             /\ (s \o t)[d].has = has
  <2>1. d - Len(s) \in DOMAIN t /\ (s \o t)[d] = t[d - Len(s)]
    BY <1>1, <1>3, Joined
  <2>2. QED
    BY <1>1, <2>1
<1>4. Adds(s, s \o t)
  BY <1>2, <1>3 DEF Adds
<1>5. \A i \in has : Holds(s \o t, open.id, i)
  BY <1>1, JoinedHolds
<1>6. QED
  BY <1>4, <1>5 DEF t

\* What the four flushes behind the trace write.
LEMMA RestIsWritten ==
    ASSUME Shaped, FlushInv, Active, NEW s \in Seq(Doc), NEW t,
           t = s \o Profile(buf) \o Counted(buf) \o Logs(buf) \o Recording(buf)
    PROVE  /\ Adds(s, t)
           /\ On("profiler") => \A i \in buf.samples : Holds(t, open.id, i)
           /\ On("counted") => \A i \in buf.window : Holds(t, open.id, i)
           /\ On("logs") => \A i \in buf.logs : Holds(t, open.id, i)
           /\ buf.recording => \A i \in buf.effects : Holds(t, open.id, i)
<1> DEFINE p == s \o Profile(buf)
           c == p \o Counted(buf)
           l == c \o Logs(buf)
           r == l \o Recording(buf)
<1>1. /\ buf \in Buffers /\ open.id \in Nat
      /\ \A i \in buf.labels : i.what \in Labels
  BY DEF Shaped, Clean, Opened
<1>2. \A i : i.what \in Labels => i.what # "stored"
  BY RequestConstants DEF Labels, Evidence
<1>3. /\ It("outcome", open.id, 0) \in Item
      /\ It("outcome", open.id, 0).what = "outcome"
  BY <1>1, ItIsItem DEF What, Evidence, It
<1>4. /\ OwnDocs(Profile(buf)) /\ OwnDocs(Counted(buf)) /\ OwnDocs(Logs(buf))
      /\ OwnDocs(Recording(buf))
  <2>1. Own({}, open.id)
    BY OwnNothing
  <2>2. QED
    BY <2>1, FlushOwn DEF Shaped, Active
<1>5. p \in Seq(Doc) /\ c \in Seq(Doc) /\ l \in Seq(Doc) /\ r \in Seq(Doc)
  BY <1>4 DEF OwnDocs
<1>6. Adds(s, p) /\ (On("profiler") => \A i \in buf.samples : Holds(p, open.id, i))
  <2> DEFINE has == buf.samples \cup OutcomeOf(buf.labels)
  <2>1. OutcomeOf(buf.labels) \subseteq buf.labels \cup {It("outcome", open.id, 0)}
    BY PutWithin DEF OutcomeOf, Label
  <2>2. has \in SUBSET Item /\ buf.samples \subseteq has
    BY <1>1, <1>3, <2>1 DEF Buffers
  <2>3. \A i \in has : i.what # "stored"
    BY <1>1, <1>2, <1>3, <2>1 DEF FlushInv, Sorted
  <2>4. Profile(buf) = IF ~On("profiler") \/ buf.samples = {} THEN <<>>
                       ELSE D("profile", open.id, has)
    BY DEF Profile
  <2> HIDE DEF has, c, l, r
  <2>5. CASE ~On("profiler") \/ buf.samples = {}
    BY <2>4, <2>5, AddsNothing
  <2>6. CASE ~(~On("profiler") \/ buf.samples = {})
    <3>1. "profile" \in Kinds
      BY DEF Kinds
    <3>2. /\ Adds(s, s \o D("profile", open.id, has))
          /\ \A i \in has : Holds(s \o D("profile", open.id, has), open.id, i)
      BY <1>1, <2>2, <2>3, <2>6, <3>1, AddsDocument
    <3>3. QED
      BY <2>2, <2>4, <2>6, <3>2
  <2>7. QED
    BY <2>5, <2>6
<1>7. Adds(p, c) /\ (On("counted") => \A i \in buf.window : Holds(c, open.id, i))
  <2> DEFINE has == buf.window \cup {k \in buf.labels : k.what # "outcome"}
                        \cup {It("outcome", open.id, 0)}
  <2>1. has \in SUBSET Item /\ buf.window \subseteq has
    BY <1>1, <1>3 DEF Buffers
  <2>2. \A i \in has : i.what # "stored"
    BY <1>1, <1>2, <1>3 DEF FlushInv, Sorted
  <2>3. Counted(buf) = IF ~On("counted") \/ buf.window = {} THEN <<>>
                       ELSE D("counted", open.id, has)
    BY DEF Counted
  <2> HIDE DEF has, p, l, r
  <2>4. CASE ~On("counted") \/ buf.window = {}
    BY <1>5, <2>3, <2>4, AddsNothing
  <2>5. CASE ~(~On("counted") \/ buf.window = {})
    <3>1. "counted" \in Kinds
      BY DEF Kinds
    <3>2. /\ Adds(p, p \o D("counted", open.id, has))
          /\ \A i \in has : Holds(p \o D("counted", open.id, has), open.id, i)
      BY <1>1, <1>5, <2>1, <2>2, <3>1, AddsDocument
    <3>3. QED
      BY <2>1, <2>3, <2>5, <3>2
  <2>6. QED
    BY <2>4, <2>5
<1>8. Adds(c, l) /\ (On("logs") => \A i \in buf.logs : Holds(l, open.id, i))
  <2>1. buf.logs \in SUBSET Item /\ \A i \in buf.logs : i.what # "stored"
    BY <1>1 DEF FlushInv, Sorted, Buffers
  <2> HIDE DEF p, c, r
  <2>2. CASE On("logs")
    <3>1. "logs" \in Kinds
      BY DEF Kinds
    <3>2. /\ Adds(c, c \o D("logs", open.id, buf.logs))
          /\ \A i \in buf.logs : Holds(c \o D("logs", open.id, buf.logs), open.id, i)
      BY <1>1, <1>5, <2>1, <3>1, AddsDocument
    <3>3. QED
      BY <2>2, <3>2 DEF Logs
  <2>3. CASE ~On("logs")
    BY <1>5, <2>3, AddsNothing DEF Logs
  <2>4. QED
    BY <2>2, <2>3
<1>9. Adds(l, r) /\ (buf.recording => \A i \in buf.effects : Holds(r, open.id, i))
  <2>1. buf.effects \in SUBSET Item /\ \A i \in buf.effects : i.what # "stored"
    BY <1>1 DEF FlushInv, Sorted, Buffers, Effect
  <2> HIDE DEF p, c, l
  <2>2. CASE buf.recording
    <3>1. "dst" \in Kinds
      BY DEF Kinds
    <3>2. /\ Adds(l, l \o D("dst", open.id, buf.effects))
          /\ \A i \in buf.effects : Holds(l \o D("dst", open.id, buf.effects), open.id, i)
      BY <1>1, <1>5, <2>1, <2>2, <3>1, AddsDocument
    <3>3. QED
      BY <2>2, <3>2 DEF Recording
  <2>3. CASE ~buf.recording
    BY <1>5, <2>3, AddsNothing DEF Recording
  <2>4. QED
    BY <2>2, <2>3
<1>10. t = r
  OBVIOUS
<1> HIDE DEF p, c, l, r
<1>11. Adds(c, r) /\ Adds(p, r) /\ Adds(s, r)
  BY <1>6, <1>7, <1>8, <1>9, AddsMore
<1>12. Longer(p, r) /\ Longer(c, r) /\ Longer(l, r)
  BY <1>9, <1>11 DEF Adds
<1>13. QED
  BY <1>6, <1>7, <1>8, <1>9, <1>10, <1>11, <1>12, LongerHolds

\* The documents from the spool to t are the payloads and the one batch of spans of the
\* open request; every promise finds its payload, and nothing of the trace is missing.
Traces(t) ==
    /\ Longer(spool, t)
    /\ \A d \in DOMAIN t \ DOMAIN spool : t[d].of = open.id /\ t[d].kind \in {"bodies", "spans"}
    /\ \A c, d \in DOMAIN t \ DOMAIN spool :
           t[c].kind = "spans" /\ t[d].kind = "spans" => c = d
    /\ \A d \in DOMAIN t : \A i \in t[d].has :
           i.what = "stored" =>
               \E b \in DOMAIN t : b < d /\ It("body", i.of, i.n) \in t[b].has
    /\ Traced(open) =>
           /\ \A i \in buf.bag \cup buf.spans \cup buf.bodies : Holds(t, open.id, i)
           /\ buf.held => Holds(t, open.id, It("body", open.id, Response))
           /\ Holds(t, open.id, It("root", open.id, 0))

\* The trace of a request is written as Traces says: payloads first.
LEMMA TraceIsWritten ==
    ASSUME Shaped, FlushInv, Active, NEW error \in SUBSET Item,
           \A i \in error : i.what = "error", NEW t, t = spool \o Trace(buf, error)
    PROVE  Traces(t)
<1>1. /\ spool \in Seq(Doc) /\ buf \in Buffers /\ open.id \in Nat
      /\ NoPromiseWithoutBody
  BY DEF Shaped, OwnDocs, Clean, Opened, FlushInv, Promises
<1>2. CASE ~Traced(open)
  <2>1. t = spool
    BY <1>1, <1>2, AddsNothing DEF Trace
  <2>2. QED
    BY <1>1, <1>2, <2>1 DEF Traces, Longer, NoPromiseWithoutBody
<1>3. CASE Traced(open)
  <2> DEFINE response == It("body", open.id, Response)
             promise == It("stored", open.id, Response)
             root == It("root", open.id, 0)
             bodies == buf.bodies \cup (IF buf.held THEN {response} ELSE {})
             spans == buf.spans \cup ({root} \cup error \cup buf.bag
                          \cup (IF buf.held THEN {promise} ELSE {}))
             B == D("bodies", open.id, bodies)
             S == D("spans", open.id, spans)
             u == spool \o B
  <2>1. /\ response \in Item /\ promise \in Item /\ root \in Item
        /\ response.what = "body" /\ promise.what = "stored" /\ root.what = "root"
        /\ response = It("body", promise.of, promise.n)
    BY <1>1, ItIsItem DEF What, Evidence, Response, It
  <2>2. /\ bodies \in SUBSET Item /\ spans \in SUBSET Item
        /\ buf.bodies \subseteq bodies /\ (buf.held => response \in bodies)
        /\ buf.bag \cup buf.spans \cup {root} \subseteq spans
        /\ \A i \in bodies : i.what = "body"
        /\ \A i \in spans :
               i.what = "stored" => i \in buf.bag \cup buf.spans \/ (buf.held /\ i = promise)
    <3>1. \A i \in buf.bodies : i.what = "body"
      BY DEF FlushInv, Sorted
    <3> HIDE DEF response, promise, root
    <3>2. QED
      BY <1>1, <2>1, <3>1 DEF Buffers
  <2>3. Trace(buf, error) = B \o S
    BY <1>3 DEF Trace, BodiesFirst, Root
  <2> HIDE DEF response, promise, root, bodies, spans, B, S, u
  <2>4. "bodies" \in Kinds /\ "spans" \in Kinds
    BY DEF Kinds
  <2>5. /\ B \in Seq(Doc)
        /\ \A d \in DOMAIN B : B[d].kind = "bodies" /\ B[d].of = open.id /\ B[d].has = bodies
        /\ \A i \in bodies : Holds(B, open.id, i)
    BY <1>1, <2>2, <2>4, OneDocument DEF B
  <2>6. /\ S \in Seq(Doc) /\ Len(S) <= 1
        /\ \A d \in DOMAIN S : S[d].kind = "spans" /\ S[d].of = open.id /\ S[d].has = spans
        /\ \A i \in spans : Holds(S, open.id, i)
    BY <1>1, <2>2, <2>4, OneDocument DEF S
  <2>7. u \in Seq(Doc) /\ t = u \o S
    BY <1>1, <2>3, <2>5, <2>6 DEF u
  <2>8. Longer(spool, u) /\ Longer(u, t) /\ Longer(spool, t)
    BY <1>1, <2>5, <2>6, <2>7, Joined, LongerLonger DEF u
  <2>9. ASSUME NEW d \in DOMAIN u \ DOMAIN spool
        PROVE  u[d].kind = "bodies" /\ u[d].of = open.id /\ u[d].has = bodies
    <3>1. d - Len(spool) \in DOMAIN B /\ u[d] = B[d - Len(spool)]
      BY <1>1, <2>5, <2>9, Joined DEF u
    <3>2. QED
      BY <2>5, <3>1
  <2>10. ASSUME NEW d \in DOMAIN t \ DOMAIN u
         PROVE  d = Len(u) + 1 /\ t[d].kind = "spans" /\ t[d].of = open.id /\ t[d].has = spans
    <3>1. d > Len(u) /\ d - Len(u) \in DOMAIN S /\ t[d] = S[d - Len(u)]
      BY <2>6, <2>7, <2>10, Joined
    <3>2. d - Len(u) = 1 /\ d \in Nat /\ Len(u) \in Nat
      BY <2>6, <2>7, <2>10, <3>1
    <3>3. QED
      BY <2>6, <3>1, <3>2
  <2>11. \A d \in DOMAIN u : d \in DOMAIN t /\ t[d] = u[d] /\ d \in Nat /\ d < Len(u) + 1
    BY <2>7, <2>8 DEF Longer
  <2>12. \A i \in bodies : Holds(u, open.id, i)
    BY <1>1, <2>5, JoinedHolds DEF u
  <2>13. \A i \in bodies : \E b \in DOMAIN u : i \in u[b].has
    BY <2>12 DEF Holds
  <2>14. \A i \in spans \cup bodies : Holds(t, open.id, i)
    BY <2>6, <2>7, <2>12, JoinedHolds
  <2>15. \A d \in DOMAIN t \ DOMAIN spool :
             t[d].of = open.id /\ t[d].kind \in {"bodies", "spans"}
    BY <2>9, <2>10, <2>11
  <2>16. \A c, d \in DOMAIN t \ DOMAIN spool :
             t[c].kind = "spans" /\ t[d].kind = "spans" => c = d
    BY <2>9, <2>10, <2>11
  <2>17. ASSUME NEW d \in DOMAIN t, NEW i \in t[d].has, i.what = "stored"
         PROVE  \E b \in DOMAIN t : b < d /\ It("body", i.of, i.n) \in t[b].has
    <3>1. CASE d \in DOMAIN spool
      <4>1. t[d] = spool[d]
        BY <2>8, <3>1 DEF Longer
      <4>2. \E b \in DOMAIN spool : b < d /\ It("body", i.of, i.n) \in spool[b].has
        BY <1>1, <2>17, <3>1, <4>1 DEF NoPromiseWithoutBody
      <4>3. QED
        BY <2>8, <4>2 DEF Longer
    <3>2. CASE d \in DOMAIN u \ DOMAIN spool
      BY <2>2, <2>9, <2>11, <2>17, <3>2
    <3>3. CASE d \notin DOMAIN u
      <4>1. i \in spans /\ d = Len(u) + 1
        BY <2>10, <2>17, <3>3
      <4>2. \E b \in DOMAIN u : It("body", i.of, i.n) \in u[b].has
        <5>1. CASE i \in buf.bag \cup buf.spans
          <6>1. \/ It("body", i.of, i.n) \in buf.bodies
                \/ \E b \in DOMAIN spool : It("body", i.of, i.n) \in spool[b].has
            BY <2>17, <5>1 DEF FlushInv, Promises, Backed
          <6>2. QED
            BY <2>2, <2>8, <2>13, <6>1 DEF Longer
        <5>2. CASE buf.held /\ i = promise
          BY <2>1, <2>2, <2>13, <5>2
        <5>3. QED
          BY <2>2, <2>17, <4>1, <5>1, <5>2
      <4>3. QED
        BY <2>11, <4>1, <4>2
    <3>4. QED
      BY <3>1, <3>2, <3>3
  <2>18. /\ \A i \in buf.bag \cup buf.spans \cup buf.bodies : Holds(t, open.id, i)
         /\ buf.held => Holds(t, open.id, response)
         /\ Holds(t, open.id, root)
    BY <2>2, <2>14
  <2>19. QED
    BY <2>8, <2>15, <2>16, <2>17, <2>18 DEF Traces, response, root
<1>4. QED
  BY <1>2, <1>3

\* What the end leaves in the buffers: nothing new, and nothing of what it has sent.
LEMMA DrainedFields ==
    ASSUME buf \in Buffers, NEW b, b = Drained(buf)
    PROVE  /\ b.bag = {} /\ b.window = {}
           /\ b.spans \subseteq buf.spans /\ b.logs \subseteq buf.logs
           /\ b.effects \subseteq buf.effects
           /\ b.bodies = IF Traced(open) THEN {} ELSE buf.bodies
           /\ ~b.counting /\ ~b.capturing /\ ~b.recording /\ ~b.held
<1> DEFINE done == RecordingDone(buf)
           effects == IF buf.recording THEN {} ELSE buf.effects
           sent == Traced(open)
           profiler == On("profiler")
           logs == On("logs")
<1>1. done = [buf EXCEPT !.recording = FALSE, !.effects = effects]
  BY DEF RecordingDone
<1>2. b = [done EXCEPT
              !.bag = {}, !.spans = IF sent THEN {} ELSE @,
              !.bodies = IF sent THEN {} ELSE @, !.labels = IF profiler THEN {} ELSE @,
              !.samples = IF profiler THEN {} ELSE @,
              !.sampling = IF profiler THEN FALSE ELSE @,
              !.counting = FALSE, !.window = {}, !.logs = IF logs THEN {} ELSE @,
              !.capturing = FALSE, !.held = FALSE]
  BY DEF Drained
<1>3. effects \subseteq buf.effects
  OBVIOUS
<1> HIDE DEF done, effects, sent, profiler, logs
<1>4. /\ DOMAIN done = DOMAIN buf
      /\ done.spans = buf.spans /\ done.bodies = buf.bodies /\ done.logs = buf.logs
      /\ done.effects = effects /\ done.recording = FALSE
  BY <1>1 DEF Buffers
<1>5. /\ b.bag = {} /\ b.window = {} /\ b.effects = done.effects
      /\ b.recording = done.recording
      /\ b.spans = IF sent THEN {} ELSE done.spans
      /\ b.logs = IF logs THEN {} ELSE done.logs
      /\ b.bodies = IF sent THEN {} ELSE done.bodies
      /\ b.counting = FALSE /\ b.capturing = FALSE /\ b.held = FALSE
  BY <1>2, <1>4 DEF Buffers
<1>6. QED
  BY <1>3, <1>4, <1>5 DEF sent

\* What is new in the spool after the end of a request, whichever error it reports.
LEMMA EndWrites ==
    ASSUME Shaped, FlushInv, Active, NEW error \in SUBSET Item,
           \A i \in error : i.what = "error", End(error)
    PROVE  \E t : Traces(t) /\ Adds(t, spool')
                  /\ \A i : Waiting(i) =>
                         \/ i.what \in {"heartbeat", "directive"}
                         \/ Holds(spool', open.id, i)
                         \/ i.what \in Effect /\ Redirected(open.id)
<1> DEFINE t == spool \o Trace(buf, error)
<1>1. Traces(t)
  BY TraceIsWritten
<1>2. t \in Seq(Doc)
  BY <1>1 DEF Traces, Longer
<1>3. spool' = t \o Profile(buf) \o Counted(buf) \o Logs(buf) \o Recording(buf)
  BY DEF End
<1> HIDE DEF t
<1>4. /\ Adds(t, spool')
      /\ On("profiler") => \A i \in buf.samples : Holds(spool', open.id, i)
      /\ On("counted") => \A i \in buf.window : Holds(spool', open.id, i)
      /\ On("logs") => \A i \in buf.logs : Holds(spool', open.id, i)
      /\ buf.recording => \A i \in buf.effects : Holds(spool', open.id, i)
  BY <1>2, <1>3, RestIsWritten
<1>5. Traced(open) =>
          /\ \A i \in buf.bag \cup buf.spans \cup buf.bodies : Holds(spool', open.id, i)
          /\ buf.held => Holds(spool', open.id, It("body", open.id, Response))
  BY <1>1, <1>4, LongerHolds DEF Traces, Adds
<1>6. ASSUME NEW i, Waiting(i)
      PROVE  \/ i.what \in {"heartbeat", "directive"}
             \/ Holds(spool', open.id, i)
             \/ i.what \in Effect /\ Redirected(open.id)
  BY <1>4, <1>5, <1>6 DEF Waiting
<1>7. QED
  BY <1>1, <1>4, <1>6

\* The end of a request keeps the invariant.
LEMMA EndKeeps ==
    ASSUME Shaped, Shaped', FlushInv, Active, NEW error \in SUBSET Item,
           \A i \in error : i.what = "error", End(error),
           started' = started, made' = made, publish' \in {publish, NoPublish}
    PROVE  FlushInv'
<1>1. PICK t : /\ Traces(t) /\ Adds(t, spool')
               /\ \A i : Waiting(i) =>
                      \/ i.what \in {"heartbeat", "directive"}
                      \/ Holds(spool', open.id, i)
                      \/ i.what \in Effect /\ Redirected(open.id)
  BY EndWrites
<1>2. /\ open'.id = 0 /\ ~Active' /\ open.id \in Nat /\ open.id # 0 /\ started \in Nat
      /\ buf \in Buffers /\ buf' = Drained(buf)
  BY DEF End, StateTaken, Closed, Active, Shaped, Opened, Clean
<1>3. /\ Longer(spool, t) /\ Longer(t, spool') /\ Longer(spool, spool')
  BY <1>1, LongerLonger DEF Traces, Adds
<1>4. \A d \in DOMAIN spool' :
          \/ d \in DOMAIN spool /\ spool'[d] = spool[d]
          \/ /\ d \notin DOMAIN spool /\ spool'[d].of = open.id
             /\ \/ d \in DOMAIN t /\ spool'[d] = t[d]
                \/ d \notin DOMAIN t /\ spool'[d].kind # "spans"
  BY <1>1, <1>3 DEF Traces, Adds, Longer
<1>5. Stamped'
  <2>1. /\ open.id <= started
        /\ \A d \in DOMAIN spool : spool[d].of <= started
        /\ \A d \in DOMAIN spool : spool[d].kind = "spans" => spool[d].of \notin {0, open.id}
        /\ OneTraceEach
    BY DEF FlushInv, Stamped
  <2>2. open'.id <= started'
    BY <1>2
  <2>3. \A d \in DOMAIN spool' : spool'[d].of <= started'
    BY <1>4, <2>1
  <2>4. \A d \in DOMAIN spool' : spool'[d].kind = "spans" => spool'[d].of \notin {0, open'.id}
    BY <1>2, <1>4, <2>1
  <2>5. ASSUME NEW c \in DOMAIN spool', NEW d \in DOMAIN spool',
               spool'[c].kind = "spans", spool'[d].kind = "spans", spool'[c].of = spool'[d].of
        PROVE  c = d
    <3>1. CASE c \in DOMAIN spool
      BY <1>4, <2>1, <2>5, <3>1 DEF OneTraceEach
    <3>2. CASE c \notin DOMAIN spool
      <4>1. d \notin DOMAIN spool
        BY <1>4, <2>1, <2>5, <3>2
      <4>2. c \in DOMAIN t \ DOMAIN spool /\ d \in DOMAIN t \ DOMAIN spool
            /\ t[c].kind = "spans" /\ t[d].kind = "spans"
        BY <1>4, <2>5, <3>2, <4>1
      <4>3. QED
        BY <1>1, <4>2 DEF Traces
    <3>3. QED
      BY <3>1, <3>2
  <2>6. QED
    BY <2>2, <2>3, <2>4, <2>5 DEF Stamped, OneTraceEach
<1>6. /\ buf'.bag = {} /\ buf'.window = {}
      /\ buf'.spans \subseteq buf.spans /\ buf'.logs \subseteq buf.logs
      /\ buf'.effects \subseteq buf.effects
      /\ buf'.bodies = {}
      /\ ~buf'.counting /\ ~buf'.capturing /\ ~buf'.recording /\ ~buf'.held
      /\ ~buf'.sampling /\ buf'.samples = {}
  <2>1. ~Traced(open) => buf.bodies = {}
    BY DEF FlushInv, Armament
  <2>2. ~buf'.sampling /\ buf'.samples = {}
    BY <1>2 DEF Shaped, Clean
  <2>3. QED
    BY <1>2, <2>1, <2>2, DrainedFields
<1>7. Armament'
  BY <1>6 DEF Armament
<1>8. Sorted'
  BY <1>6 DEF FlushInv, Sorted
<1>9. Accounted'
  <2>1. ASSUME NEW m \in made'
        PROVE  m.during \in 1..started' /\ Delivered(m)'
    <3>1. m.during \in 1..started /\ m \in made
      BY <2>1 DEF FlushInv, Accounted
    <3>2. CASE m.during = open.id
      <4>1. Waiting(m.item)
        BY <3>1, <3>2 DEF FlushInv, Accounted
      <4>2. \/ m.item.what \in {"heartbeat", "directive"}
            \/ Holds(spool', m.during, m.item)
            \/ m.item.what \in Effect /\ Redirected(m.during)
        BY <1>1, <3>2, <4>1
      <4>3. Redirected(m.during) => Redirected(m.during)'
        BY DEF Redirected
      <4>4. Holds(spool', m.during, m.item) => Carrying(m.item, m.during)'
        BY DEF Holds, Carrying
      <4>5. QED
        BY <3>1, <4>2, <4>3, <4>4 DEF Delivered
    <3>3. CASE m.during # open.id
      <4>1. Delivered(m)
        BY <3>1, <3>3 DEF FlushInv, Accounted
      <4>2. QED
        BY <1>3, <3>1, <4>1, StaysDelivered
    <3>4. QED
      BY <3>2, <3>3
  <2>2. QED
    BY <1>2, <2>1 DEF Accounted
<1>10. Promises'
  <2>1. ASSUME NEW i, Backed(i), i.what = "stored", i \in buf.spans \cup {publish}
        PROVE  Backed(i)'
    <3>1. CASE It("body", i.of, i.n) \in buf.bodies
      <4>1. Waiting(It("body", i.of, i.n))
        BY <3>1 DEF Waiting, FlushInv, Armament
      <4>2. It("body", i.of, i.n).what = "body"
        BY DEF It
      <4>3. Holds(spool', open.id, It("body", i.of, i.n))
        BY <1>1, <4>1, <4>2 DEF Effect
      <4>4. QED
        BY <4>3 DEF Backed, Holds
    <3>2. CASE It("body", i.of, i.n) \notin buf.bodies
      <4>1. \E b \in DOMAIN spool : It("body", i.of, i.n) \in spool[b].has
        BY <2>1, <3>2 DEF Backed
      <4>2. QED
        BY <1>3, <4>1 DEF Backed, Longer
    <3>3. QED
      BY <3>1, <3>2
  <2>2. ASSUME NEW i \in buf'.bag \cup buf'.spans \cup {publish'}, i.what = "stored"
        PROVE  Backed(i)'
    <3>1. NoPublish.what = "none"
      BY DEF NoPublish, It
    <3>2. i \in buf.spans \cup {publish}
      BY <1>6, <2>2, <3>1
    <3>3. Backed(i)
      BY <2>2, <3>2 DEF FlushInv, Promises
    <3>4. QED
      BY <2>1, <2>2, <3>2, <3>3
  <2>3. ASSUME NEW d \in DOMAIN spool', NEW i \in spool'[d].has, i.what = "stored"
        PROVE  \E b \in DOMAIN spool' : b < d /\ It("body", i.of, i.n) \in spool'[b].has
    <3>1. d \in DOMAIN t /\ spool'[d] = t[d]
      BY <1>1, <1>3, <2>3 DEF Adds, Longer
    <3>2. \E b \in DOMAIN t : b < d /\ It("body", i.of, i.n) \in t[b].has
      BY <1>1, <2>3, <3>1 DEF Traces
    <3>3. QED
      BY <1>3, <3>2 DEF Longer
  <2>4. QED
    BY <2>2, <2>3 DEF Promises, NoPromiseWithoutBody
<1>11. QED
  BY <1>5, <1>7, <1>8, <1>9, <1>10 DEF FlushInv
-----------------------------------------------------------------------------
(* Every step. *)

\* A step that leaves the request, its evidence and the documents alone.
Idles ==
    /\ UNCHANGED <<started, open, spool, made>>
    /\ publish' \in {publish, NoPublish}
    /\ \E labels : buf' = [buf EXCEPT !.labels = labels]

\* A step that idles keeps the invariant.
LEMMA IdlesKeeps ==
    ASSUME Shaped, FlushInv, Idles
    PROVE  FlushInv'
<1>1. PICK labels : buf' = [buf EXCEPT !.labels = labels]
  BY DEF Idles
<1>2. /\ buf'.bag = buf.bag /\ buf'.spans = buf.spans /\ buf'.bodies = buf.bodies
      /\ buf'.logs = buf.logs /\ buf'.window = buf.window
      /\ buf'.samples = buf.samples /\ buf'.effects = buf.effects
      /\ buf'.held = buf.held /\ buf'.counting = buf.counting
      /\ buf'.capturing = buf.capturing /\ buf'.sampling = buf.sampling
      /\ buf'.recording = buf.recording
  BY <1>1 DEF Shaped, Clean, Buffers
<1>3. UNCHANGED <<started, open, spool, made>>
  BY DEF Idles
<1>4. Stamped' /\ Armament' /\ Sorted'
  BY <1>2, <1>3 DEF FlushInv, Stamped, OneTraceEach, Armament, Sorted, Active, On,
     Redirected
<1>5. Accounted'
  <2>1. \A i : Waiting(i) <=> Waiting(i)'
    BY <1>2, <1>3 DEF Waiting, On, Active, Redirected
  <2>2. \A m : Delivered(m) <=> Delivered(m)'
    BY <1>3 DEF Delivered, Carrying, Redirected
  <2>3. QED
    BY <1>3, <2>1, <2>2 DEF FlushInv, Accounted
<1>6. Promises'
  <2>1. \A i : Backed(i) <=> Backed(i)'
    BY <1>2, <1>3 DEF Backed
  <2>2. NoPublish.what = "none"
    BY DEF NoPublish, It
  <2>3. NoPromiseWithoutBody'
    BY <1>3 DEF FlushInv, Promises, NoPromiseWithoutBody
  <2>4. QED
    BY <1>2, <2>1, <2>2, <2>3 DEF FlushInv, Promises, Idles
<1>7. QED
  BY <1>4, <1>5, <1>6 DEF FlushInv

\* The buffers as they are are the buffers with the labels they have.
LEMMA SameBuffers ==
    ASSUME Shaped, buf' = buf
    PROVE  \E labels : buf' = [buf EXCEPT !.labels = labels]
<1>1. buf = [buf EXCEPT !.labels = buf.labels]
  BY DEF Shaped, Clean, Buffers
<1>2. QED
  BY <1>1

\* chronos_job_started: one more marker.
LEMMA JobStartedFlush ==
    ASSUME Shaped, FlushInv, JobStarted
    PROVE  FlushInv'
<1>1. /\ Active /\ spool' = Append(spool, Marker(open.id))
      /\ UNCHANGED <<started, open, buf, publish, made>>
      /\ spool \in Seq(Doc) /\ open.id \in Nat
  BY DEF JobStarted, Marker, Shaped, OwnDocs, Opened
<1>2. /\ Longer(spool, spool')
      /\ \A d \in DOMAIN spool' :
             \/ d \in DOMAIN spool /\ spool'[d] = spool[d]
             \/ spool'[d].kind = "jobrun" /\ spool'[d].of = open.id /\ spool'[d].has = {}
  BY <1>1, Marked
<1>3. Stamped'
  <2>1. /\ open.id <= started
        /\ \A d \in DOMAIN spool : spool[d].of <= started
        /\ \A d \in DOMAIN spool : spool[d].kind = "spans" => spool[d].of \notin {0, open.id}
        /\ OneTraceEach
    BY DEF FlushInv, Stamped
  <2>2. \A d \in DOMAIN spool' : spool'[d].of <= started'
    BY <1>1, <1>2, <2>1
  <2>3. \A d \in DOMAIN spool' :
            spool'[d].kind = "spans" => d \in DOMAIN spool /\ spool'[d] = spool[d]
    BY <1>2
  <2>4. QED
    BY <1>1, <2>1, <2>2, <2>3 DEF Stamped, OneTraceEach
<1>4. Armament' /\ Sorted'
  BY <1>1 DEF FlushInv, Armament, Sorted, Active, On, Redirected
<1>5. Accounted'
  <2>1. \A i : Waiting(i) <=> Waiting(i)'
    BY <1>1 DEF Waiting, On, Active, Redirected
  <2>2. \A m : Delivered(m) => Delivered(m)'
    BY <1>1, <1>2, StaysDelivered
  <2>3. QED
    BY <1>1, <2>1, <2>2 DEF FlushInv, Accounted
<1>6. Promises'
  <2>1. \A i : Backed(i) => Backed(i)'
    BY <1>1, <1>2 DEF Backed, Longer
  <2>2. ASSUME NEW d \in DOMAIN spool', NEW i \in spool'[d].has, i.what = "stored"
        PROVE  \E b \in DOMAIN spool' : b < d /\ It("body", i.of, i.n) \in spool'[b].has
    <3>1. d \in DOMAIN spool /\ spool'[d] = spool[d]
      BY <1>2, <2>2
    <3>2. \E b \in DOMAIN spool : b < d /\ It("body", i.of, i.n) \in spool[b].has
      BY <2>2, <3>1 DEF FlushInv, Promises, NoPromiseWithoutBody
    <3>3. QED
      BY <1>2, <3>2 DEF Longer
  <2>3. QED
    BY <1>1, <2>1, <2>2 DEF FlushInv, Promises, NoPromiseWithoutBody
<1>7. QED
  BY <1>3, <1>4, <1>5, <1>6 DEF FlushInv

\* Every call of the application keeps the invariant.
LEMMA ApplicationFlush ==
    ASSUME Shaped, FlushInv, Application
    PROVE  FlushInv'
<1>1. CASE SetRequestAttributes
  BY <1>1, SetRequestAttributesCollects, CollectsKeeps
<1>2. CASE RecordSpan
  BY <1>2, RecordSpanCollects, CollectsKeeps
<1>3. CASE CaptureLog
  BY <1>3, CaptureLogCollects, CollectsKeeps
<1>4. CASE ProfileTag
  <2>1. PICK tag \in Tags :
            Accept({}, {}, [buf EXCEPT !.labels = Label(@, It(tag, open.id, 0))])
    BY <1>4 DEF ProfileTag
  <2>2. buf' = [buf EXCEPT !.labels = Label(buf.labels, It(tag, open.id, 0))]
    BY <2>1 DEF Accept
  <2>3. made' = made
    BY <2>1 DEF Accept, Noted
  <2>4. Idles
    BY <2>1, <2>2, <2>3 DEF Accept, Idles
  <2>5. QED
    BY <2>4, IdlesKeeps
<1>5. CASE CountCall
  BY <1>5, CountCallCollects, CollectsKeeps
<1>6. CASE TakeSample
  BY <1>6, TakeSampleCollects, CollectsKeeps
<1>7. CASE RecordEffect
  BY <1>7, RecordEffectCollects, CollectsKeeps
<1>8. CASE Throw
  BY <1>8, ThrowCollects, CollectsKeeps
<1>9. CASE SetHttpResponse
  BY <1>9, SetHttpResponseCollects, CollectsKeeps
<1>10. CASE JobStarted
  BY <1>10, JobStartedFlush
<1>11. CASE PublishBegin
  BY <1>11, PublishBeginCollects, CollectsKeeps
<1>12. CASE PublishEnd
  <2>1. CASE Active
    BY <1>12, <2>1, PublishEndCollects, CollectsKeeps
  <2>2. CASE ~Active
    BY <1>12, <2>2, SameBuffers, IdlesKeeps DEF PublishEnd, On, Idles
  <2>3. QED
    BY <2>1, <2>2
<1>13. QED
  BY <1>1, <1>2, <1>3, <1>4, <1>5, <1>6, <1>7, <1>8, <1>9, <1>10, <1>11, <1>12 DEF Application

\* Every way to start a request keeps the invariant.
LEMMA OpeningFlush ==
    ASSUME Shaped, FlushInv, RequestStartup \/ BridgeStart \/ DeliveryBegin
    PROVE  FlushInv'
<1>1. Settled
  BY DEF Shaped, Settled
<1>2. CASE RequestStartup
  <2>1. ~Active /\ UNCHANGED <<publish, spool>>
    BY <1>2 DEF Shaped, RequestStartup, Active
  <2>2. CASE Decline
    BY <2>1, <2>2, SameBuffers, IdlesKeeps DEF Decline, Idles
  <2>3. CASE \E wire \in Wires, carried \in Carried, directive, token \in BOOLEAN,
                with \in {"nothing", "origin"} :
                Start(wire, carried, directive, token, with)
    <3>1. PICK wire \in Wires, carried \in Baggage, directive \in BOOLEAN,
               token \in BOOLEAN, with \in {"nothing", "origin"} :
               Start(wire, carried, directive, token, with)
      BY <2>3 DEF Carried, Baggage, Nothing
    <3>2. Starts
      BY <1>1, <2>1, <3>1, StartStarts
    <3>3. QED
      BY <2>1, <3>2, StartsKeeps
  <2>4. QED
    BY <1>2, <2>2, <2>3 DEF RequestStartup
<1>3. CASE BridgeStart
  <2>1. UNCHANGED <<publish, spool>>
    BY <1>3 DEF BridgeStart
  <2>2. CASE ~Active /\ Decline
    BY <2>1, <2>2, SameBuffers, IdlesKeeps DEF Decline, Idles
  <2>3. CASE \E wire \in Wires, offered \in {Nothing, "bridged"},
                directive \in BridgeDirectives, named \in BOOLEAN :
                BridgeOpens(wire, offered, directive, named)
    <3>1. PICK wire \in Wires, offered \in Baggage, directive \in BOOLEAN,
               named \in BOOLEAN : BridgeOpens(wire, offered, directive, named)
      BY <2>3, RequestConstants DEF Baggage, Nothing
    <3>2. CASE Enrich(offered, directive, named)
      BY <2>1, <3>2, EnrichCollects, CollectsKeeps
    <3>3. CASE ~Active /\ Start(wire, offered, directive, FALSE, "nothing")
      <4>1. Starts
        BY <1>1, <3>3, StartStarts
      <4>2. QED
        BY <2>1, <4>1, StartsKeeps
    <3>4. QED
      BY <3>1, <3>2, <3>3 DEF BridgeOpens
  <2>4. QED
    BY <1>3, <2>2, <2>3 DEF BridgeStart
<1>4. CASE DeliveryBegin
  <2>1. ~Active /\ publish' = publish /\ spool' = Append(spool, Marker(started'))
    BY <1>4 DEF DeliveryBegin, Marker
  <2>2. PICK wire \in Wires, carried \in Baggage, with \in {"facts", "message"} :
            Start(wire, carried, FALSE, FALSE, with)
    BY <1>4 DEF DeliveryBegin, Carried, Baggage, Nothing
  <2>3. Starts
    BY <1>1, <2>1, <2>2, StartStarts
  <2>4. QED
    BY <2>1, <2>3, StartsKeeps
<1>5. QED
  BY <1>2, <1>3, <1>4

\* What the three ends report: errors, of evidence that exists.
LEMMA EndsReport ==
    ASSUME Shaped, RequestEnd \/ DeliveryEnd \/ RequestShutdown
    PROVE  /\ \E error : /\ End(error)
                         /\ Active => error \in SUBSET Item
                         /\ \A i \in error : i.what = "error"
           /\ UNCHANGED <<started, made>> /\ publish' \in {publish, NoPublish}
<1>1. Active => It("error", open.id, 0) \in Item /\ LastThrow \in SUBSET Item
  BY ItIsItem, LastThrowOwn DEF Shaped, Opened, What, Evidence
<1>2. It("error", open.id, 0).what = "error" /\ \A i \in LastThrow : i.what = "error"
  BY DEF It, LastThrow
<1>3. PICK error \in {{}, {It("error", open.id, 0)}, LastThrow} : End(error)
  BY DEF RequestEnd, DeliveryEnd, RequestShutdown
<1>4. QED
  BY <1>1, <1>2, <1>3 DEF RequestEnd, DeliveryEnd, RequestShutdown

\* Every way to end a request keeps the invariant, the second end included.
LEMMA ClosingFlush ==
    ASSUME Shaped, Shaped', FlushInv, RequestEnd \/ DeliveryEnd \/ RequestShutdown
    PROVE  FlushInv'
<1>1. PICK error : /\ End(error)
                   /\ Active => error \in SUBSET Item
                   /\ \A i \in error : i.what = "error"
  BY EndsReport
<1>2. UNCHANGED <<started, made>> /\ publish' \in {publish, NoPublish}
  BY EndsReport
<1>3. CASE Active
  BY <1>1, <1>2, <1>3, EndKeeps
<1>4. CASE ~Active
  BY <1>1, <1>2, <1>4, SameBuffers, IdlesKeeps DEF End, Idles
<1>5. QED
  BY <1>3, <1>4

\* A process that has started nothing owes nothing.
LEMMA InitFlush == Init => FlushInv
<1> SUFFICES ASSUME Init PROVE FlushInv
  OBVIOUS
<1>1. Stamped /\ Accounted
  BY DEF Init, Stamped, Accounted, OneTraceEach, Closed
<1>2. Armament /\ Sorted
  BY DEF Init, Armament, Sorted
<1>3. Promises
  BY DEF Init, Promises, NoPromiseWithoutBody, NoPublish, It
<1>4. QED
  BY <1>1, <1>2, <1>3 DEF FlushInv

\* Every step keeps the invariant.
LEMMA StepFlush ==
    ASSUME Shaped, Shaped', FlushInv, [Next]_vars
    PROVE  FlushInv'
<1>1. CASE Next
  BY <1>1, OpeningFlush, ApplicationFlush, ClosingFlush DEF Next
<1>2. CASE UNCHANGED vars
  BY <1>2, SameBuffers, IdlesKeeps DEF vars, Idles
<1>3. QED
  BY <1>1, <1>2

\* The inductive invariant of the flush: whatever is called in whatever order, what was
\* accepted waits where the end of its request will find it or is written already.
THEOREM FlushInvariance == Spec => [](Shaped /\ FlushInv)
<1>1. Init => Shaped /\ FlushInv
  BY InitIInv, Shape, InitFlush
<1>2. Shaped /\ FlushInv /\ [Next]_vars => (Shaped /\ FlushInv)'
  BY StepKeepsShaped, StepFlush
<1>3. QED
  BY <1>1, <1>2, PTL DEF Spec

\* What the collector took while a request was open is in that request's documents once
\* it is over, and the trace is sent once, however often and by whomever it is ended.
THEOREM EvidenceIsDelivered == Spec => []NothingAcceptedIsLost
<1>1. Shaped /\ FlushInv => NothingAcceptedIsLost
  BY FlushInvImplies
<1>2. QED
  BY <1>1, FlushInvariance, PTL

\* The marker of a stored payload is never in the spool ahead of the payload, even when
\* the publish it belongs to returns in a later request.
THEOREM PromisesFollowTheirBodies == Spec => []NoPromiseWithoutBody
<1>1. Shaped /\ FlushInv => NoPromiseWithoutBody
  BY FlushInvImplies
<1>2. QED
  BY <1>1, FlushInvariance, PTL

\* Every effect of an armed request is in its recording, unless a bridge repeated the
\* directive and so started the recording over.
THEOREM RecordingsAreComplete == Spec => []RecordingKeepsEveryEffect
<1>1. Shaped /\ FlushInv => RecordingKeepsEveryEffect
  BY FlushInvImplies
<1>2. QED
  BY <1>1, FlushInvariance, PTL

\* Where traces are kept, no profile is written without the trace of its request, and no
\* recording but one that a late directive armed in a request already left out of the
\* sample (start_request, enrich_request, end_request_full).
THEOREM CapturesHaveTheirTrace == Spec => EveryCaptureHasItsTrace
<1> DEFINE Attached ==
        \A d \in DOMAIN spool' \ DOMAIN spool :
            spool'[d].kind \in {"dst", "profile"} /\ On("apm")
              => \/ HasTrace(spool', spool'[d].of)
                 \/ /\ spool'[d].kind = "dst" /\ spool'[d].of = open.id
                    /\ Redirected(open.id) /\ ~open.sampled
<1>1. ASSUME Shaped, FlushInv, Next PROVE Attached
  <2>1. CASE RequestEnd \/ DeliveryEnd \/ RequestShutdown
    <3>1. PICK error : /\ End(error)
                       /\ Active => error \in SUBSET Item
                       /\ \A i \in error : i.what = "error"
      BY <1>1, <2>1, EndsReport
    <3>2. CASE ~Active
      BY <3>1, <3>2 DEF End
    <3>3. CASE Active
      <4>1. PICK t : Traces(t) /\ Adds(t, spool')
        BY <1>1, <3>1, <3>3, EndWrites
      <4>2. ASSUME NEW d \in DOMAIN spool' \ DOMAIN spool,
                   spool'[d].kind \in {"dst", "profile"},
                   On("apm"), ~(spool'[d].kind = "dst" /\ Redirected(open.id) /\ ~open.sampled)
            PROVE  HasTrace(spool', spool'[d].of)
        <5>1. d \notin DOMAIN t
          BY <4>1, <4>2 DEF Traces, Adds, Longer
        <5>2. /\ spool'[d].of = open.id
              /\ spool'[d].kind = "profile" => buf.samples # {}
              /\ spool'[d].kind = "dst" => buf.recording
          BY <4>1, <4>2, <5>1 DEF Adds
        <5>3. open.sampled
          BY <1>1, <4>2, <5>2 DEF FlushInv, Armament
        <5>4. Holds(t, open.id, It("root", open.id, 0))
          BY <4>1, <4>2, <5>3 DEF Traces, Traced, On
        <5>5. Holds(spool', open.id, It("root", open.id, 0))
          BY <4>1, <5>4, LongerHolds DEF Adds
        <5>6. QED
          BY <5>2, <5>5 DEF Holds, HasTrace
      <4>3. \A d \in DOMAIN spool' \ DOMAIN spool :
                spool'[d].kind = "dst" => spool'[d].of = open.id
        BY <4>1 DEF Traces, Adds, Longer
      <4>4. QED
        BY <4>2, <4>3
    <3>4. QED
      BY <3>2, <3>3
  <2>2. CASE DeliveryBegin \/ JobStarted
    <3>1. PICK r \in Nat : spool' = Append(spool, Marker(r))
      <4>1. CASE JobStarted
        BY <1>1, <4>1 DEF JobStarted, Marker, Shaped, Opened
      <4>2. CASE DeliveryBegin
        <5>1. spool' = Append(spool, Marker(started'))
          BY <4>2 DEF DeliveryBegin, Marker
        <5>2. started' = started + 1 /\ started \in Nat
          BY <1>1, <4>2 DEF DeliveryBegin, Start, Shaped
        <5>3. QED
          BY <5>1, <5>2
      <4>3. QED
        BY <2>2, <4>1, <4>2
    <3>2. \A d \in DOMAIN spool' \ DOMAIN spool : spool'[d].kind = "jobrun"
      BY <1>1, <3>1, Marked DEF Shaped, OwnDocs
    <3>3. QED
      BY <3>2
  <2>3. CASE ~(\/ RequestEnd \/ DeliveryEnd \/ RequestShutdown
               \/ DeliveryBegin \/ JobStarted)
    <3>1. spool' = spool
      BY <1>1, <2>3 DEF Next, Application, RequestStartup, BridgeStart,
         SetRequestAttributes, RecordSpan, CaptureLog, ProfileTag, CountCall, TakeSample,
         RecordEffect, Throw, SetHttpResponse, PublishBegin, PublishEnd, Accept
    <3>2. QED
      BY <3>1
  <2>4. QED
    BY <2>1, <2>2, <2>3
<1>2. ASSUME Shaped, FlushInv, [Next]_vars PROVE [Attached]_vars
  BY <1>1, <1>2
<1>3. QED
  BY <1>2, FlushInvariance, PTL DEF Spec, EveryCaptureHasItsTrace
=============================================================================
