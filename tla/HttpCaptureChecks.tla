------------------------- MODULE HttpCaptureChecks -------------------------
(* What the spans and documents of a request may be believed to say. *)
EXTENDS HttpCapture

SpansOnDisk == UNION {ToSet(d.part) : d \in {w \in written : w.signal = "trace"}}

\* What the application had behind an attribute of a span.
Original(s, side) ==
    IF s.kind # "root" THEN truth.texts[s.id]
    ELSE IF side = "request" THEN truth.exchange.body ELSE truth.response

Shares(d, owner, side) == d.signal = "body" /\ d.owner = owner /\ d.side = side

\* A span never misleads about a body.  A preview without the truncated mark is the whole of
\* it; one with the mark and without the stored mark is all there is; and the stored mark is
\* on disk only after each document of the body has been written or has failed to be.
\* (body_attributes, and end_request_full, which writes bodies before spans.)  Outbound calls
\* are left out of the last clause: see the README.
PreviewTells ==
    \A s \in SpansOnDisk : \A a \in ToSet(s.bodies) :
        LET text == Original(s, a.side)
        IN  /\ IsPrefix(a.preview, text)
            /\ ~a.truncated => a.preview = text
            /\ s.kind # "client" => a.size = Bytes(text)
            /\ ~a.stored => \A d \in written \cup failed \cup ToSet(queue) : ~Shares(d, s.id, a.side)
            /\ a.stored /\ s.kind # "client" =>
                 /\ \E d \in written \cup failed : Shares(d, s.id, a.side)
                 /\ \A d \in ToSet(queue) : ~Shares(d, s.id, a.side)

NumberedDocuments == {d \in written : d.signal \in {"body", "recording"}}

Siblings(d) ==
    {e \in NumberedDocuments : e.signal = d.signal /\ e.owner = d.owner /\ e.side = d.side}

Reassembled(d) ==
    FlattenSeq([i \in 1..d.count |-> (CHOOSE e \in Siblings(d) : e.index = i).part])

\* What the reassembled documents must amount to.
Whole(d, parts) ==
    IF d.signal = "recording" THEN parts = truth.exchange.items
    ELSE LET text == IF d.owner # 0 THEN truth.texts[d.owner]
                     ELSE IF d.side = "request" THEN truth.exchange.body ELSE truth.response
         IN  /\ d.total = Bytes(parts)
             /\ IsPrefix(parts, text)
             /\ parts # text => d.total >= Resolve(truth.exchange.settings).total - 1

\* The documents of one body or recording find each other: they agree on their number, no two
\* share an index, together they are what was kept, and one that is missing failed by itself
\* or died with the worker.  Each is within its budget, but for an item that is larger alone
\* and for the chunk object, which the budget forgets.  (split, write_chunked, flush.)
PartsReassemble ==
    \A d \in NumberedDocuments :
        LET there == {e.index : e \in Siblings(d)}
        IN  /\ d.index \in 1..d.count /\ d.part # <<>>
            /\ \A e \in Siblings(d) : e.count = d.count /\ (e.index = d.index => e = d)
            /\ there = 1..d.count => Whole(d, Reassembled(d))
            /\ step = "over" /\ ~killed =>
                 there \cup {e.index : e \in {f \in failed : f.signal = d.signal
                                                /\ f.owner = d.owner /\ f.side = d.side}} = 1..d.count
            /\ d.signal = "body" => Bytes(d.part) <= ChunkBytes
            /\ d.signal = "recording" => d.total <= MaxDocument + ChunkBlock \/ Len(d.part) = 1

Root == {s \in SpansOnDisk : s.kind = "root"}

\* The last of the marks that is made by then, if any is.
LastMarkBy(marks, at) ==
    LET begun == {i \in DOMAIN marks : marks[i] <= at}
    IN  IF begun = {} THEN Bootstrap ELSE Max(begun)

\* The phases of a line follow one another up to the end, each under its mark.
Tiles(line, marks, end) ==
    /\ line[1].start = 0 /\ Last(line).end = end
    /\ \A i \in 2..Len(line) : line[i].start = line[i - 1].end
    /\ \A i \in 1..Len(line) : line[i].name = LastMarkBy(marks, line[i].start)

\* The marks that were kept.
KeptMarks == SubSeq(truth.marks, 1, Min({MaxPhases, Len(truth.marks)}))

\* The phases of a request tile it: from its start to its end, without gap or overlap, each
\* under the last mark made by then, as far as marks were kept.  (phase_json, mark_phase.)
TimelineTiles ==
    \A s \in Root : s.timeline # <<>> => Tiles(s.timeline, KeptMarks, truth.end)

\* What the first n pairs come to: names whole, values as they are kept.
Counted(pairs, n, config) ==
    SumOf([k \in 1..n |-> NameBytes[pairs[k].name] + Bytes(Masked(pairs[k], config))])

\* A value that stands for that of a pair: its mask, or as much of it as is kept.
StandsFor(value, pair, config) ==
    IF config.redact /\ pair.name \in Sensitive THEN value = Mask
    ELSE /\ IsPrefix(value, pair.value) /\ Bytes(value) <= MaxValueBytes
         /\ Bytes(pair.value) <= MaxValueBytes => value = pair.value

\* The map shows the pairs before the first one left out: each name with the last of its
\* values among them, and no other name.  One pair less would not have reached a cap, and a
\* pair is left out only if a cap is reached.
Admits(map, pairs, config) ==
    LET shown == Len(pairs) - map.dropped
    IN  /\ shown \in 0..Len(pairs)
        /\ \A name \in NamesIn(map) : \E k \in 1..shown : pairs[k].name = name
        /\ \A k \in 1..shown :
             (\A j \in (k + 1)..shown : pairs[j].name # pairs[k].name) =>
                /\ pairs[k].name \in NamesIn(map)
                /\ StandsFor(map.held[pairs[k].name], pairs[k], config)
        /\ Cardinality(NamesIn(map)) <= MaxMapEntries
        /\ shown > 0 => Counted(pairs, shown - 1, config) < MaxMapBytes
        /\ map.dropped > 0 => \/ Cardinality(NamesIn(map)) = MaxMapEntries
                              \/ Counted(pairs, shown, config) >= MaxMapBytes

\* A map that reached a cap says how many pairs it left out, and they are the last ones: what
\* it shows is the truth about all the others, at the last value of each name.  It is bounded
\* by the bytes of its pairs, whole names included, and one pair; an earlier value of a name
\* that comes again is replaced, and no note tells.  (encode_map_masked.)
LossIsAdmitted ==
    \A s \in Root : \A i \in DOMAIN s.maps :
        Admits(s.maps[i], IF i = 1 THEN truth.exchange.maps ELSE truth.headers,
               Resolve(truth.exchange.settings))
============================================================================
