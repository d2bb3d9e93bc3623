----------------------------- MODULE Documents -----------------------------
(***************************************************************************)
(* How what a request has kept becomes documents of the spool: a text is   *)
(* cut at a limit of bytes and split into numbered parts, a list of items  *)
(* is packed into as few documents as its budget allows.                   *)
(*                                                                         *)
(* A text is a sequence of characters, of one or two bytes each.           *)
(***************************************************************************)
EXTENDS Integers, FiniteSetsExt, SequencesExt, Sums

CONSTANTS
    Wide,           \* the characters of two bytes
    ChunkBytes,     \* CHUNK_BYTES of a body document
    MaxDocument,    \* CHRONOS_PHP_SPOOL_MAX_BYTES
    Envelope,       \* bytes of a document without items
    ChunkBlock,     \* bytes of its "chunk" object
    SpanOverhead,   \* PER_SPAN_OVERHEAD
    TargetBytes     \* TARGET_CHUNK_BYTES of a span batch

\* A chunk holds any character, or splitting would not end.
ASSUME DocumentsConstants ==
    /\ ChunkBytes \in Nat \ {0, 1}
    /\ {MaxDocument, Envelope, ChunkBlock, SpanOverhead, TargetBytes} \subseteq Nat

Bytes(text) == SumOf([i \in DOMAIN text |-> IF text[i] \in Wide THEN 2 ELSE 1])

\* truncate, cap: the most whole characters that fit.
Cut(text, limit) ==
    SubSeq(text, 1, Max({n \in 0..Len(text) : Bytes(SubSeq(text, 1, n)) <= limit}))

\* Each part is what fits of the text that is left.
Split(text) ==
    LET end[k \in 0..Len(text)] ==
            IF k = 0 THEN 0
            ELSE end[k - 1] + Len(Cut(SubSeq(text, end[k - 1] + 1, Len(text)), ChunkBytes))
        count == Min({k \in 0..Len(text) : end[k] = Len(text)})
    IN  [k \in 1..count |-> SubSeq(text, end[k - 1] + 1, end[k])]

\* flush_one: a body is keyed by the span that promises it.
BodyDocuments(owner, body) ==
    LET parts == Split(body.text)
    IN  [i \in DOMAIN parts |->
            [signal |-> "body", owner |-> owner, side |-> body.side, total |-> Bytes(body.text),
             index |-> i, count |-> Len(parts), part |-> parts[i]]]

Weight(items) == SumOf([i \in DOMAIN items |-> items[i].size])

\* An item goes with the ones before it as long as they fit; one that fits nowhere is alone.
PutIn(chunks, item, budget) ==
    IF chunks # <<>> /\ Weight(Last(chunks)) + item.size <= budget
      THEN [chunks EXCEPT ![Len(chunks)] = Append(@, item)]
      ELSE Append(chunks, <<item>>)

Packed(items, budget) ==
    LET chunks[i \in 0..Len(items)] ==
            IF i = 0 THEN <<>> ELSE PutIn(chunks[i - 1], items[i], budget)
    IN  chunks[Len(items)]

\* write_chunked.  The size of an item counts its comma; the envelope is measured without
\* the chunk object that every one of several documents carries.  (It is also measured with
\* a count of 0: the digits that more than nine items add to it are left out here.)
Recorded(items) ==
    LET parts == Packed(items, Max({MaxDocument - Envelope, 1}))
    IN  [i \in DOMAIN parts |->
            [signal |-> "recording", owner |-> 0, side |-> "items",
             total |-> Envelope + Weight(parts[i]) + (IF Len(parts) > 1 THEN ChunkBlock ELSE 0),
             index |-> i, count |-> Len(parts), part |-> parts[i]]]

\* The spans of a request, in batches that know nothing of each other.
Batches(spans) ==
    LET parts == Packed(spans, TargetBytes)
    IN  [i \in DOMAIN parts |-> [signal |-> "trace", part |-> parts[i]]]
============================================================================
