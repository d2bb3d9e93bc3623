-------------------------- MODULE SpanStackChecks --------------------------
(***************************************************************************)
(* What the span stack and the reservations promise.                       *)
(***************************************************************************)
EXTENDS SpanStack

RootIds     == Range(roots)
RecordedIds == UNION {batches[r] : r \in Requests}
OpenIds     == {span.id : span \in open}
StackIds    == {stack[i].id : i \in 1..Len(stack)}

\* What the variables hold.
TypeOK ==
  /\ minted \in 0..MaxIds /\ told \in BOOLEAN
  /\ roots \in Seq(Ids) /\ Len(roots) <= MaxRequests /\ request \in 0..Len(roots)
  /\ stack \in Seq(Entry) /\ handles \subseteq Entry /\ guests \subseteq Ids
  /\ open \subseteq Span /\ pending \subseteq Message
  /\ wire \subseteq Promise
  /\ batches \in [Requests -> SUBSET Ids]
  /\ again \subseteq Ids /\ refused \subseteq Ids /\ unread \subseteq Ids

\* What is on the stack without the program having reached outside it.
Own == {i \in DOMAIN stack : stack[i].id \notin guests}

\* Once a bridge has told the SDK of the open request, everything on the stack,
\* and so every span and every header made from it, is of that request's trace,
\* but for what the program itself put under a span that was not on the stack, by
\* child() of a handle it kept.  In a request the SDK was not told of the trace may
\* be an older request's, the one the stack was last seeded with, but never two
\* (NativeExtension::requestStart, SpanManager::reset, top).
OneTraceOnTheStack ==
  /\ told => \A i \in Own : stack[i].of = request
  /\ \A i, j \in Own : stack[i].of = stack[j].of

\* No two recorded spans claim one id: a span is recorded once, whoever
\* finishes it, a reservation is spent once, and in its own request a root's id
\* is no other span's.  A root's header that was read back as a reservation in
\* another request is the exception (Span::finish, SpanManager::openReserved,
\* reservationFromPayload).
EveryIdOnce ==
  /\ again \subseteq RootIds
  /\ \A r \in 1..Len(roots) : roots[r] \notin batches[r]

\* A traceparent on the wire is a promise that its span will be recorded: the
\* id is a root's, was recorded, is of a span still open, or reached the
\* extension and was refused there; the one exception is a queue payload that
\* could not be read back (SpanManager::reserve, openReserved,
\* RequestFacts::reservationFromPayload).  And it names one span: see EveryIdOnce.
PromiseKept ==
  /\ EveryIdOnce
  /\ \A promise \in wire :
       promise.id \in RootIds \cup RecordedIds \cup OpenIds \cup refused \cup unread

\* No span but the synthetic root at the bottom stays on the stack once it is
\* finished, in whatever order spans are finished, and a span whose end is
\* decoupled from the code that opened it never gets there: neither becomes the
\* parent of a span whose caller named none (SpanManager::complete, openDetached).
\* Named, by child() of its handle, it becomes one all the same.
OnlyOpenSpansAreParents ==
  StackIds \subseteq {span.id : span \in {s \in open : ~s.detached}} \cup RootIds

=============================================================================
