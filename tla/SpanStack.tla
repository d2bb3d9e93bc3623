----------------------------- MODULE SpanStack -----------------------------
(***************************************************************************)
(* The PHP SDK's span stack and the promises it puts on the wire, in one   *)
(* worker process: SpanManager's static stack, the reservation of a        *)
(* publish span's id before the send, and the three bridges that spend it  *)
(* (Bunny and Messenger hold the reservation, Laravel reads it back out of *)
(* the queue payload).  Requests are opened by a bridge, which resets the  *)
(* stack, or by the extension alone (RINIT, a delivery the observer saw),  *)
(* which does not.  A span id is a number, and the trace of a request is   *)
(* the request's number.                                                   *)
(***************************************************************************)
EXTENDS Naturals, Sequences, FiniteSets, SequencesExt

CONSTANTS MaxRequests,  \* requests one process opens (bound)
          MaxIds,       \* span ids one process mints (bound)
          MaxSpans,     \* SpanManager::MAX_SPANS, 64 in the code
          MaxBatch,     \* MAX_SPANS_PER_REQUEST of the extension, 32768 there
          MaxPending    \* messages stamped and not yet sent (bound)

ASSUME SpanStackAssumption ==
  /\ {MaxRequests, MaxIds, MaxBatch, MaxPending} \subseteq Nat \ {0}
  /\ MaxSpans \in Nat \ {0, 1}

VARIABLES
  request,   \* the request the extension has open, 0 when none
  roots,     \* the root span id of every request opened so far
  told,      \* requestStart has run in the SDK for the open request
  minted,    \* span ids handed out so far
  stack,     \* SpanManager::$stack: the bottom is the synthetic root
  handles,   \* every span a caller was given: child() takes any of them
  guests,    \* those on the stack under a parent the program named from outside
             \* it, and what was opened under them, for the properties only
  open,      \* spans handed to a caller and not finished
  pending,   \* messages stamped with a header and not sent yet
  wire,      \* headers that left the process
  batches,   \* the span batch of every request
  again,     \* ids that were recorded a second time
  refused,   \* ids the extension was given and did not keep
  unread     \* ids on the wire whose payload could not be read back

vars == <<request, roots, told, minted, stack, handles, guests, open, pending,
          wire, batches, again, refused, unread>>

Requests == 1..MaxRequests
Ids      == 1..MaxIds
Entry    == [of : Requests, id : Ids]
Span     == [of : Requests, id : Ids, detached : BOOLEAN]
None     == [of |-> 0, id |-> 0]
Bridges  == {"held", "payload"}
Message  == [by : Bridges, header : Entry \cup {None}, reserved : BOOLEAN,
             madeIn : 0..MaxRequests]
Promise  == [of : Requests, id : Ids, madeIn : 0..MaxRequests]

Root(r) == [of |-> r, id |-> roots[r]]

Init ==
  /\ request = 0
  /\ roots   = <<>>
  /\ told    = FALSE
  /\ minted  = 0
  /\ stack   = <<>>
  /\ handles = {}
  /\ guests  = {}
  /\ open    = {}
  /\ pending = {}
  /\ wire    = {}
  /\ batches = [r \in Requests |-> {}]
  /\ again   = {}
  /\ refused = {}
  /\ unread  = {}

---------------------------------------------------------------------------
(* SpanManager *)

\* top() seeds an empty stack from the extension's traceparent.
Seeded == IF stack = <<>> /\ request # 0 THEN <<Root(request)>> ELSE stack

\* Mutant: one span too many
HasRoomForOneMore == Seeded # <<>> /\ Len(Seeded) <= MaxSpans

\* A span can be opened, or an id reserved: there is a parent, and room.
\* With the extension loaded the finished buffer stays empty.
HasRoom == Seeded # <<>> /\ Len(Seeded) < MaxSpans

\* The trace of a new span is its parent's.
Top == Last(Seeded)

CanMint == minted < MaxIds

\* chronos_record_span keeps a span while a request is open and the batch
\* has room; the SDK is not told which happened.
Keeps == request # 0 /\ Cardinality(batches[request]) < MaxBatch

Record(id) ==
  IF Keeps
  THEN /\ batches' = [batches EXCEPT ![request] = @ \cup {id}]
       /\ again'   = IF \E r \in Requests : id \in batches[r]
                     THEN again \cup {id} ELSE again
       /\ UNCHANGED refused
  ELSE refused' = refused \cup {id} /\ UNCHANGED <<batches, again>>

Unrecorded == UNCHANGED <<batches, again, refused>>

\* spawn(), which looks for room on the stack as it is.
Spawn(parent, where, isDetached) ==
  LET span == [of |-> parent.of, id |-> minted + 1]
  IN  /\ CanMint /\ Len(where) < MaxSpans
      /\ minted'  = minted + 1
      /\ stack'   = IF isDetached THEN where ELSE Append(where, span)
      /\ handles' = handles \cup {span}
      /\ guests'  = IF isDetached \/ (parent \in Range(where) /\ parent.id \notin guests)
                    THEN guests ELSE guests \cup {span.id}
      /\ open'    = open \cup {[of |-> span.of, id |-> span.id,
                                detached |-> isDetached]}

\* active() hands out the current top, recordEvent() writes on it: no span is
\* opened, but top() may seed.
Peek ==
  /\ stack'   = Seeded
  /\ handles' = IF Seeded = <<>> THEN handles ELSE handles \cup {Top}
  /\ UNCHANGED <<request, roots, told, minted, guests, open, pending, wire,
                 batches, again, refused, unread>>

\* SpanManager::open(): a child of the current top, pushed.
Open ==
  /\ HasRoom /\ Spawn(Top, Seeded, FALSE)
  /\ UNCHANGED <<request, roots, told, pending, wire, batches, again, refused,
                 unread>>

\* The client span of Laravel's Http facade: opened, and on the wire at once
\* under its own id.
OpenAndPropagate ==
  /\ HasRoom /\ Spawn(Top, Seeded, FALSE)
  /\ wire' = wire \cup {[of |-> Top.of, id |-> minted + 1, madeIn |-> request]}
  /\ UNCHANGED <<request, roots, told, pending, batches, again, refused, unread>>

\* Span::child(): a child of any span a caller holds, in scope or not, finished
\* or not, of this request or an earlier one; it is pushed with its parent's
\* trace.  The stack is not seeded for it.
Child ==
  /\ \E parent \in handles : Spawn(parent, stack, FALSE)
  /\ UNCHANGED <<request, roots, told, pending, wire, batches, again, refused,
                 unread>>

\* SpanManager::openDetached(): a child of the current top that nothing
\* opened later may take as its parent.
OpenDetached ==
  /\ HasRoom /\ Spawn(Top, Seeded, TRUE)
  /\ UNCHANGED <<request, roots, told, pending, wire, batches, again, refused,
                 unread>>

\* Mutant: array_pop() in place of the filter
WithoutTop(where, id) == IF where = <<>> THEN where ELSE Front(where)

\* array_filter by identity: one object is on the stack at most once.
Without(where, id) ==
  IF \E i \in DOMAIN where : where[i].id = id
  THEN RemoveAt(where, CHOOSE i \in DOMAIN where : where[i].id = id)
  ELSE where

\* Mutant: a span does not remember that it was finished
FinishAgain(span) ==
  /\ span \in open
  /\ stack' = Without(stack, span.id)
  /\ guests' = guests \ {span.id}
  /\ Record(span.id)
  /\ UNCHANGED <<request, roots, told, minted, handles, open, pending, wire,
                 unread>>

\* Span::finish() and SpanManager::complete(): out of order, and after the
\* request if the caller kept the handle.
Finish(span) ==
  /\ span \in open
  /\ open'   = open \ {span}
  /\ stack'  = Without(stack, span.id)
  /\ guests' = guests \ {span.id}
  /\ Record(span.id)
  /\ UNCHANGED <<request, roots, told, minted, handles, pending, wire, unread>>

---------------------------------------------------------------------------
(* The requests *)

\* The extension opens a request by itself: the SDK does not hear of it.
NativeStart ==
  /\ request = 0 /\ Len(roots) < MaxRequests /\ CanMint
  /\ minted'  = minted + 1
  /\ roots'   = Append(roots, minted + 1)
  /\ request' = Len(roots) + 1
  /\ UNCHANGED <<told, stack, handles, guests, open, pending, wire, batches,
                 again, refused, unread>>

\* Mutant: no SpanManager::reset()
BridgeStartKeepsStack ==
  /\ IF request # 0
     THEN UNCHANGED <<request, roots, minted>>
     ELSE /\ Len(roots) < MaxRequests /\ CanMint
          /\ minted'  = minted + 1
          /\ roots'   = Append(roots, minted + 1)
          /\ request' = Len(roots) + 1
  /\ told' = TRUE
  /\ UNCHANGED <<stack, handles, guests, open, pending, wire, batches, again,
                 refused, unread>>

\* NativeExtension::requestStart(): opens a request, or enriches the one that
\* is open, and clears the stack either way.
BridgeStart ==
  /\ IF request # 0
     THEN UNCHANGED <<request, roots, minted>>
     ELSE /\ Len(roots) < MaxRequests /\ CanMint
          /\ minted'  = minted + 1
          /\ roots'   = Append(roots, minted + 1)
          /\ request' = Len(roots) + 1
  /\ stack'  = <<>>
  /\ guests' = {}
  /\ told'   = TRUE
  /\ UNCHANGED <<handles, open, pending, wire, batches, again, refused, unread>>

\* requestEnd(), from whichever bridge calls first.  The stack stays.
End ==
  /\ request # 0
  /\ request' = 0
  /\ told'    = FALSE
  /\ UNCHANGED <<roots, minted, stack, handles, guests, open, pending, wire,
                 batches, again, refused, unread>>

---------------------------------------------------------------------------
(* Publishing *)

\* reserve(), and the header the bridge stamps: the reserved id, or else the
\* request root's, or nothing.
Stamp(by) ==
  /\ Cardinality(pending) < MaxPending
  /\ stack' = Seeded
  /\ IF HasRoom
     THEN /\ CanMint
          /\ minted'  = minted + 1
          /\ pending' = pending \cup
               {[by |-> by, header |-> [of |-> Top.of, id |-> minted + 1],
                 reserved |-> TRUE, madeIn |-> request]}
     ELSE /\ pending' = pending \cup
               {[by |-> by,
                 header |-> IF request # 0 THEN Root(request) ELSE None,
                 reserved |-> FALSE, madeIn |-> request]}
          /\ UNCHANGED minted
  /\ UNCHANGED <<request, roots, told, handles, guests, open, wire, batches,
                 again, refused, unread>>

\* The reservation the publish span will be recorded under.  Laravel reads it
\* back from the payload, and tells a root's header from a reservation by
\* comparing it with the open request's.
Recovers(message) ==
  CASE message.by = "held"    -> message.reserved
    [] message.by = "payload" ->
         /\ message.header # None
         /\ ~(request # 0 /\ message.header = Root(request))

\* Mutant: the cap is looked at again when the span is recorded
DescribeIfRoom(message, readable) ==
  IF ~HasRoom
  THEN Unrecorded /\ UNCHANGED minted
  ELSE IF readable /\ Recovers(message)
       THEN Record(message.header.id) /\ UNCHANGED minted
       ELSE CanMint /\ minted' = minted + 1 /\ Record(minted + 1)

\* MessagingSpan::published(): openReserved() asks for no room, open() does.
Describe(message, readable) ==
  IF readable /\ Recovers(message)
  THEN Record(message.header.id) /\ UNCHANGED minted
  ELSE IF HasRoom
       THEN CanMint /\ minted' = minted + 1 /\ Record(minted + 1)
       ELSE Unrecorded /\ UNCHANGED minted

Send(message, readable) ==
  /\ message \in pending
  /\ ~readable => message.by = "payload"
  /\ pending' = pending \ {message}
  /\ wire'    = IF message.header = None THEN wire
                ELSE wire \cup {[of |-> message.header.of,
                                 id |-> message.header.id,
                                 madeIn |-> message.madeIn]}
  /\ unread'  = IF readable \/ message.header = None THEN unread
                ELSE unread \cup {message.header.id}
  /\ Describe(message, readable)
  /\ stack'   = Seeded
  /\ UNCHANGED <<request, roots, told, handles, guests, open>>

\* The send throws, or no transport took the message: nobody saw the header.
SendFails(message) ==
  /\ message \in pending
  /\ pending' = pending \ {message}
  /\ UNCHANGED <<request, roots, told, minted, stack, handles, guests, open, wire,
                 batches, again, refused, unread>>

---------------------------------------------------------------------------
Next ==
  \/ NativeStart \/ BridgeStart \/ End
  \/ Peek \/ Open \/ OpenAndPropagate \/ Child \/ OpenDetached
  \/ \E span \in open : Finish(span)
  \/ \E by \in Bridges : Stamp(by)
  \/ \E message \in pending, readable \in BOOLEAN : Send(message, readable)
  \/ \E message \in pending : SendFails(message)

Spec == Init /\ [][Next]_vars
=============================================================================
