--------------------------- MODULE ObserverFrames ---------------------------
(***************************************************************************)
(* native/src/observer.rs and deterministic.rs: the observer's own stack   *)
(* of the calls PHP is in, and the counted profile it feeds.               *)
(*                                                                         *)
(* Zend tells the observer that a call begins and that a call ends.  The   *)
(* begin handler pushes a frame only while a request is open; the end      *)
(* handler pops whatever is on top.  Nothing clears the stack, so what a   *)
(* request finds there is what earlier ones left.  Time is the monotonic   *)
(* clock, one tick for each handler; a frame is known by its start.        *)
(***************************************************************************)
EXTENDS Integers, Sequences, FiniteSets

CONSTANTS
    Function,       \* the observed functions
    Spanning,       \* those whose policy emits a span
    Dispatchers,    \* MESSAGING_DELIVER: the broker methods that hand over a message
    MaxFunctions,   \* max_functions of the deterministic window
    MaxEdges,       \* max_edges of the deterministic window
    MaxRequests,    \* bound: requests the process opens
    MaxDepth,       \* bound: nesting of PHP calls
    MaxClock        \* bound: handlers run

ASSUME FrameConstants ==
    /\ Spanning \subseteq Function /\ Dispatchers \subseteq Function
    /\ Spanning \cap Dispatchers = {}
    /\ MaxFunctions \in Nat /\ MaxEdges \in Nat
    /\ MaxRequests \in Nat /\ MaxDepth \in Nat /\ MaxClock \in Nat

VARIABLES
    clock,      \* monotonic_nanos_u64
    php,        \* the calls PHP is in, outermost first
    frames,     \* CALL_FRAMES
    started,    \* requests opened so far
    open,       \* the request of REQUEST_CONTEXT, 0 for none
    parents,    \* SPAN_STACK
    table,      \* the window's functions
    edges,      \* the window's caller-callee pairs
    refused,    \* calls and edges the caps refused
    since,      \* when the open request was opened, for the properties only
    clean,      \* it was opened with no frame on the stack, for the properties only
    begun       \* calls begun since it was opened, for the properties only

vars == <<clock, php, frames, started, open, parents, table, edges, refused,
          since, clean, begun>>

Time == Nat
Call == [f : Function, start : Time]
Frame == [f : Function, start : Time, child : Time, counted : BOOLEAN,
          emits : BOOLEAN, owns : BOOLEAN, of : Nat]
Totals == [calls : Nat, live : Nat, deepest : Nat, inclusive : Time, exclusive : Time]
EdgeTotals == [calls : Nat, inclusive : Time]
Parent == [start : Time, of : Nat]

Top(s) == s[Len(s)]
Pop(s) == SubSeq(s, 1, Len(s) - 1)

\* Mutant: a subtraction that does not saturate.
MinusPlain(a, b) == a - b

Minus(a, b) == IF a > b THEN a - b ELSE 0

Larger(a, b) == IF a > b THEN a ELSE b

\* A map with one entry added or replaced.
With(map, key, value) ==
    [k \in DOMAIN map \cup {key} |-> IF k = key THEN value ELSE map[k]]

Empty == [k \in {} |-> 0]
NoRefusals == [functions |-> 0, edges |-> 0]

Init ==
    /\ clock = 0 /\ php = <<>> /\ frames = <<>>
    /\ started = 0 /\ open = 0 /\ parents = <<>>
    /\ table = Empty /\ edges = Empty /\ refused = NoRefusals
    /\ since = 0 /\ clean = TRUE /\ begun = 0
-----------------------------------------------------------------------------
(* The window of the counted profile.                                      *)

Fresh == [calls |-> 0, live |-> 0, deepest |-> 0, inclusive |-> 0, exclusive |-> 0]

\* The cap refuses new functions only; a refused call is one frame uncounted.
Counts(t, f) == f \in DOMAIN t \/ Cardinality(DOMAIN t) < MaxFunctions

\* Mutant: a recursive call is taken for a first one.
EnteredAnew(totals) == [totals EXCEPT !.calls = @ + 1, !.live = 1, !.deepest = 1]

Entered(totals) ==
    LET live == totals.live + 1
    IN  [totals EXCEPT !.calls = @ + 1, !.live = live, !.deepest = Larger(@, live)]

OnEnter(t, f) ==
    IF Counts(t, f) THEN With(t, f, Entered(IF f \in DOMAIN t THEN t[f] ELSE Fresh)) ELSE t

\* Inclusive time on the outermost frame only, exclusive time at every depth.
Left(totals, duration, own) ==
    LET live == Minus(totals.live, 1)
    IN  [totals EXCEPT !.exclusive = @ + own, !.live = live,
                       !.inclusive = IF live = 0 THEN @ + duration ELSE @]

\* on_leave, for a frame that was counted while a window is armed.
OnLeave(t, frame, duration) ==
    IF open # 0 /\ frame.counted /\ frame.f \in DOMAIN t
    THEN [t EXCEPT ![frame.f] = Left(@, duration, Minus(duration, frame.child))]
    ELSE t

\* record_edge, with the cap of its own.
Admits(e, pair) == pair \in DOMAIN e \/ Cardinality(DOMAIN e) < MaxEdges

RecordEdge(e, pair, duration) ==
    IF ~Admits(e, pair) THEN e
    ELSE LET had == IF pair \in DOMAIN e THEN e[pair] ELSE [calls |-> 0, inclusive |-> 0]
         IN  With(e, pair, [calls |-> had.calls + 1, inclusive |-> had.inclusive + duration])
-----------------------------------------------------------------------------
(* A call begins.                                                          *)

\* push_frame: the one place where a counted frame comes into existence.
PushFrame(f, r, owns, from) ==
    LET counted == Counts(from, f)
    IN  /\ frames' = Append(frames, [f |-> f, start |-> clock, child |-> 0,
                                     counted |-> counted, emits |-> f \in Spanning,
                                     owns |-> owns, of |-> r])
        /\ table' = OnEnter(from, f)
        /\ parents' = IF f \in Spanning THEN Append(parents, [start |-> clock, of |-> r])
                      ELSE IF owns THEN <<>> ELSE parents

\* set_request_context and reset_request: what a request that opens starts from.
\* CALL_FRAMES is not among the things they clear.
Opened ==
    /\ started < MaxRequests
    /\ started' = started + 1
    /\ open' = started + 1
    /\ since' = clock
    /\ clean' = (frames = <<>>)
    /\ edges' = Empty

\* A message is handed over while no request is open: its frame will close the
\* request it opens here.
Deliver(f) ==
    /\ f \in Dispatchers /\ open = 0
    /\ Opened
    /\ PushFrame(f, started + 1, TRUE, Empty)
    /\ begun' = 1
    /\ refused' = [NoRefusals EXCEPT !.functions = IF Counts(Empty, f) THEN 0 ELSE 1]

\* Mutant: a begin handler returns before it pushes, as for a suppressed I/O call.
ObserveUnlessSpan(f) ==
    /\ open # 0
    /\ IF f \in Spanning THEN UNCHANGED <<frames, table, parents, begun>>
       ELSE PushFrame(f, open, FALSE, table) /\ begun' = begun + 1
    /\ UNCHANGED <<started, open, edges, refused, since, clean>>

\* Every other call, and a delivery inside an open request, is a plain frame.
Observe(f) ==
    /\ open # 0
    /\ PushFrame(f, open, FALSE, table)
    /\ begun' = begun + 1
    /\ refused' = [refused EXCEPT !.functions = IF Counts(table, f) THEN @ ELSE @ + 1]
    /\ UNCHANGED <<started, open, edges, since, clean>>

\* No request, no frame: a call nobody waits for, or a delivery that is declined.
Pass(f) ==
    /\ open = 0
    /\ UNCHANGED <<frames, table, parents, started, open, edges, refused, since,
                   clean, begun>>

Begin(f) ==
    /\ clock < MaxClock /\ Len(php) < MaxDepth
    /\ clock' = clock + 1
    /\ php' = Append(php, [f |-> f, start |-> clock])
    /\ Deliver(f) \/ Observe(f) \/ Pass(f)
-----------------------------------------------------------------------------
(* A call ends.                                                            *)

\* Mutant: only the last call a frame made is taken off its own time.
HandedUpLast(below, frame, duration) ==
    IF below = <<>> THEN below ELSE [below EXCEPT ![Len(below)].child = duration]

\* The inclusive time of a frame is charged to the frame below, whatever it is.
HandedUp(below, frame, duration) ==
    IF below = <<>> THEN below ELSE [below EXCEPT ![Len(below)].child = @ + duration]

\* Mutant: the key of an edge is the wrong way round.
PairSwapped(caller, callee) == <<callee, caller>>

Pair(caller, callee) == <<caller, callee>>

\* end_request: the context, its span ids and the window go, the stack stays.
Closed ==
    /\ open' = 0
    /\ parents' = <<>>
    /\ table' = Empty /\ edges' = Empty /\ refused' = NoRefusals

\* Mutant: a span id is popped for every frame.
ParentsPopped(frame) == IF parents = <<>> THEN parents ELSE Pop(parents)

\* on_end pops the span id if it is the frame's own.
ParentsAfter(frame) ==
    IF frame.emits /\ parents # <<>> /\ Top(parents).start = frame.start
    THEN Pop(parents) ELSE parents

\* Mutant: every delivery frame closes, also one inside an open request.
ClosesAny(frame) == frame.f \in Dispatchers

Closes(frame) == frame.owns

\* The end handler: pop, leave the window, charge the parent; a delivery's frame
\* then closes whatever request is open.
PopFrame ==
    LET frame == Top(frames)
        below == Pop(frames)
        duration == Minus(clock, frame.start)
        edge == open # 0 /\ frame.counted /\ below # <<>>
        pair == Pair(Top(below).f, frame.f)
    IN  /\ frames # <<>>
        /\ frames' = HandedUp(below, frame, duration)
        /\ IF Closes(frame) /\ open # 0 THEN Closed
           ELSE /\ table' = OnLeave(table, frame, duration)
                /\ edges' = IF edge THEN RecordEdge(edges, pair, duration) ELSE edges
                /\ refused' = IF edge /\ ~Admits(edges, pair)
                              THEN [refused EXCEPT !.edges = @ + 1] ELSE refused
                /\ parents' = ParentsAfter(frame)
                /\ open' = open

\* The stack is empty: a call that was begun with no request open.
NothingToPop ==
    /\ frames = <<>>
    /\ UNCHANGED <<frames, parents, table, edges, refused, open>>

End ==
    /\ php # <<>> /\ clock < MaxClock
    /\ clock' = clock + 1
    /\ php' = Pop(php)
    /\ PopFrame \/ NothingToPop
    /\ UNCHANGED <<started, since, clean, begun>>
-----------------------------------------------------------------------------
\* RINIT at the outermost level, a bridge at any depth.
RequestStart ==
    /\ open = 0
    /\ Opened
    /\ parents' = <<>> /\ table' = Empty /\ refused' = NoRefusals
    /\ begun' = 0
    /\ UNCHANGED <<clock, php, frames>>

\* A bridge ends the request at any depth; RSHUTDOWN once PHP has unwound.
RequestEnd ==
    /\ open # 0
    /\ Closed
    /\ UNCHANGED <<clock, php, frames, started, since, clean, begun>>

Next ==
    \/ \E f \in Function : Begin(f)
    \/ End
    \/ RequestStart \/ RequestEnd

Spec == Init /\ [][Next]_vars
=============================================================================
