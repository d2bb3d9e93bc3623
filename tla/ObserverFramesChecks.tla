------------------------ MODULE ObserverFramesChecks ------------------------
(***************************************************************************)
(* What the counted profile and the span tree of a request must say.  Most *)
(* of it holds of requests that are opened with an empty frame stack: RINIT,*)
(* a worker's deliveries, a bridge in a worker loop.  EndsWithItsOpener is  *)
(* said of every request, whatever frames it finds on the stack.           *)
(***************************************************************************)
EXTENDS ObserverFrames, Sums

TableOK(t) == DOMAIN t \subseteq Function /\ \A f \in DOMAIN t : t[f] \in Totals

EdgesOK(e) ==
    DOMAIN e \subseteq Function \X Function /\ \A pair \in DOMAIN e : e[pair] \in EdgeTotals

TypeOK ==
    /\ clock \in Time /\ since \in Time /\ clean \in BOOLEAN /\ begun \in Nat
    /\ started \in Nat /\ open \in 0 .. started
    /\ php \in Seq(Call) /\ frames \in Seq(Frame) /\ parents \in Seq(Parent)
    /\ TableOK(table) /\ EdgesOK(edges)
    /\ refused \in [functions : Nat, edges : Nat]

\* The windows the properties are about.
Window == open # 0 /\ clean

\* How many calls were begun before the request that has frames now.
Outside == Len(php) - Len(frames)

\* The frames are the calls begun since the request was opened, one for one and in
\* order: an end handler that pops blindly pops the frame of the call that ends.
FramesPaired ==
    Window => /\ Len(frames) <= Len(php)
              /\ \A i \in 1 .. Len(frames) :
                     /\ frames[i].start = php[Outside + i].start
                     /\ frames[i].f = php[Outside + i].f
                     /\ frames[i].start >= since /\ frames[i].of = open
              /\ \A i \in 1 .. Outside : php[i].start < since

\* What FramesPaired rests on: the calls PHP is in began before now, so before the
\* next request.
Past == since <= clock /\ \A i \in DOMAIN php : php[i].start < clock

\* The inductive invariant.
IInv == TypeOK /\ Past /\ FramesPaired

\* What the rows of a table or the edges hold.
Selves(t) == [f \in DOMAIN t |-> t[f].exclusive]
Calls(t) == [k \in DOMAIN t |-> t[k].calls]
Into(e, f) == {pair \in DOMAIN e : pair[2] = f}

\* Every function's live depth is the number of its counted frames on the stack, so
\* the recursion rule banks inclusive time when, and only when, the outermost leaves.
DepthIsTrue ==
    Window => \A f \in DOMAIN table :
                  table[f].live = Cardinality({i \in DOMAIN frames :
                                               frames[i].f = f /\ frames[i].counted})

\* Self times are times of disjoint intervals of the window, also when the cap
\* refused a caller or a callee and when functions recurse.
SelfTimeFits ==
    Window => SumOver(DOMAIN table, Selves(table)) <= clock - since

\* Inclusive time counts an instant once however deep a function recurses.
InclusiveTimeFits ==
    Window => \A f \in DOMAIN table : table[f].inclusive <= clock - since

\* Once a function is off the stack its self time is part of its inclusive time.
SelfWithinInclusive ==
    Window => \A f \in DOMAIN table :
                  table[f].live = 0 => table[f].exclusive <= table[f].inclusive

\* The calls an edge reports ended: they are among those its callee counted.
EdgesWithinCalls ==
    Window => \A f \in DOMAIN table :
                  SumOver(Into(edges, f), Calls(edges)) <= table[f].calls - table[f].live

\* "Exact call counts": every call of the window is in the table or was refused, and
\* a refusal is reported.  True of any window, whatever is on the stack.
EveryCallIsCounted ==
    open # 0 => SumOver(DOMAIN table, Calls(table)) + refused.functions = begun

\* The times of a counted profile are times of its window: what deterministic.rs adds
\* up over frames, callees and recursion never exceeds what has passed.
TimesFit == DepthIsTrue /\ SelfTimeFits /\ InclusiveTimeFits /\ SelfWithinInclusive

\* The counts of a counted profile account for every call, whatever the caps refuse.
CountsAgree == EdgesWithinCalls /\ EveryCallIsCounted

\* A span is put under a span of its own request, and under the innermost one that
\* encloses it.
SpansNest ==
    /\ \A i \in DOMAIN parents : parents[i].of = open
    /\ Window => {parents[i].start : i \in DOMAIN parents}
                   = {frames[i].start : i \in {j \in DOMAIN frames : frames[j].emits}}

\* A call is the delivery that opened the open request: its frame says so.
OpenedIt(call) ==
    \E i \in DOMAIN frames : frames[i].owns /\ frames[i].of = open /\ frames[i].start = call.start

\* Whatever earlier requests left on the stack, the request a delivery opened ends when
\* that delivery's call does, and no call begun inside a request ends it.  A call begun
\* before the request may: a delivery whose handler ended its request and opened another
\* through the bridge closes that one, for the end handler closes what is open.
EndsWithItsOpener ==
    [][(Len(php') < Len(php) /\ open # 0)
         => /\ OpenedIt(Top(php)) => open' = 0
            /\ open' = 0 => OpenedIt(Top(php)) \/ Top(php).start < since]_vars

\* What it rests on, in every window: the calls begun since the request was opened are
\* the last ones, and have the last frames.
InsidePaired ==
    open # 0 =>
        /\ \A j \in DOMAIN php : php[j].start >= since =>
               LET i == Len(frames) - (Len(php) - j)
               IN  i > 0 /\ frames[i].start = php[j].start /\ frames[i].of = open
        /\ \A i \in DOMAIN frames : frames[i].of = open =>
               LET j == Len(php) - (Len(frames) - i)
               IN  j > 0 /\ php[j].start = frames[i].start

\* A frame is of a request that was opened.
FramesAreOfRequests == \A i \in DOMAIN frames : frames[i].of <= started
=============================================================================
