------------------------ MODULE ObserverFramesProofs ------------------------
(***************************************************************************)
(* In a request that was opened with an empty frame stack the end handler  *)
(* pops the frame of the call that ends, for any functions, caps, nesting  *)
(* and number of requests, although it never looks which call that is.     *)
(* So the times of the window are times of its calls, its counts account   *)
(* for them, and its span ids are those of the frames that emit a span.    *)
(***************************************************************************)
EXTENDS ObserverFramesChecks, FiniteSetTheorems, FunctionTheorems, SequenceTheorems, TLAPS

\* What popping leaves: a shorter stack, unchanged below.
LEMMA PopProperties ==
    ASSUME NEW S, NEW s \in Seq(S), s # <<>>
    PROVE  /\ Pop(s) \in Seq(S) /\ Len(s) > 0
           /\ Len(Pop(s)) = Len(s) - 1
           /\ \A i \in 1 .. Len(s) - 1 : Pop(s)[i] = s[i]
           /\ Top(s) \in S
  BY DEF Pop, Top

\* A frame that is charged a duration is the same frame otherwise.
LEMMA ChargedIsFrame ==
    ASSUME NEW g \in Frame, NEW duration \in Nat
    PROVE  LET charged == [g EXCEPT !.child = @ + duration]
           IN  /\ charged \in Frame
               /\ charged.start = g.start /\ charged.f = g.f /\ charged.of = g.of
<1>1. g.child + duration \in Nat
  BY DEF Frame, Time
<1>2. QED
  BY <1>1 DEF Frame, Time

\* Charging a call to the frame below changes nothing else of the stack.
LEMMA HandedUpProperties ==
    ASSUME NEW s \in Seq(Frame), NEW frame, NEW duration \in Nat
    PROVE  LET up == HandedUp(s, frame, duration)
           IN  /\ up \in Seq(Frame) /\ Len(up) = Len(s)
               /\ \A i \in 1 .. Len(s) : /\ up[i].start = s[i].start /\ up[i].f = s[i].f
                                         /\ up[i].of = s[i].of
<1> DEFINE last == [s[Len(s)] EXCEPT !.child = @ + duration]
<1>1. CASE s = <<>>
  BY <1>1 DEF HandedUp
<1>2. CASE s # <<>>
  <2>1. Len(s) \in 1 .. Len(s) /\ s[Len(s)] \in Frame
    BY <1>2
  <2>2. last \in Frame /\ last.start = s[Len(s)].start
            /\ last.f = s[Len(s)].f /\ last.of = s[Len(s)].of
    BY <2>1, ChargedIsFrame
  <2>3. HandedUp(s, frame, duration) = [s EXCEPT ![Len(s)] = last]
    BY <1>2 DEF HandedUp
  <2> HIDE DEF last
  <2>4. [s EXCEPT ![Len(s)] = last] \in Seq(Frame)
        /\ Len([s EXCEPT ![Len(s)] = last]) = Len(s)
        /\ \A i \in 1 .. Len(s) : [s EXCEPT ![Len(s)] = last][i]
                                     = IF i = Len(s) THEN last ELSE s[i]
    BY <2>1, <2>2, ExceptSeq
  <2>5. QED
    BY <2>2, <2>3, <2>4
<1>3. QED
  BY <1>1, <1>2
-----------------------------------------------------------------------------
(* The window keeps its type.                                              *)

\* The fields of a row are counts and times.
LEMMA RowTypes ==
    ASSUME NEW had \in Totals
    PROVE  /\ had.calls \in Nat /\ had.live \in Nat /\ had.deepest \in Nat
           /\ had.inclusive \in Nat /\ had.exclusive \in Nat
  BY DEF Totals, Time

\* A row is a row whatever counts and times are put into it.
LEMMA RowEntered ==
    ASSUME NEW had \in Totals, NEW a \in Nat, NEW b \in Nat, NEW c \in Nat
    PROVE  [had EXCEPT !.calls = a, !.live = b, !.deepest = c] \in Totals
  BY DEF Totals, Time

\* The same, of the fields that a leave touches.
LEMMA RowLeft ==
    ASSUME NEW had \in Totals, NEW a \in Nat, NEW b \in Nat, NEW c \in Nat
    PROVE  [had EXCEPT !.exclusive = a, !.live = b, !.inclusive = c] \in Totals
  BY DEF Totals, Time

\* A function enters the table, or is counted in it, or is refused.
LEMMA OnEnterTyped ==
    ASSUME NEW t, TableOK(t), NEW f \in Function
    PROVE  TableOK(OnEnter(t, f))
<1>1. Fresh \in Totals
  BY DEF Fresh, Totals, Time
<1>2. ASSUME NEW had \in Totals PROVE Entered(had) \in Totals
  <2>1. had.calls + 1 \in Nat /\ had.live + 1 \in Nat
        /\ Larger(had.deepest, had.live + 1) \in Nat
    BY <1>2, RowTypes DEF Larger
  <2>2. QED
    BY <1>2, <2>1, RowEntered DEF Entered
<1>3. ASSUME NEW new \in Totals PROVE TableOK(With(t, f, new))
  BY <1>3 DEF TableOK, With
<1>4. QED
  BY <1>1, <1>2, <1>3 DEF OnEnter, TableOK

\* A row that is left is a row.
LEMMA LeftTyped ==
    ASSUME NEW had \in Totals, NEW duration \in Nat, NEW o \in Nat
    PROVE  Left(had, duration, o) \in Totals
<1> DEFINE live == Minus(had.live, 1)
           inclusive == IF live = 0 THEN had.inclusive + duration ELSE had.inclusive
           exclusive == had.exclusive + o
<1>1. live \in Nat
  BY RowTypes DEF Minus
<1>2. inclusive \in Nat /\ exclusive \in Nat
  BY RowTypes
<1>3. Left(had, duration, o)
          = [had EXCEPT !.exclusive = exclusive, !.live = live, !.inclusive = inclusive]
  BY DEF Left
<1> HIDE DEF live, inclusive, exclusive
<1>4. [had EXCEPT !.exclusive = exclusive, !.live = live, !.inclusive = inclusive]
          \in Totals
  BY <1>1, <1>2, RowLeft, Zenon
<1>5. QED
  BY <1>3, <1>4

\* A frame leaves the table of the window it was counted in, or of a later one.
LEMMA OnLeaveTyped ==
    ASSUME NEW t, TableOK(t), NEW frame \in Frame, NEW duration \in Nat
    PROVE  TableOK(OnLeave(t, frame, duration))
<1> DEFINE own == Minus(duration, frame.child)
<1>1. own \in Nat
  <2>1. frame.child \in Nat
    BY DEF Frame, Time
  <2>2. QED
    BY <2>1 DEF Minus
<1> HIDE DEF own
<1>2. CASE frame.f \in DOMAIN t
  <2> DEFINE left == Left(t[frame.f], duration, own)
  <2>1. left \in Totals
    BY <1>1, <1>2, LeftTyped DEF TableOK
  <2> HIDE DEF left
  <2>2. TableOK([t EXCEPT ![frame.f] = left])
    BY <2>1 DEF TableOK
  <2>3. QED
    BY <2>2 DEF OnLeave, own, left
<1>3. CASE frame.f \notin DOMAIN t
  BY <1>3 DEF OnLeave
<1>4. QED
  BY <1>2, <1>3

\* An edge is recorded, or refused.
LEMMA RecordEdgeTyped ==
    ASSUME NEW e, EdgesOK(e), NEW pair \in Function \X Function, NEW duration \in Nat
    PROVE  EdgesOK(RecordEdge(e, pair, duration))
<1> DEFINE had == IF pair \in DOMAIN e THEN e[pair] ELSE [calls |-> 0, inclusive |-> 0]
           new == [calls |-> had.calls + 1, inclusive |-> had.inclusive + duration]
<1>1. had \in EdgeTotals
  BY DEF EdgesOK, EdgeTotals, Time
<1>2. new \in EdgeTotals
  BY <1>1 DEF EdgeTotals, Time
<1> HIDE DEF new
<1>3. EdgesOK(With(e, pair, new))
  BY <1>2 DEF EdgesOK, With
<1>4. QED
  BY <1>3 DEF RecordEdge, new

\* Pushing a frame appends it, and leaves the table and the span ids well formed.
LEMMA PushTyped ==
    ASSUME TypeOK, NEW f \in Function, NEW r \in Nat, NEW owns \in BOOLEAN,
           NEW from, TableOK(from), PushFrame(f, r, owns, from)
    PROVE  /\ frames' \in Seq(Frame) /\ parents' \in Seq(Parent) /\ TableOK(table')
           /\ Len(frames') = Len(frames) + 1
           /\ \A i \in 1 .. Len(frames) : frames'[i] = frames[i]
           /\ LET new == frames'[Len(frames) + 1]
              IN  new.f = f /\ new.start = clock /\ new.of = r
<1> DEFINE new == [f |-> f, start |-> clock, child |-> 0, counted |-> Counts(from, f),
                   emits |-> f \in Spanning, owns |-> owns, of |-> r]
<1>1. Counts(from, f) \in BOOLEAN
  BY DEF Counts
<1>2. new \in Frame /\ new.f = f /\ new.start = clock /\ new.of = r
  BY <1>1 DEF Frame, Time, TypeOK
<1>3. frames' = Append(frames, new)
  BY DEF PushFrame
<1> HIDE DEF new
<1>4. TableOK(table')
  BY OnEnterTyped DEF PushFrame
<1>5. parents' \in Seq(Parent)
  <2>1. [start |-> clock, of |-> r] \in Parent
    BY DEF Parent, Time, TypeOK
  <2>2. QED
    BY <2>1 DEF PushFrame, TypeOK
<1>6. QED
  BY <1>2, <1>3, <1>4, <1>5 DEF TypeOK
-----------------------------------------------------------------------------
(* The steps.  A request that opens on an empty stack has no frame to pair; *)
(* a call that begins in it gets a frame, and one that ends takes one.      *)

\* A request that is open is one of those that were started.
LEMMA OpenIsNat == ASSUME TypeOK PROVE started \in Nat /\ open \in Nat
  BY DEF TypeOK

\* The call that begins is the last of the calls PHP is in.
LEMMA CallBegins ==
    ASSUME TypeOK, Past, NEW f \in Function, Begin(f)
    PROVE  /\ php' \in Seq(Call) /\ Len(php') = Len(php) + 1
           /\ \A i \in 1 .. Len(php) : php'[i] = php[i]
           /\ php'[Len(php) + 1].f = f /\ php'[Len(php) + 1].start = clock
           /\ clock' = clock + 1 /\ clock' \in Nat
           /\ \A i \in DOMAIN php' : php'[i].start < clock'
<1> DEFINE call == [f |-> f, start |-> clock]
<1>1. call \in Call /\ call.f = f /\ call.start = clock
  BY DEF Call, Time, TypeOK
<1>2. php' = Append(php, call) /\ clock' = clock + 1 /\ clock \in Nat /\ php \in Seq(Call)
  BY DEF Begin, TypeOK, Time
<1> HIDE DEF call
<1>3. /\ php' \in Seq(Call) /\ Len(php') = Len(php) + 1
      /\ \A i \in 1 .. Len(php) : php'[i] = php[i]
      /\ php'[Len(php) + 1] = call
  BY <1>1, <1>2
<1>4. ASSUME NEW i \in 1 .. Len(php) PROVE php[i].start \in Nat /\ php[i].start < clock
  <2>1. php[i] \in Call /\ i \in DOMAIN php
    BY <1>2
  <2>2. QED
    BY <2>1 DEF Past, Call, Time
<1>5. ASSUME NEW i \in DOMAIN php' PROVE php'[i].start < clock'
  BY <1>1, <1>2, <1>3, <1>4
<1>6. QED
  BY <1>1, <1>2, <1>3, <1>5

\* A delivery opens its own request; the frame it pushes is the request's first, and
\* the call it stands for the only one PHP is in that began no earlier.
LEMMA DeliverKeeps ==
    ASSUME IInv, NEW f \in Function, Begin(f), Deliver(f)
    PROVE  IInv'
<1> USE DEF IInv
<1>1. TableOK(Empty) /\ EdgesOK(Empty)
  BY DEF TableOK, EdgesOK, Empty
<1>2. started + 1 \in Nat /\ started' = started + 1 /\ open' = started + 1
  BY OpenIsNat DEF Deliver, Opened
<1>3. /\ frames' \in Seq(Frame) /\ parents' \in Seq(Parent) /\ TableOK(table')
      /\ Len(frames') = Len(frames) + 1
      /\ LET new == frames'[Len(frames) + 1]
         IN  new.f = f /\ new.start = clock /\ new.of = started + 1
  BY <1>1, <1>2, PushTyped DEF Deliver
<1>4. EdgesOK(edges') /\ since' = clock /\ clean' \in BOOLEAN /\ begun' = 1
      /\ refused' \in [functions : Nat, edges : Nat]
  BY <1>1 DEF Deliver, Opened, NoRefusals
<1>5. TypeOK'
  BY <1>2, <1>3, <1>4, CallBegins DEF TypeOK, Time
<1>6. Past'
  BY <1>4, CallBegins DEF Past, TypeOK, Time
<1>7. FramesPaired'
  <2>1. SUFFICES ASSUME clean' PROVE FramesPaired'
    BY DEF FramesPaired, Window
  <2>0. frames = <<>>
    BY <2>1, Zenon DEF Deliver, Opened
  <2>2. Len(frames') = 1
    BY <1>3, <2>0
  <2>3. Len(php') = Len(php) + 1 /\ Len(php) \in Nat
    BY CallBegins DEF TypeOK
  <2>4. Outside' = Len(php)
    BY <2>2, <2>3 DEF Outside
  <2>5. \A i \in 1 .. Len(php) : php'[i].start < since'
    <3>1. DOMAIN php = 1 .. Len(php)
      BY DEF TypeOK
    <3>2. QED
      BY <1>4, <3>1, CallBegins DEF Past
  <2>7. /\ frames'[1].start = php'[Len(php) + 1].start
        /\ frames'[1].f = php'[Len(php) + 1].f
        /\ frames'[1].start >= since' /\ frames'[1].of = open'
    BY <1>2, <1>3, <1>4, <2>0, CallBegins DEF TypeOK, Time
  <2>8. QED
    BY <2>2, <2>3, <2>4, <2>5, <2>7 DEF FramesPaired
<1>8. QED
  BY <1>5, <1>6, <1>7

\* A call inside an open request gets a frame: both stacks grow by one.
LEMMA ObserveKeeps ==
    ASSUME IInv, NEW f \in Function, Begin(f), Observe(f)
    PROVE  IInv'
<1> USE DEF IInv
<1>1. open \in Nat /\ TableOK(table)
  BY OpenIsNat DEF TypeOK
<1>2. /\ frames' \in Seq(Frame) /\ parents' \in Seq(Parent) /\ TableOK(table')
      /\ Len(frames') = Len(frames) + 1
      /\ \A i \in 1 .. Len(frames) : frames'[i] = frames[i]
      /\ LET new == frames'[Len(frames) + 1]
         IN  new.f = f /\ new.start = clock /\ new.of = open
  BY <1>1, PushTyped DEF Observe
<1>3. UNCHANGED <<started, open, edges, since, clean>> /\ open # 0
  BY DEF Observe
<1>4. refused' \in [functions : Nat, edges : Nat] /\ begun' \in Nat
  BY DEF Observe, TypeOK
<1>5. TypeOK'
  BY <1>2, <1>3, <1>4, CallBegins DEF TypeOK, Time
<1>6. Past'
  BY <1>3, CallBegins DEF Past, TypeOK, Time
<1>7. FramesPaired'
  <2>1. SUFFICES ASSUME clean PROVE FramesPaired'
    BY <1>3 DEF FramesPaired, Window
  <2>2. /\ Len(frames) <= Len(php)
        /\ \A i \in 1 .. Len(frames) :
              /\ frames[i].start = php[Outside + i].start
              /\ frames[i].f = php[Outside + i].f
              /\ frames[i].start >= since /\ frames[i].of = open
        /\ \A i \in 1 .. Outside : php[i].start < since
    BY <1>3, <2>1 DEF FramesPaired, Window
  <2>3. Len(php') = Len(php) + 1 /\ Len(php) \in Nat /\ Len(frames) \in Nat
    BY CallBegins DEF TypeOK
  <2>4. Outside' = Outside /\ Outside \in Nat /\ Outside + Len(frames) = Len(php)
    BY <1>2, <2>2, <2>3 DEF Outside
  <2>5. \A i \in 1 .. Outside' : php'[i].start < since'
    BY <1>3, <2>2, <2>3, <2>4, CallBegins
  <2>6. ASSUME NEW i \in 1 .. Len(frames')
        PROVE  /\ frames'[i].start = php'[Outside' + i].start
               /\ frames'[i].f = php'[Outside' + i].f
               /\ frames'[i].start >= since' /\ frames'[i].of = open'
    <3>1. CASE i \in 1 .. Len(frames)
      <4>1. frames'[i] = frames[i] /\ php'[Outside' + i] = php[Outside + i]
        BY SMTT(60), <1>2, <2>3, <2>4, <3>1, CallBegins
      <4>2. QED
        BY <1>3, <2>2, <3>1, <4>1
    <3>2. CASE i = Len(frames) + 1
      BY SMTT(60), <1>2, <1>3, <2>4, <3>2, CallBegins DEF Past, TypeOK, Time
    <3>3. QED
      BY <1>2, <2>3, <3>1, <3>2
  <2>7. QED
    BY <1>2, <2>2, <2>3, <2>5, <2>6 DEF FramesPaired
<1>8. QED
  BY <1>5, <1>6, <1>7

\* A call outside any request leaves the observer as it is.
LEMMA PassKeeps ==
    ASSUME IInv, NEW f \in Function, Begin(f), Pass(f)
    PROVE  IInv'
<1>1. /\ UNCHANGED <<frames, table, parents, started, open, edges, refused, since,
                      clean, begun>>
      /\ open = 0
  BY DEF Pass
<1>2. TypeOK'
  BY <1>1, CallBegins DEF IInv, TypeOK, Time
<1>3. Past'
  BY <1>1, CallBegins DEF IInv, Past, TypeOK, Time
<1>4. FramesPaired'
  BY <1>1 DEF FramesPaired, Window
<1>5. QED
  BY <1>2, <1>3, <1>4 DEF IInv

\* The call that ends is the last one; the calls below keep their places.
LEMMA CallEnds ==
    ASSUME TypeOK, Past, End
    PROVE  /\ php' \in Seq(Call) /\ Len(php') = Len(php) - 1 /\ Len(php) > 0
           /\ \A i \in 1 .. Len(php) - 1 : php'[i] = php[i]
           /\ clock' = clock + 1 /\ clock' \in Nat
           /\ \A i \in DOMAIN php' : php'[i].start < clock'
           /\ UNCHANGED <<started, since, clean, begun>>
<1>1. php' = Pop(php) /\ clock' = clock + 1 /\ clock \in Nat /\ php \in Seq(Call)
      /\ php # <<>> /\ UNCHANGED <<started, since, clean, begun>>
  BY DEF End, TypeOK, Time
<1>2. /\ php' \in Seq(Call) /\ Len(php') = Len(php) - 1 /\ Len(php) > 0
      /\ \A i \in 1 .. Len(php) - 1 : php'[i] = php[i]
  BY <1>1, PopProperties
<1>3. ASSUME NEW i \in DOMAIN php' PROVE php'[i].start < clock'
  <2>1. i \in 1 .. Len(php) /\ php'[i] = php[i]
    BY <1>1, <1>2
  <2>2. php[i] \in Call /\ i \in DOMAIN php
    BY <1>1, <2>1
  <2>3. QED
    BY <1>1, <2>1, <2>2 DEF Past, Call, Time
<1>4. QED
  BY <1>1, <1>2, <1>3

\* The stack after a pop: one frame shorter, the rest known by the same starts.
LEMMA FramePopped ==
    ASSUME TypeOK, Past, PopFrame
    PROVE  /\ frames' \in Seq(Frame) /\ Len(frames) > 0 /\ Len(frames') = Len(frames) - 1
           /\ \A i \in 1 .. Len(frames) - 1 :
                 /\ frames'[i].start = frames[i].start /\ frames'[i].f = frames[i].f
                 /\ frames'[i].of = frames[i].of
           /\ Top(frames) \in Frame
<1> DEFINE frame == Top(frames)
           below == Pop(frames)
           duration == Minus(clock, frame.start)
<1>1. frames # <<>> /\ frames \in Seq(Frame)
  BY DEF PopFrame, TypeOK
<1>2. /\ below \in Seq(Frame) /\ Len(frames) > 0 /\ Len(below) = Len(frames) - 1
      /\ \A i \in 1 .. Len(frames) - 1 : below[i] = frames[i]
      /\ frame \in Frame
  BY <1>1, PopProperties
<1>3. duration \in Nat
  <2>1. clock \in Nat /\ frame.start \in Nat
    BY <1>2 DEF TypeOK, Frame, Time
  <2>2. QED
    BY <2>1 DEF Minus
<1>4. frames' = HandedUp(below, frame, duration)
  BY DEF PopFrame
<1> HIDE DEF frame, below, duration
<1>5. /\ HandedUp(below, frame, duration) \in Seq(Frame)
      /\ Len(HandedUp(below, frame, duration)) = Len(below)
      /\ \A i \in 1 .. Len(below) :
            /\ HandedUp(below, frame, duration)[i].start = below[i].start
            /\ HandedUp(below, frame, duration)[i].f = below[i].f
            /\ HandedUp(below, frame, duration)[i].of = below[i].of
  BY <1>2, <1>3, HandedUpProperties
<1>6. QED
  BY <1>2, <1>4, <1>5 DEF frame

\* What the end handler writes of the window and the span ids is well formed.
LEMMA PopTyped ==
    ASSUME TypeOK, PopFrame, Top(frames) \in Frame
    PROVE  /\ TableOK(table') /\ EdgesOK(edges') /\ parents' \in Seq(Parent)
           /\ refused' \in [functions : Nat, edges : Nat]
           /\ open' = open \/ (open' = 0 /\ Top(frames).owns)
<1> DEFINE frame == Top(frames)
           below == Pop(frames)
           duration == Minus(clock, frame.start)
           edge == open # 0 /\ frame.counted /\ below # <<>>
           pair == Pair(Top(below).f, frame.f)
<1>1. CASE Closes(frame) /\ open # 0
  BY <1>1 DEF PopFrame, Closed, Closes, TableOK, EdgesOK, Empty, NoRefusals
<1>2. CASE ~(Closes(frame) /\ open # 0)
  <2>1. /\ table' = OnLeave(table, frame, duration)
        /\ edges' = IF edge THEN RecordEdge(edges, pair, duration) ELSE edges
        /\ refused' = IF edge /\ ~Admits(edges, pair)
                      THEN [refused EXCEPT !.edges = @ + 1] ELSE refused
        /\ parents' = ParentsAfter(frame)
        /\ open' = open
    BY <1>2 DEF PopFrame
  <2>2. duration \in Nat
    BY DEF Minus, TypeOK, Frame, Time
  <2>3. edge => pair \in Function \X Function
    <3>1. SUFFICES ASSUME edge PROVE pair \in Function \X Function
      OBVIOUS
    <3>2. below \in Seq(Frame) /\ below # <<>>
      BY <3>1, PopProperties DEF PopFrame, TypeOK
    <3>3. Top(below) \in Frame
      BY <3>2, PopProperties
    <3>4. QED
      BY <3>3 DEF Pair, Frame
  <2>4. parents' \in Seq(Parent)
    BY <2>1, PopProperties DEF ParentsAfter, TypeOK
  <2> HIDE DEF edge, pair, duration, frame
  <2>5. TableOK(table')
    BY <2>1, <2>2, OnLeaveTyped DEF TypeOK, frame
  <2>6. EdgesOK(edges')
    BY <2>1, <2>2, <2>3, RecordEdgeTyped DEF TypeOK
  <2>7. refused' \in [functions : Nat, edges : Nat]
    BY <2>1 DEF TypeOK
  <2>8. QED
    BY <2>1, <2>4, <2>5, <2>6, <2>7
<1>3. QED
  BY <1>1, <1>2

\* An end handler that pops a frame pops the one of the call that ends, and what is
\* left on both stacks is still paired.
LEMMA PopKeeps ==
    ASSUME IInv, End, PopFrame
    PROVE  IInv'
<1> USE DEF IInv
<1>1. TypeOK'
  BY SMTT(60), CallEnds, FramePopped, PopTyped DEF TypeOK, Time
<1>2. Past'
  BY CallEnds DEF Past, TypeOK, Time
<1>3. FramesPaired'
  <2>1. SUFFICES ASSUME Window' PROVE FramesPaired'
    BY DEF FramesPaired
  <2>2. open' = open /\ Window
    BY <2>1, CallEnds, FramePopped, PopTyped DEF Window
  <2>3. /\ Len(frames) <= Len(php)
        /\ \A i \in 1 .. Len(frames) :
              /\ frames[i].start = php[Outside + i].start
              /\ frames[i].f = php[Outside + i].f
              /\ frames[i].start >= since /\ frames[i].of = open
        /\ \A i \in 1 .. Outside : php[i].start < since
    BY <2>2 DEF FramesPaired
  <2>4. /\ Len(php') = Len(php) - 1 /\ Len(php) \in Nat
        /\ Len(frames') = Len(frames) - 1 /\ Len(frames) \in Nat /\ Len(frames) > 0
    BY CallEnds, FramePopped DEF TypeOK
  <2>5. Outside' = Outside /\ Outside \in Nat /\ Outside + Len(frames) = Len(php)
    BY <2>3, <2>4 DEF Outside
  <2>6. \A i \in 1 .. Outside' : php'[i].start < since'
    BY <2>3, <2>4, <2>5, CallEnds
  <2>7. ASSUME NEW i \in 1 .. Len(frames')
        PROVE  /\ frames'[i].start = php'[Outside' + i].start
               /\ frames'[i].f = php'[Outside' + i].f
               /\ frames'[i].start >= since' /\ frames'[i].of = open'
    <3>1. i \in 1 .. Len(frames) - 1 /\ Outside + i \in 1 .. Len(php) - 1
      BY <2>4, <2>5
    <3>2. /\ frames'[i].start = frames[i].start /\ frames'[i].f = frames[i].f
          /\ frames'[i].of = frames[i].of
      BY <3>1, FramePopped
    <3>3. php'[Outside' + i] = php[Outside + i] /\ since' = since
      BY <2>5, <3>1, CallEnds
    <3>4. QED
      BY <2>2, <2>3, <3>1, <3>2, <3>3
  <2>8. QED
    BY <2>3, <2>4, <2>6, <2>7 DEF FramesPaired
<1>4. QED
  BY <1>1, <1>2, <1>3

\* With no frame left the calls that end are those that began before the request.
LEMMA NothingToPopKeeps ==
    ASSUME IInv, End, NothingToPop
    PROVE  IInv'
<1> USE DEF IInv
<1>1. UNCHANGED <<frames, parents, table, edges, refused, open>> /\ frames = <<>>
  BY DEF NothingToPop
<1>2. TypeOK'
  BY <1>1, CallEnds DEF TypeOK, Time
<1>3. Past'
  BY CallEnds DEF Past, TypeOK, Time
<1>4. FramesPaired'
  <2>1. SUFFICES ASSUME Window PROVE FramesPaired'
    BY <1>1, CallEnds DEF FramesPaired, Window
  <2>2. \A i \in 1 .. Len(php) : php[i].start < since
    BY <1>1, <2>1 DEF FramesPaired, Outside, TypeOK
  <2>3. Len(frames') = 0 /\ Outside' = Len(php) - 1 /\ Len(php) \in Nat /\ Len(php) > 0
    BY <1>1, CallEnds DEF Outside, TypeOK
  <2>4. \A i \in 1 .. Len(php) - 1 : php'[i].start < since'
    BY <2>2, <2>3, CallEnds
  <2>5. QED
    BY <2>3, <2>4, CallEnds DEF FramesPaired
<1>5. QED
  BY <1>2, <1>3, <1>4

\* A request that opens on an empty stack has nothing to pair yet.
LEMMA StartKeeps ==
    ASSUME IInv, RequestStart
    PROVE  IInv'
<1> USE DEF IInv
<1>1. /\ started' = started + 1 /\ open' = started + 1 /\ since' = clock
      /\ edges' = Empty /\ table' = Empty /\ refused' = NoRefusals /\ parents' = <<>>
      /\ begun' = 0 /\ clean' \in BOOLEAN /\ UNCHANGED <<clock, php, frames>>
  BY DEF RequestStart, Opened
<1>2. clean' => frames = <<>>
  BY Zenon DEF RequestStart, Opened
<1>3. TableOK(Empty) /\ EdgesOK(Empty) /\ NoRefusals \in [functions : Nat, edges : Nat]
  BY DEF TableOK, EdgesOK, Empty, NoRefusals
<1>4. TypeOK'
  BY <1>1, <1>3 DEF TypeOK, Time
<1>5. Past'
  BY <1>1 DEF Past, TypeOK, Time
<1>6. FramesPaired'
  <2>1. SUFFICES ASSUME clean' PROVE FramesPaired'
    BY DEF FramesPaired, Window
  <2>2. Len(frames') = 0 /\ Outside' = Len(php) /\ Len(php) \in Nat
    BY <1>1, <1>2, <2>1 DEF Outside, TypeOK
  <2>3. DOMAIN php = 1 .. Len(php)
    BY DEF TypeOK
  <2>4. QED
    BY <1>1, <2>2, <2>3 DEF FramesPaired, Past
<1>7. QED
  BY <1>4, <1>5, <1>6

\* The request that ends takes its window along and leaves the stack.
LEMMA EndKeeps ==
    ASSUME IInv, RequestEnd
    PROVE  IInv'
<1> USE DEF IInv
<1>1. /\ open' = 0 /\ parents' = <<>> /\ table' = Empty /\ edges' = Empty
      /\ refused' = NoRefusals
      /\ UNCHANGED <<clock, php, frames, started, since, clean, begun>>
  BY DEF RequestEnd, Closed
<1>2. TableOK(Empty) /\ EdgesOK(Empty) /\ NoRefusals \in [functions : Nat, edges : Nat]
  BY DEF TableOK, EdgesOK, Empty, NoRefusals
<1>3. TypeOK'
  BY <1>1, <1>2 DEF TypeOK, Time
<1>4. Past' /\ FramesPaired'
  BY <1>1 DEF Past, FramesPaired, Window
<1>5. QED
  BY <1>3, <1>4

\* Each step of the observer keeps the invariant.
LEMMA StepKeeps ==
    ASSUME IInv, Next
    PROVE  IInv'
<1>1. CASE \E f \in Function : Begin(f)
  <2>1. PICK f \in Function : Begin(f)
    BY <1>1
  <2>2. Deliver(f) \/ Observe(f) \/ Pass(f)
    BY <2>1 DEF Begin
  <2>3. QED
    BY <2>1, <2>2, DeliverKeeps, ObserveKeeps, PassKeeps
<1>2. CASE End
  BY <1>2, PopKeeps, NothingToPopKeeps DEF End
<1>3. CASE RequestStart
  BY <1>3, StartKeeps
<1>4. CASE RequestEnd
  BY <1>4, EndKeeps
<1>5. QED
  BY <1>1, <1>2, <1>3, <1>4 DEF Next

\* The invariant holds: types, no call that begins in the future, and the pairing.
THEOREM Invariance == Spec => []IInv
<1>1. Init => IInv
  BY DEF Init, IInv, TypeOK, Past, FramesPaired, Window, TableOK, EdgesOK, Empty,
         NoRefusals, Time
<1>2. IInv /\ [Next]_vars => IInv'
  <2>1. SUFFICES ASSUME IInv, [Next]_vars PROVE IInv'
    OBVIOUS
  <2>2. CASE Next
    BY <2>1, <2>2, StepKeeps
  <2>3. CASE UNCHANGED vars
    BY <2>1, <2>3 DEF vars, IInv, TypeOK, Past, FramesPaired, Window, Outside
  <2>4. QED
    BY <2>1, <2>2, <2>3
<1>3. QED
  BY <1>1, <1>2, PTL DEF Spec

\* In every request that is opened on an empty stack the frames are the calls of the
\* request, so counts, edges and times are charged to the calls they belong to.
THEOREM PairingHolds == Spec => []FramesPaired
<1>1. IInv => FramesPaired
  BY DEF IInv
<1>2. QED
  BY <1>1, Invariance, PTL

-----------------------------------------------------------------------------
(* Sums.                                                                   *)

\* Which squares there are.
LEMMA SquaresAre ==
    ASSUME NEW S, NEW f
    PROVE  \A x : x \in Squares(S, f) <=> \E s \in S : x \in {s} \X (1 .. f[s])
  BY DEF Squares

\* A column of k squares.
LEMMA ColumnIs ==
    ASSUME NEW s, NEW k \in Nat
    PROVE  IsFiniteSet({s} \X (1 .. k)) /\ Cardinality({s} \X (1 .. k)) = k
<1>1. IsFiniteSet({s}) /\ Cardinality({s}) = 1
  BY FS_Singleton
<1>2. IsFiniteSet(1 .. k) /\ Cardinality(1 .. k) = k
  BY FS_Interval
<1>3. /\ IsFiniteSet({s} \X (1 .. k))
      /\ Cardinality({s} \X (1 .. k)) = Cardinality({s}) * Cardinality(1 .. k)
  BY <1>1, <1>2, FS_Product
<1>4. QED
  BY <1>1, <1>2, <1>3

\* Finitely many columns have finitely many squares.
LEMMA SumIsNat ==
    ASSUME NEW S, IsFiniteSet(S), NEW f, \A s \in S : f[s] \in Nat
    PROVE  IsFiniteSet(Squares(S, f)) /\ SumOver(S, f) \in Nat
<1> DEFINE Columns == {{s} \X (1 .. f[s]) : s \in S}
<1>1. IsFiniteSet(Columns)
  <2> DEFINE column == [s \in S |-> {s} \X (1 .. f[s])]
  <2>1. column \in Surjection(S, Columns)
    BY DEF Surjection
  <2>2. QED
    BY <2>1, FS_Surjection
<1>2. \A C \in Columns : IsFiniteSet(C)
  <2>1. \A s \in S : IsFiniteSet({s} \X (1 .. f[s]))
    BY ColumnIs
  <2>2. QED
    BY <2>1
<1> HIDE DEF Columns
<1>3. IsFiniteSet(UNION Columns)
  BY <1>1, <1>2, FS_UNION
<1>4. QED
  BY <1>3, FS_CardinalityType DEF Columns, Squares, SumOver

\* Sets with nothing in common.
LEMMA Apart ==
    ASSUME NEW A, NEW B, IsFiniteSet(A), IsFiniteSet(B), \A y \in A : y \notin B
    PROVE  Cardinality(A \cup B) = Cardinality(A) + Cardinality(B)
<1>1. A \cap B = {}
  OBVIOUS
<1>2. Cardinality(A \cap B) = 0
  BY <1>1, FS_EmptySet
<1>3. Cardinality(A) \in Nat /\ Cardinality(B) \in Nat
  BY FS_CardinalityType
<1>4. Cardinality(A \cup B) = Cardinality(A) + Cardinality(B) - Cardinality(A \cap B)
  BY FS_Union
<1>5. QED
  BY <1>2, <1>3, <1>4

\* One column more.
LEMMA SumMore ==
    ASSUME NEW S, IsFiniteSet(S), NEW x, x \notin S, NEW f, \A s \in S \cup {x} : f[s] \in Nat
    PROVE  SumOver(S \cup {x}, f) = SumOver(S, f) + f[x]
<1>1. IsFiniteSet(Squares(S, f)) /\ SumOver(S, f) \in Nat
  BY SumIsNat
<1>2. f[x] \in Nat /\ IsFiniteSet({x} \X (1 .. f[x])) /\ Cardinality({x} \X (1 .. f[x])) = f[x]
  BY ColumnIs
<1>3. \A y : y \in Squares(S \cup {x}, f) <=> y \in Squares(S, f) \/ y \in {x} \X (1 .. f[x])
  BY SquaresAre
<1>4. Squares(S \cup {x}, f) = Squares(S, f) \cup ({x} \X (1 .. f[x]))
  BY <1>3
<1>5. \A y \in Squares(S, f) : y \notin {x} \X (1 .. f[x])
  BY SquaresAre
<1>6. Cardinality(Squares(S, f) \cup ({x} \X (1 .. f[x])))
        = Cardinality(Squares(S, f)) + Cardinality({x} \X (1 .. f[x]))
  BY <1>1, <1>2, <1>5, Apart
<1>7. QED
  BY <1>2, <1>4, <1>6 DEF SumOver

\* The sum looks at f in S only.
LEMMA SumSame ==
    ASSUME NEW S, NEW f, NEW g, \A s \in S : f[s] = g[s]
    PROVE  SumOver(S, f) = SumOver(S, g)
<1>1. \A y : y \in Squares(S, f) <=> y \in Squares(S, g)
  BY SquaresAre
<1>2. Squares(S, f) = Squares(S, g)
  BY <1>1
<1>3. QED
  BY <1>2 DEF SumOver

\* An element apart.
LEMMA SumSplit ==
    ASSUME NEW S, IsFiniteSet(S), NEW x \in S, NEW f, \A s \in S : f[s] \in Nat
    PROVE  /\ SumOver(S, f) = SumOver(S \ {x}, f) + f[x]
           /\ SumOver(S \ {x}, f) \in Nat /\ f[x] \in Nat
<1>1. IsFiniteSet(S \ {x}) /\ S = (S \ {x}) \cup {x}
  BY FS_RemoveElement
<1>2. QED
  BY <1>1, SumMore, SumIsNat

\* f and g differ at one element.
LEMMA SumChanges ==
    ASSUME NEW S, IsFiniteSet(S), NEW x \in S, NEW f, NEW g,
           \A s \in S : f[s] \in Nat /\ g[s] \in Nat,
           \A s \in S : s # x => f[s] = g[s]
    PROVE  /\ SumOver(S, g) + f[x] = SumOver(S, f) + g[x]
           /\ SumOver(S, f) \in Nat /\ SumOver(S, g) \in Nat
<1>1. SumOver(S \ {x}, f) = SumOver(S \ {x}, g)
  BY SumSame
<1>2. SumOver(S, f) = SumOver(S \ {x}, f) + f[x] /\ SumOver(S \ {x}, f) \in Nat /\ f[x] \in Nat
  BY SumSplit
<1>3. SumOver(S, g) = SumOver(S \ {x}, g) + g[x] /\ g[x] \in Nat
  BY SumSplit
<1>4. QED
  BY <1>1, <1>2, <1>3, SumIsNat

\* Nothing to add.
LEMMA SumOfNothing ==
    ASSUME NEW f
    PROVE  SumOver({}, f) = 0
  BY FS_EmptySet DEF SumOver, Squares
-----------------------------------------------------------------------------
(* The times and counts of a window.  t is its table, e its edges, s the   *)
(* frame stack, opened the time the window was opened and now the clock.   *)

\* The counted frames of f.
Frames(s, f) == {i \in 1 .. Len(s) : s[i].f = f /\ s[i].counted}

\* What the frames have been charged by the calls they made.
Children(s) == [i \in 1 .. Len(s) |-> s[i].child]

\* When the oldest frame began, and when the call after the i-th did.
Oldest(s, now) == IF s = <<>> THEN now ELSE s[1].start
Until(s, i, now) == IF i = Len(s) THEN now ELSE s[i + 1].start

\* The live depth is the number of counted frames, each of a function in the table.
Depths(t, s) ==
    /\ \A f \in DOMAIN t : t[f].live = Cardinality(Frames(s, f))
    /\ \A i \in 1 .. Len(s) : s[i].counted => s[i].f \in DOMAIN t

\* The calls a frame made are over before the next frame begins.
Charges(s, now) == \A i \in 1 .. Len(s) : s[i].start + s[i].child <= Until(s, i, now)

\* So is the sum of them all: what the frames up to the j-th were charged, they were
\* charged one after the other.
Stretches(s, now) ==
    \A j \in 1 .. Len(s) : SumOver(1 .. j, Children(s)) + s[1].start <= Until(s, j, now)

\* The self times are times before the oldest frame, or times charged to a frame.
SelfTimes(t, s, opened, now) ==
    SumOver(DOMAIN t, Selves(t)) + opened
        <= SumOver(1 .. Len(s), Children(s)) + Oldest(s, now)

\* The inclusive time of a function is time before each of its frames.
InclusiveTimes(t, s, opened, now) ==
    \A f \in DOMAIN t :
        /\ t[f].inclusive + opened <= now
        /\ \A i \in Frames(s, f) : t[f].inclusive + opened <= s[i].start

\* The self time of a function is within its inclusive time, but for what has been
\* charged to its outermost frame and to those above it.
Outermost(s, f, i) == i \in Frames(s, f) /\ \A j \in Frames(s, f) : i <= j

SelfAndInclusive(t, s) ==
    \A f \in DOMAIN t :
        /\ Frames(s, f) = {} => t[f].exclusive <= t[f].inclusive
        /\ \A i \in 1 .. Len(s) :
               Outermost(s, f, i) =>
                   t[f].exclusive <= t[f].inclusive + SumOver(i .. Len(s), Children(s))

\* An edge leads into a function of the table, and its calls have ended.
EdgeCalls(t, e) ==
    /\ \A pair \in DOMAIN e : pair[2] \in DOMAIN t
    /\ \A f \in DOMAIN t : SumOver(Into(e, f), Calls(e)) + t[f].live <= t[f].calls

Finite(t, e) == IsFiniteSet(DOMAIN t) /\ IsFiniteSet(DOMAIN e)

Good(t, e, s, opened, now) ==
    /\ Finite(t, e)
    /\ Depths(t, s) /\ Charges(s, now) /\ Stretches(s, now)
    /\ SelfTimes(t, s, opened, now) /\ InclusiveTimes(t, s, opened, now)
    /\ SelfAndInclusive(t, s)
    /\ EdgeCalls(t, e)

\* What began later is above.
Ascending(s) == \A i, j \in DOMAIN s : i < j => s[i].start < s[j].start

\* The span ids p are those of the frames of s that emit a span.
HasSpan(p, x) == \E i \in DOMAIN p : p[i].start = x
Emits(s, x) == \E i \in DOMAIN s : s[i].emits /\ s[i].start = x
SameStarts(p, s) == \A x : HasSpan(p, x) <=> Emits(s, x)

\* The span ids on the stack belong to the open request, and in a clean window they
\* are those of the frames that emit a span, in order.
SpansInv ==
    /\ \A i \in DOMAIN parents : parents[i].of = open
    /\ Window => Ascending(parents) /\ SameStarts(parents, frames)

\* The counts, of any window.
CountInv == open # 0 => IsFiniteSet(DOMAIN table) /\ EveryCallIsCounted

WindowInv ==
    /\ Ascending(php) /\ SpansInv /\ CountInv
    /\ Window => Good(table, edges, frames, since, clock)
-----------------------------------------------------------------------------
(* A call begins in a window.                                              *)

\* The row of a function before a call of it is counted.
Had(t, f) == IF f \in DOMAIN t THEN t[f] ELSE Fresh

\* The row of a function is one of a call more in u, and the others stay.
OneMore(t, u, f) ==
    /\ DOMAIN u = DOMAIN t \cup {f}
    /\ \A g \in DOMAIN t : g # f => u[g] = t[g]
    /\ u[f].calls = Had(t, f).calls + 1 /\ u[f].live = Had(t, f).live + 1
    /\ u[f].inclusive = Had(t, f).inclusive /\ u[f].exclusive = Had(t, f).exclusive

\* That is what entering a function does.
LEMMA EnterRow ==
    ASSUME NEW t, TableOK(t), NEW f, Counts(t, f)
    PROVE  OneMore(t, OnEnter(t, f), f)
<1>1. PICK had : had = Had(t, f)
  OBVIOUS
<1>2. had \in Totals
  BY <1>1 DEF Had, TableOK, Fresh, Totals, Time
<1>3. PICK u : u = OnEnter(t, f)
  OBVIOUS
<1>4. u = With(t, f, Entered(had))
  BY <1>1, <1>3 DEF OnEnter, Had
<1>5. /\ Entered(had).calls = had.calls + 1 /\ Entered(had).live = had.live + 1
      /\ Entered(had).inclusive = had.inclusive /\ Entered(had).exclusive = had.exclusive
  BY <1>2 DEF Entered, Totals
<1>6. /\ DOMAIN u = DOMAIN t \cup {f}
      /\ u[f] = Entered(had)
      /\ \A g \in DOMAIN t : g # f => u[g] = t[g]
  BY <1>4 DEF With
<1>7. OneMore(t, u, f)
  BY <1>1, <1>5, <1>6 DEF OneMore
<1>8. QED
  BY <1>3, <1>7

\* The rows of a table hold numbers.
LEMMA RowsAre ==
    ASSUME NEW t, TableOK(t), NEW f \in DOMAIN t
    PROVE  /\ t[f].calls \in Nat /\ t[f].live \in Nat
           /\ t[f].inclusive \in Nat /\ t[f].exclusive \in Nat
           /\ Selves(t)[f] = t[f].exclusive /\ Calls(t)[f] = t[f].calls
  BY RowTypes DEF TableOK, Selves, Calls

\* So do the edges.
LEMMA EdgesAre ==
    ASSUME NEW e, EdgesOK(e), NEW pair \in DOMAIN e
    PROVE  e[pair].calls \in Nat /\ Calls(e)[pair] = e[pair].calls
  BY DEF EdgesOK, EdgeTotals, Calls

\* Which frames are counted for f.
LEMMA FramesAre ==
    ASSUME NEW s, NEW f
    PROVE  \A i : i \in Frames(s, f) <=> i \in 1 .. Len(s) /\ s[i].f = f /\ s[i].counted
  BY DEF Frames

\* The fields of a frame.
LEMMA FrameTypes ==
    ASSUME NEW g \in Frame
    PROVE  /\ g.f \in Function /\ g.start \in Nat /\ g.child \in Nat
           /\ g.counted \in BOOLEAN /\ g.emits \in BOOLEAN /\ g.of \in Nat
  BY DEF Frame, Time

\* What the children of a stack are.
LEMMA ChildrenAre ==
    ASSUME NEW s \in Seq(Frame)
    PROVE  \A i \in 1 .. Len(s) : Children(s)[i] = s[i].child /\ s[i].child \in Nat
  BY FrameTypes DEF Children

\* The stack r is s with a frame more.
OnTop(s, r, new) ==
    /\ s \in Seq(Frame) /\ r \in Seq(Frame) /\ new \in Frame
    /\ Len(s) \in Nat /\ Len(r) = Len(s) + 1
    /\ \A i \in 1 .. Len(s) : r[i] = s[i]
    /\ r[Len(s) + 1] = new

\* Such is the stack after a push.
LEMMA AppendIsOnTop ==
    ASSUME NEW s \in Seq(Frame), NEW new \in Frame
    PROVE  OnTop(s, Append(s, new), new)
  BY DEF OnTop

\* The frames of a function in it.
LEMMA PushedFrames ==
    ASSUME NEW s, NEW r, NEW new, OnTop(s, r, new), NEW f
    PROVE  Frames(r, f) = IF new.f = f /\ new.counted THEN Frames(s, f) \cup {Len(s) + 1}
                          ELSE Frames(s, f)
<1>1. \A i : i \in Frames(r, f)
               <=> i \in Frames(s, f) \/ (i = Len(s) + 1 /\ new.f = f /\ new.counted)
  BY FramesAre DEF OnTop
<1>2. QED
  BY <1>1

\* The frames of a function are positions of the stack.
LEMMA FramesFinite ==
    ASSUME NEW s \in Seq(Frame), NEW f
    PROVE  /\ Frames(s, f) \subseteq 1 .. Len(s) /\ IsFiniteSet(Frames(s, f))
           /\ Cardinality(Frames(s, f)) \in Nat
<1>1. Frames(s, f) \subseteq 1 .. Len(s)
  BY DEF Frames
<1>2. IsFiniteSet(1 .. Len(s))
  BY FS_Interval
<1>3. QED
  BY <1>1, <1>2, FS_Subset, FS_CardinalityType

\* The sums over a part of the stack do not see the frame above it, and the frame that
\* is pushed has nothing charged to it yet.
LEMMA PushedChildren ==
    ASSUME NEW s, NEW r, NEW new, OnTop(s, r, new), new.child = 0,
           NEW n, n = Len(s), NEW i \in 1 .. n + 1
    PROVE  /\ SumOver(i .. n + 1, Children(r)) = SumOver(i .. n, Children(s))
           /\ SumOver(i .. n, Children(s)) \in Nat
<1>1. /\ s \in Seq(Frame) /\ r \in Seq(Frame) /\ n \in Nat /\ Len(r) = n + 1
      /\ \A j \in 1 .. n : r[j] = s[j]
      /\ r[n + 1] = new
  BY DEF OnTop
<1>2. /\ \A j \in 1 .. n : Children(s)[j] = s[j].child /\ s[j].child \in Nat
      /\ \A j \in 1 .. n + 1 : Children(r)[j] = r[j].child /\ r[j].child \in Nat
  BY <1>1, ChildrenAre
<1>3. i \in Nat /\ n + 1 \notin i .. n /\ i .. n \subseteq 1 .. n /\ IsFiniteSet(i .. n)
  <2>1. i \in Int /\ n \in Int
    BY <1>1
  <2>2. IsFiniteSet(i .. n)
    BY <2>1, FS_Interval
  <2>3. QED
    BY <1>1, <2>2
<1>4. i .. n + 1 = (i .. n) \cup {n + 1}
  BY <1>1
<1>5. SumOver(i .. n, Children(r)) = SumOver(i .. n, Children(s))
  <2>1. \A j \in i .. n : Children(r)[j] = Children(s)[j]
    BY <1>1, <1>2, <1>3
  <2>2. QED
    BY <2>1, SumSame
<1>6. SumOver(i .. n, Children(s)) \in Nat
  BY <1>2, <1>3, SumIsNat
<1>7. SumOver((i .. n) \cup {n + 1}, Children(r))
        = SumOver(i .. n, Children(r)) + Children(r)[n + 1]
  <2>1. \A j \in (i .. n) \cup {n + 1} : Children(r)[j] \in Nat
    BY <1>1, <1>2, <1>3
  <2>2. IsFiniteSet(i .. n) /\ n + 1 \notin i .. n
    BY <1>3
  <2>3. QED
    BY <2>1, <2>2, SumMore
<1>8. Children(r)[n + 1] = 0
  BY <1>1, <1>2
<1>9. SumOver(i .. n + 1, Children(r)) = SumOver(i .. n, Children(r)) + 0
  BY <1>4, <1>7, <1>8
<1>10. QED
  BY <1>5, <1>6, <1>9

\* A call begins at the time now: t becomes u and s becomes r, with the frame new.
Entering(t, u, s, r, new, now) ==
    /\ TableOK(t) /\ now \in Nat /\ OnTop(s, r, new)
    /\ new.start = now /\ new.child = 0 /\ (new.counted <=> Counts(t, new.f))
    /\ u = OnEnter(t, new.f)

\* A call that is not counted leaves the table alone.
LEMMA EntersUncounted ==
    ASSUME NEW t, NEW u, NEW s, NEW r, NEW new, NEW now, Entering(t, u, s, r, new, now),
           ~new.counted
    PROVE  u = t /\ new.f \notin DOMAIN t
  BY FrameTypes DEF Entering, OnTop, OnEnter, Counts

\* A call that is counted has a row.
LEMMA EntersCounted ==
    ASSUME NEW t, NEW u, NEW s, NEW r, NEW new, NEW now, Entering(t, u, s, r, new, now),
           new.counted
    PROVE  OneMore(t, u, new.f)
  BY EnterRow DEF Entering

\* The row it finds says how many frames of the function there are.
LEMMA HadIs ==
    ASSUME NEW t, TableOK(t), NEW s, Depths(t, s), NEW f
    PROVE  /\ Had(t, f).calls \in Nat /\ Had(t, f).live \in Nat
           /\ Had(t, f).inclusive \in Nat /\ Had(t, f).exclusive \in Nat
           /\ Had(t, f).live = Cardinality(Frames(s, f))
           /\ f \in DOMAIN t => Had(t, f) = t[f]
           /\ f \notin DOMAIN t =>
                /\ Frames(s, f) = {}
                /\ Had(t, f).calls = 0 /\ Had(t, f).exclusive = 0 /\ Had(t, f).inclusive = 0
<1>1. CASE f \in DOMAIN t
  BY <1>1, RowsAre DEF Had, Depths
<1>2. CASE f \notin DOMAIN t
  <2>1. Frames(s, f) = {}
    BY <1>2, FramesAre DEF Depths
  <2>2. QED
    BY <1>2, <2>1, FS_EmptySet DEF Had, Fresh
<1>3. QED
  BY <1>1, <1>2

\* The live depth counts the new frame.
LEMMA EnteringDepths ==
    ASSUME NEW t, NEW u, NEW s, NEW r, NEW new, NEW now, Entering(t, u, s, r, new, now),
           Depths(t, s)
    PROVE  Depths(u, r)
<1>1. OnTop(s, r, new) /\ s \in Seq(Frame) /\ Len(s) \in Nat /\ Len(r) = Len(s) + 1
      /\ r[Len(s) + 1] = new /\ (\A i \in 1 .. Len(s) : r[i] = s[i]) /\ TableOK(t)
  BY DEF Entering, OnTop
<1>2. PICK f : f = new.f
  OBVIOUS
<1>3. (new.counted => OneMore(t, u, f)) /\ (~new.counted => u = t)
  BY <1>2, EntersCounted, EntersUncounted
<1>4. new.counted => f \in DOMAIN u /\ u[f].live = Had(t, f).live + 1
  BY <1>3 DEF OneMore
<1>5. \A g \in DOMAIN u : ~(g = f /\ new.counted) => g \in DOMAIN t /\ u[g] = t[g]
  BY <1>3 DEF OneMore
<1>6. \A g \in DOMAIN t : g \in DOMAIN u
  BY <1>3 DEF OneMore
<1>7. \A i \in 1 .. Len(r) : r[i].counted => r[i].f \in DOMAIN u
  BY <1>6, <1>1, <1>2, <1>4 DEF Depths
<1>8. ASSUME NEW g \in DOMAIN u PROVE u[g].live = Cardinality(Frames(r, g))
  <2>1. CASE g = f /\ new.counted
    <3>1. Frames(r, f) = Frames(s, f) \cup {Len(s) + 1} /\ Len(s) + 1 \notin Frames(s, f)
      BY <1>1, <1>2, <2>1, PushedFrames, FramesAre
    <3>2. Cardinality(Frames(r, f)) = Cardinality(Frames(s, f)) + 1
      BY ZenonT(60), <1>1, <3>1, FramesFinite, FS_AddElement
    <3>3. QED
      BY <1>1, <1>4, <2>1, <3>2, HadIs
  <2>2. CASE ~(g = f /\ new.counted)
    <3>1. g \in DOMAIN t /\ u[g] = t[g]
      BY <1>5, <2>2
    <3>2. Frames(r, g) = Frames(s, g)
      BY <1>1, <1>2, <2>2, PushedFrames
    <3>3. QED
      BY <3>1, <3>2 DEF Depths
  <2>3. QED
    BY <2>1, <2>2
<1>9. QED
  BY <1>7, <1>8 DEF Depths

\* The frame below has been charged what was over before now.
LEMMA EnteringCharges ==
    ASSUME NEW t, NEW u, NEW s, NEW r, NEW new, NEW now, Entering(t, u, s, r, new, now),
           Charges(s, now)
    PROVE  Charges(r, now + 1)
<1>1. /\ s \in Seq(Frame) /\ Len(s) \in Nat /\ Len(r) = Len(s) + 1 /\ now \in Nat
      /\ r[Len(s) + 1].start = now /\ r[Len(s) + 1].child = 0
      /\ \A i \in 1 .. Len(s) : r[i] = s[i]
  BY DEF Entering, OnTop
<1>2. ASSUME NEW i \in 1 .. Len(s)
      PROVE  r[i].start + r[i].child <= Until(r, i, now + 1)
  <2>1. s[i].start + s[i].child <= Until(s, i, now)
    BY DEF Charges
  <2>2. Until(r, i, now + 1) = Until(s, i, now)
    BY <1>1 DEF Until
  <2>3. QED
    BY <1>1, <2>1, <2>2
<1>3. Until(r, Len(s) + 1, now + 1) = now + 1
  BY <1>1 DEF Until
<1>4. QED
  BY <1>1, <1>2, <1>3 DEF Charges

\* Entering adds nothing to a self time.
LEMMA EnteringSelves ==
    ASSUME NEW t, NEW u, NEW s, NEW r, NEW new, NEW now, Entering(t, u, s, r, new, now),
           Depths(t, s), IsFiniteSet(DOMAIN t)
    PROVE  /\ SumOver(DOMAIN u, Selves(u)) = SumOver(DOMAIN t, Selves(t))
           /\ IsFiniteSet(DOMAIN u)
<1>1. TableOK(t) /\ TableOK(u)
  BY FrameTypes, OnEnterTyped DEF Entering, OnTop
<1>2. CASE ~new.counted
  <2>1. u = t
    BY <1>2, EntersUncounted
  <2>2. QED
    BY <2>1
<1>3. CASE new.counted
  <2>1. PICK f : f = new.f
    OBVIOUS
  <2>2. OneMore(t, u, f)
    BY <1>3, <2>1, EntersCounted
  <2>3. /\ DOMAIN u = DOMAIN t \cup {f} /\ \A g \in DOMAIN t : g # f => u[g] = t[g]
        /\ u[f].exclusive = Had(t, f).exclusive
    BY <2>2 DEF OneMore
  <2>4. IsFiniteSet(DOMAIN u)
    BY <2>3, FS_AddElement
  <2>5. \A g \in DOMAIN t : Selves(u)[g] = Selves(t)[g]
    <3>1. \A g \in DOMAIN t : g \in DOMAIN u /\ u[g].exclusive = t[g].exclusive
      BY <2>3 DEF Had
    <3>2. QED
      BY <3>1 DEF Selves
  <2>6. SumOver(DOMAIN t, Selves(u)) = SumOver(DOMAIN t, Selves(t))
    BY <2>5, SumSame
  <2>7. CASE f \in DOMAIN t
    <3>1. DOMAIN u = DOMAIN t
      BY <2>3, <2>7
    <3>2. QED
      BY <2>4, <2>6, <3>1
  <2>8. CASE f \notin DOMAIN t
    <3>1. Selves(u)[f] = 0
      BY <1>1, <2>3, <2>8, HadIs DEF Selves
    <3>2. \A g \in DOMAIN t \cup {f} : Selves(u)[g] \in Nat
      BY <1>1, <2>3, RowsAre
    <3>3. SumOver(DOMAIN t \cup {f}, Selves(u)) = SumOver(DOMAIN t, Selves(u)) + Selves(u)[f]
      BY <2>8, <3>2, SumMore
    <3>4. SumOver(DOMAIN t, Selves(u)) \in Nat
      BY <3>2, SumIsNat
    <3>5. SumOver(DOMAIN t \cup {f}, Selves(u)) = SumOver(DOMAIN t, Selves(u))
      BY <3>1, <3>3, <3>4
    <3>6. QED
      BY <2>3, <2>4, <2>6, <3>5
  <2>9. QED
    BY <2>7, <2>8
<1>4. QED
  BY <1>2, <1>3

\* What entering does to a row, whether it was there or not.
LEMMA EnteringRows ==
    ASSUME NEW t, NEW u, NEW s, NEW r, NEW new, NEW now, Entering(t, u, s, r, new, now),
           NEW g \in DOMAIN u
    PROVE  /\ u[g].exclusive = Had(t, g).exclusive /\ u[g].inclusive = Had(t, g).inclusive
           /\ \/ u[g].calls = Had(t, g).calls /\ u[g].live = Had(t, g).live
              \/ u[g].calls = Had(t, g).calls + 1 /\ u[g].live = Had(t, g).live + 1
           /\ g \notin DOMAIN t => g = new.f /\ new.counted
<1>1. CASE ~new.counted
  <2>1. u = t
    BY <1>1, EntersUncounted
  <2>2. QED
    BY <2>1 DEF Had
<1>2. CASE new.counted
  <2>1. PICK f : f = new.f
    OBVIOUS
  <2>2. OneMore(t, u, f)
    BY <1>2, <2>1, EntersCounted
  <2>3. CASE g = f
    BY <1>2, <2>1, <2>2, <2>3 DEF OneMore
  <2>4. CASE g # f
    <3>1. g \in DOMAIN t /\ u[g] = t[g]
      BY <2>2, <2>4 DEF OneMore
    <3>2. QED
      BY <3>1 DEF Had
  <2>5. QED
    BY <2>3, <2>4
<1>3. QED
  BY <1>1, <1>2

\* The frame that is pushed is the last one; its function is on the stack.
LEMMA EnteringFrames ==
    ASSUME NEW t, NEW u, NEW s, NEW r, NEW new, NEW now, Entering(t, u, s, r, new, now),
           NEW g
    PROVE  /\ s \in Seq(Frame) /\ Len(s) \in Nat /\ Len(r) = Len(s) + 1 /\ now \in Nat
           /\ TableOK(t)
           /\ \A i \in 1 .. Len(s) : r[i] = s[i]
           /\ r[Len(s) + 1] = new /\ new.start = now
           /\ \A i : i \in Frames(r, g)
                       <=> i \in Frames(s, g) \/ (i = Len(s) + 1 /\ new.f = g /\ new.counted)
           /\ \A i : i \in Frames(s, g) => i \in 1 .. Len(s)
<1>1. OnTop(s, r, new)
  BY DEF Entering
<1>2. \A i : i \in Frames(r, g)
               <=> i \in Frames(s, g) \/ (i = Len(s) + 1 /\ new.f = g /\ new.counted)
  BY <1>1, PushedFrames
<1>3. QED
  BY <1>1, <1>2, FramesAre DEF Entering, OnTop

\* The oldest frame stays, or is the new one.
LEMMA EnteringSelfTimes ==
    ASSUME NEW t, NEW u, NEW s, NEW r, NEW new, NEW now, Entering(t, u, s, r, new, now),
           Depths(t, s), IsFiniteSet(DOMAIN t), NEW opened, SelfTimes(t, s, opened, now)
    PROVE  SelfTimes(u, r, opened, now + 1)
<1>1. OnTop(s, r, new) /\ new.child = 0
  BY DEF Entering
<1>2. PICK n : n = Len(s)
  OBVIOUS
<1>3. n \in Nat /\ Len(r) = n + 1 /\ s \in Seq(Frame) /\ r[n + 1] = new /\ new.start = now
      /\ (\A i \in 1 .. n : r[i] = s[i])
  BY <1>1, <1>2 DEF OnTop, Entering
<1>4. 1 \in 1 .. n + 1
  BY <1>3
<1>5. SumOver(1 .. n + 1, Children(r)) = SumOver(1 .. n, Children(s))
  BY <1>1, <1>2, <1>4, PushedChildren
<1>6. SumOver(DOMAIN u, Selves(u)) = SumOver(DOMAIN t, Selves(t))
  BY EnteringSelves
<1>7. Oldest(r, now + 1) = Oldest(s, now)
  <2>1. CASE n = 0
    <3>1. s = <<>>
      BY <1>2, <1>3, <2>1, EmptySeq
    <3>2. n + 1 = 1 /\ Len(r) = 1
      BY <1>3, <2>1
    <3>3. r # <<>>
      BY <3>2, EmptySeq
    <3>4. r[1] = new
      BY <1>3, <3>2
    <3>5. QED
      BY <1>3, <3>1, <3>3, <3>4 DEF Oldest
  <2>2. CASE n # 0
    <3>1. s # <<>> /\ r # <<>> /\ r[1] = s[1]
      BY <1>2, <1>3, <2>2
    <3>2. QED
      BY <3>1 DEF Oldest
  <2>3. QED
    BY <2>1, <2>2
<1>8. SumOver(DOMAIN t, Selves(t)) + opened <= SumOver(1 .. n, Children(s)) + Oldest(s, now)
  BY <1>2 DEF SelfTimes
<1>9. SumOver(DOMAIN u, Selves(u)) + opened
        <= SumOver(1 .. n + 1, Children(r)) + Oldest(r, now + 1)
  BY <1>5, <1>6, <1>7, <1>8
<1>10. QED
  BY <1>3, <1>9 DEF SelfTimes

\* Inclusive time is time before the new frame.
LEMMA EnteringInclusive ==
    ASSUME NEW t, NEW u, NEW s, NEW r, NEW new, NEW now, Entering(t, u, s, r, new, now),
           Depths(t, s), NEW opened \in Nat, opened <= now,
           InclusiveTimes(t, s, opened, now)
    PROVE  InclusiveTimes(u, r, opened, now + 1)
<1>1. ASSUME NEW g \in DOMAIN u
      PROVE  /\ u[g].inclusive + opened <= now + 1
             /\ \A i \in Frames(r, g) : u[g].inclusive + opened <= r[i].start
  <2>1. u[g].inclusive = Had(t, g).inclusive
    BY EnteringRows
  <2>2. PICK had : had = u[g].inclusive
    OBVIOUS
  <2>3. now \in Nat /\ TableOK(t)
    BY DEF Entering
  <2>4. had \in Nat /\ had + opened <= now
        /\ \A i \in Frames(s, g) : had + opened <= s[i].start
    <3>1. CASE g \in DOMAIN t
      BY <2>1, <2>2, <2>3, <3>1, HadIs DEF InclusiveTimes
    <3>2. CASE g \notin DOMAIN t
      BY <2>1, <2>2, <2>3, <3>2, HadIs
    <3>3. QED
      BY <3>1, <3>2
  <2>5. ASSUME NEW i \in Frames(r, g) PROVE had + opened <= r[i].start
    <3>1. CASE i \in Frames(s, g)
      BY <2>4, <3>1, EnteringFrames
    <3>2. CASE i = Len(s) + 1
      BY <2>4, <3>2, EnteringFrames
    <3>3. QED
      BY <3>1, <3>2, EnteringFrames
  <2>6. QED
    BY <2>2, <2>3, <2>4, <2>5
<1>2. QED
  BY <1>1 DEF InclusiveTimes

\* A function is entered with its self time within its inclusive time, but for what
\* has been charged to its frames.
LEMMA EnteringWithin ==
    ASSUME NEW t, NEW u, NEW s, NEW r, NEW new, NEW now, Entering(t, u, s, r, new, now),
           Depths(t, s), SelfAndInclusive(t, s)
    PROVE  SelfAndInclusive(u, r)
<1>1. ASSUME NEW g \in DOMAIN u, Frames(r, g) = {} PROVE u[g].exclusive <= u[g].inclusive
  <2>1. Frames(s, g) = {} /\ ~(new.f = g /\ new.counted)
    BY <1>1, EnteringFrames
  <2>2. g \in DOMAIN t
    BY <2>1, EnteringRows
  <2>3. t[g].exclusive <= t[g].inclusive /\ Had(t, g) = t[g]
    BY <2>1, <2>2 DEF SelfAndInclusive, Had
  <2>4. QED
    BY <2>3, EnteringRows
<1>2. ASSUME NEW g \in DOMAIN u, NEW i \in 1 .. Len(r), Outermost(r, g, i)
      PROVE  u[g].exclusive <= u[g].inclusive + SumOver(i .. Len(r), Children(r))
  <2>1. PICK a, b : a = u[g].exclusive /\ b = u[g].inclusive
    OBVIOUS
  <2>2. a = Had(t, g).exclusive /\ b = Had(t, g).inclusive
    BY <2>1, EnteringRows
  <2>3. TableOK(t) /\ OnTop(s, r, new) /\ new.child = 0
    BY DEF Entering
  <2>4. a \in Nat /\ b \in Nat
    BY <2>2, <2>3, HadIs
  <2>5. PICK n : n = Len(s)
    OBVIOUS
  <2>6. n \in Nat /\ Len(r) = n + 1 /\ i \in 1 .. n + 1
    BY <2>5, EnteringFrames
  <2>7. PICK c : c = SumOver(i .. n, Children(s))
    OBVIOUS
  <2>8. c \in Nat /\ SumOver(i .. n + 1, Children(r)) = c
    BY <2>3, <2>5, <2>6, <2>7, PushedChildren
  <2>9. i \in Frames(r, g) /\ \A j \in Frames(r, g) : i <= j
    BY <1>2 DEF Outermost
  <2>10. CASE i \in 1 .. n
    <3>1. i \in Frames(s, g) /\ \A j \in Frames(s, g) : i <= j
      BY <2>5, <2>6, <2>9, <2>10, EnteringFrames
    <3>2. g \in DOMAIN t
      BY <2>3, <3>1, HadIs
    <3>3. t[g].exclusive <= t[g].inclusive + SumOver(i .. n, Children(s)) /\ Had(t, g) = t[g]
      BY <2>5, <2>10, <3>1, <3>2 DEF SelfAndInclusive, Outermost, Had
    <3>4. a <= b + c
      BY <2>2, <2>7, <3>3
    <3>5. QED
      BY <2>1, <2>6, <2>8, <3>4
  <2>11. CASE i = n + 1
    <3>1. Frames(s, g) = {}
      <4>1. ASSUME NEW j \in Frames(s, g) PROVE FALSE
        <5>1. j \in 1 .. n /\ j \in Frames(r, g)
          BY <2>5, EnteringFrames
        <5>2. QED
          BY <2>6, <2>9, <2>11, <5>1
      <4>2. QED
        BY <4>1
    <3>2. a <= b
      <4>1. CASE g \in DOMAIN t
        <5>1. t[g].exclusive <= t[g].inclusive /\ Had(t, g) = t[g]
          BY <3>1, <4>1 DEF SelfAndInclusive, Had
        <5>2. QED
          BY <2>2, <5>1
      <4>2. CASE g \notin DOMAIN t
        <5>1. a = 0
          BY <2>2, <2>3, <4>2, HadIs
        <5>2. QED
          BY <2>4, <5>1
      <4>3. QED
        BY <4>1, <4>2
    <3>3. a <= b + c
      BY <2>4, <2>8, <3>2
    <3>4. QED
      BY <2>1, <2>6, <2>8, <3>3
  <2>12. QED
    BY <2>6, <2>10, <2>11
<1>3. QED
  BY <1>1, <1>2 DEF SelfAndInclusive

\* No call of an edge is added, one of the function and one live are.
LEMMA EnteringEdges ==
    ASSUME NEW t, NEW u, NEW s, NEW r, NEW new, NEW now, Entering(t, u, s, r, new, now),
           Depths(t, s), NEW e, EdgesOK(e), IsFiniteSet(DOMAIN e), EdgeCalls(t, e)
    PROVE  EdgeCalls(u, e)
<1>1. TableOK(t)
  BY DEF Entering
<1>2. \A g \in DOMAIN t : g \in DOMAIN u
  <2>1. CASE new.counted
    <3>1. OneMore(t, u, new.f)
      BY <2>1, EntersCounted
    <3>2. QED
      BY <3>1 DEF OneMore
  <2>2. CASE ~new.counted
    BY <2>2, EntersUncounted
  <2>3. QED
    BY <2>1, <2>2
<1>3. \A pair \in DOMAIN e : pair[2] \in DOMAIN u
  BY <1>2 DEF EdgeCalls
<1>4. ASSUME NEW g \in DOMAIN u
      PROVE  SumOver(Into(e, g), Calls(e)) + u[g].live <= u[g].calls
  <2>1. PICK sum : sum = SumOver(Into(e, g), Calls(e))
    OBVIOUS
  <2>2. PICK calls, live : calls = Had(t, g).calls /\ live = Had(t, g).live
    OBVIOUS
  <2>3. calls \in Nat /\ live \in Nat
    BY <1>1, <2>2, HadIs
  <2>4. sum \in Nat
    <3>1. Into(e, g) \subseteq DOMAIN e
      BY DEF Into
    <3>2. IsFiniteSet(Into(e, g)) /\ \A pair \in Into(e, g) : Calls(e)[pair] \in Nat
      BY <3>1, FS_Subset, EdgesAre
    <3>3. QED
      BY <2>1, <3>2, SumIsNat
  <2>5. sum + live <= calls
    <3>1. CASE g \in DOMAIN t
      <4>1. SumOver(Into(e, g), Calls(e)) + t[g].live <= t[g].calls /\ Had(t, g) = t[g]
        BY <3>1 DEF EdgeCalls, Had
      <4>2. QED
        BY <2>1, <2>2, <4>1
    <3>2. CASE g \notin DOMAIN t
      <4>1. Into(e, g) = {}
        BY <3>2 DEF EdgeCalls, Into
      <4>2. sum = 0
        BY <2>1, <4>1, SumOfNothing
      <4>3. calls = 0 /\ live = 0
        <5>1. calls = 0 /\ Frames(s, g) = {} /\ live = Cardinality(Frames(s, g))
          BY <1>1, <2>2, <3>2, HadIs
        <5>2. QED
          BY <5>1, FS_EmptySet
      <4>4. QED
        BY <4>2, <4>3
    <3>3. QED
      BY <3>1, <3>2
  <2>6. \/ u[g].calls = calls /\ u[g].live = live
        \/ u[g].calls = calls + 1 /\ u[g].live = live + 1
    BY <2>2, EnteringRows
  <2>7. sum + u[g].live <= u[g].calls
    BY <2>3, <2>4, <2>5, <2>6
  <2>8. QED
    BY <2>1, <2>7
<1>5. QED
  BY <1>3, <1>4 DEF EdgeCalls

\* A frame that is pushed has been charged nothing.
LEMMA EnteringStretches ==
    ASSUME NEW t, NEW u, NEW s, NEW r, NEW new, NEW now, Entering(t, u, s, r, new, now),
           Stretches(s, now)
    PROVE  Stretches(r, now + 1)
<1>1. OnTop(s, r, new) /\ new.child = 0 /\ new.start = now /\ now \in Nat
  BY DEF Entering
<1>2. PICK n : n = Len(s)
  OBVIOUS
<1>3. /\ n \in Nat /\ Len(r) = n + 1 /\ s \in Seq(Frame) /\ r \in Seq(Frame)
      /\ r[n + 1] = new /\ \A i \in 1 .. n : r[i] = s[i]
  BY <1>1, <1>2 DEF OnTop
<1>4. ASSUME NEW j \in 1 .. n
      PROVE  SumOver(1 .. j, Children(r)) + r[1].start <= Until(r, j, now + 1)
  <2>1. 1 \in 1 .. n /\ r[1] = s[1]
    BY <1>3
  <2>2. Until(r, j, now + 1) = Until(s, j, now)
    BY <1>1, <1>2, <1>3 DEF Until
  <2>3. \A i \in 1 .. j : Children(r)[i] = Children(s)[i]
    <3>1. \A i \in 1 .. j : i \in 1 .. Len(s) /\ i \in 1 .. Len(r) /\ r[i] = s[i]
      BY <1>2, <1>3
    <3>2. QED
      BY <1>3, <3>1, ChildrenAre
  <2>4. SumOver(1 .. j, Children(r)) = SumOver(1 .. j, Children(s))
    BY <2>3, SumSame
  <2>5. QED
    BY <1>2, <2>1, <2>2, <2>4 DEF Stretches
<1>5. SumOver(1 .. n + 1, Children(r)) + r[1].start <= Until(r, n + 1, now + 1)
  <2>1. PICK A : A = SumOver(1 .. n, Children(s))
    OBVIOUS
  <2>2. A \in Nat /\ SumOver(1 .. n + 1, Children(r)) = A
    <3>1. 1 \in 1 .. n + 1
      BY <1>3
    <3>2. QED
      BY <1>1, <1>2, <2>1, <3>1, PushedChildren
  <2>3. Until(r, n + 1, now + 1) = now + 1
    BY <1>3 DEF Until
  <2>4. PICK b : b = r[1].start
    OBVIOUS
  <2>5. b \in Nat
    <3>1. r[1] \in Frame
      BY <1>3
    <3>2. QED
      BY <2>4, <3>1, FrameTypes
  <2>6. A + b <= now
    <3>1. CASE n = 0
      <4>1. A = 0
        <5>1. 1 .. n = {}
          BY <3>1
        <5>2. QED
          BY <2>1, <5>1, SumOfNothing
      <4>2. b = now
        <5>1. n + 1 = 1
          BY <3>1
        <5>2. QED
          BY <1>1, <1>3, <2>4, <5>1
      <4>3. QED
        BY <1>1, <4>1, <4>2
    <3>2. CASE n # 0
      <4>1. n \in 1 .. Len(s) /\ 1 \in 1 .. n
        BY <1>2, <1>3, <3>2
      <4>2. SumOver(1 .. n, Children(s)) + s[1].start <= Until(s, n, now)
        BY <4>1 DEF Stretches
      <4>3. Until(s, n, now) = now /\ b = s[1].start
        BY <1>2, <1>3, <2>4, <4>1 DEF Until
      <4>4. QED
        BY <2>1, <4>2, <4>3
    <3>3. QED
      BY <3>1, <3>2
  <2>7. A + b <= now + 1
    BY <1>1, <2>2, <2>5, <2>6
  <2>8. QED
    BY <2>2, <2>3, <2>4, <2>7
<1>6. QED
  <2>1. \A j \in 1 .. Len(r) : j \in 1 .. n \/ j = n + 1
    BY <1>3
  <2>2. QED
    BY <1>4, <1>5, <2>1 DEF Stretches

\* Entering keeps the table of a window good.
LEMMA EnteringKeeps ==
    ASSUME NEW t, NEW u, NEW s, NEW r, NEW new, NEW now, Entering(t, u, s, r, new, now),
           NEW e, EdgesOK(e), NEW opened \in Nat, opened <= now, Good(t, e, s, opened, now)
    PROVE  Good(u, e, r, opened, now + 1)
<1>1. /\ IsFiniteSet(DOMAIN t) /\ IsFiniteSet(DOMAIN e)
      /\ Depths(t, s) /\ Charges(s, now) /\ Stretches(s, now)
      /\ SelfTimes(t, s, opened, now) /\ InclusiveTimes(t, s, opened, now)
      /\ SelfAndInclusive(t, s) /\ EdgeCalls(t, e)
  BY DEF Good, Finite
<1>2. Finite(u, e)
  BY <1>1, EnteringSelves DEF Finite
<1>3. Depths(u, r)
  BY <1>1, EnteringDepths
<1>4. Charges(r, now + 1)
  BY <1>1, EnteringCharges
<1>5. Stretches(r, now + 1)
  BY <1>1, EnteringStretches
<1>6. SelfTimes(u, r, opened, now + 1)
  BY <1>1, EnteringSelfTimes
<1>7. InclusiveTimes(u, r, opened, now + 1)
  BY <1>1, EnteringInclusive
<1>8. SelfAndInclusive(u, r)
  BY <1>1, EnteringWithin
<1>9. EdgeCalls(u, e)
  BY <1>1, EnteringEdges
<1>10. QED
  BY <1>2, <1>3, <1>4, <1>6, <1>7, <1>8, <1>9, <1>5 DEF Good
-----------------------------------------------------------------------------
(* A call ends in a window: t becomes u, and s becomes r.  The frame on    *)
(* top of s is its n-th; what it took is charged to the frame below.       *)
Leaving(t, u, s, r, n, now) ==
    /\ TableOK(t) /\ now \in Nat /\ n \in Nat /\ n > 0
    /\ s \in Seq(Frame) /\ Len(s) = n /\ r \in Seq(Frame) /\ Len(r) = n - 1
    /\ s[n].start <= now
    /\ \A i \in 1 .. n - 1 :
           /\ r[i].f = s[i].f /\ r[i].start = s[i].start /\ (r[i].counted <=> s[i].counted)
           /\ i < n - 1 => r[i].child = s[i].child
           /\ i = n - 1 => r[i].child = s[i].child + (now - s[n].start)
    /\ s[n].counted /\ s[n].f \in DOMAIN t =>
           u = [t EXCEPT ![s[n].f] = Left(@, now - s[n].start,
                                          Minus(now - s[n].start, s[n].child))]
    /\ ~(s[n].counted /\ s[n].f \in DOMAIN t) => u = t

\* The numbers of the frame that is popped: when it began, what it was charged, and
\* how long it took.
LEMMA LeavingNumbers ==
    ASSUME NEW t, NEW u, NEW s, NEW r, NEW n, NEW now, Leaving(t, u, s, r, n, now),
           Charges(s, now)
    PROVE  /\ s[n] \in Frame /\ s[n].start \in Nat /\ s[n].child \in Nat
           /\ now - s[n].start \in Nat /\ s[n].child <= now - s[n].start
<1>1. /\ s \in Seq(Frame) /\ Len(s) = n /\ n \in Nat /\ n > 0 /\ now \in Nat
      /\ s[n].start <= now
  BY DEF Leaving
<1>2. s[n] \in Frame
  BY <1>1
<1>3. s[n].start \in Nat /\ s[n].child \in Nat
  BY <1>2, FrameTypes
<1>4. s[n].start + s[n].child <= now
  <2>1. n \in 1 .. Len(s) /\ Until(s, n, now) = now
    BY <1>1 DEF Until
  <2>2. QED
    BY <2>1 DEF Charges
<1>5. QED
  BY <1>1, <1>2, <1>3, <1>4

\* The frames of a function after the pop.
LEMMA LeavingFrames ==
    ASSUME NEW t, NEW u, NEW s, NEW r, NEW n, NEW now, Leaving(t, u, s, r, n, now), NEW g
    PROVE  /\ \A i : i \in Frames(r, g) <=> i \in Frames(s, g) /\ i # n
           /\ n \in Frames(s, g) <=> s[n].f = g /\ s[n].counted
           /\ \A i : i \in Frames(s, g) => i \in 1 .. n
<1>1. \A i : i \in 1 .. Len(s) <=> i \in 1 .. Len(r) \/ i = n
  BY DEF Leaving
<1>2. n \notin 1 .. Len(r)
  BY DEF Leaving
<1>3. \A i \in 1 .. Len(r) : r[i].f = s[i].f /\ (r[i].counted <=> s[i].counted)
  BY DEF Leaving
<1>4. Len(s) = n
  BY DEF Leaving
<1>5. QED
  BY <1>1, <1>2, <1>3, <1>4, FramesAre

\* The table stays one.
LEMMA LeavingTyped ==
    ASSUME NEW t, NEW u, NEW s, NEW r, NEW n, NEW now, Leaving(t, u, s, r, n, now),
           Charges(s, now)
    PROVE  TableOK(u)
<1>1. PICK f, duration, c : f = s[n].f /\ duration = now - s[n].start /\ c = s[n].child
  OBVIOUS
<1>2. duration \in Nat /\ c \in Nat /\ TableOK(t)
  <2>1. TableOK(t)
    BY DEF Leaving
  <2>2. QED
    BY <1>1, <2>1, LeavingNumbers
<1>3. CASE s[n].counted /\ f \in DOMAIN t
  <2>1. u = [t EXCEPT ![f] = Left(t[f], duration, Minus(duration, c))]
    BY <1>1, <1>3 DEF Leaving
  <2>2. Minus(duration, c) \in Nat
    BY <1>2 DEF Minus
  <2>3. Left(t[f], duration, Minus(duration, c)) \in Totals
    BY <1>2, <1>3, <2>2, LeftTyped DEF TableOK
  <2>4. QED
    BY <1>2, <1>3, <2>1, <2>3 DEF TableOK
<1>4. CASE ~(s[n].counted /\ f \in DOMAIN t)
  BY <1>1, <1>2, <1>4 DEF Leaving
<1>5. QED
  BY <1>3, <1>4

\* A row that is left: one live call less, its own time and, once the outermost frame
\* goes, its time in all.
OneLess(t, u, f, duration, own) ==
    /\ DOMAIN u = DOMAIN t /\ f \in DOMAIN t
    /\ \A g \in DOMAIN t : g # f => u[g] = t[g]
    /\ u[f].calls = t[f].calls /\ u[f].live + 1 = t[f].live
    /\ u[f].exclusive = t[f].exclusive + own
    /\ t[f].live = 1 => u[f].inclusive = t[f].inclusive + duration
    /\ t[f].live # 1 => u[f].inclusive = t[f].inclusive

\* Leaving does that to the row of a frame that was counted.
LEMMA LeavingRow ==
    ASSUME NEW t, NEW u, NEW s, NEW r, NEW n, NEW now, Leaving(t, u, s, r, n, now),
           Depths(t, s), Charges(s, now), s[n].counted
    PROVE  OneLess(t, u, s[n].f, now - s[n].start, now - s[n].start - s[n].child)
<1>1. PICK f, c, b : f = s[n].f /\ c = s[n].child /\ b = s[n].start
  OBVIOUS
<1>2. PICK duration : duration = now - b
  OBVIOUS
<1>3. c \in Nat /\ duration \in Nat /\ c <= duration
  BY <1>1, <1>2, LeavingNumbers
<1>4. PICK own : own = duration - c
  OBVIOUS
<1>5. own \in Nat /\ Minus(duration, c) = own
  BY <1>3, <1>4 DEF Minus
<1>6. n \in 1 .. Len(s) /\ TableOK(t) /\ s \in Seq(Frame)
  BY DEF Leaving
<1>7. f \in DOMAIN t
  BY <1>1, <1>6 DEF Depths
<1>8. PICK had : had = t[f]
  OBVIOUS
<1>9. had \in Totals /\ had.live = Cardinality(Frames(s, f))
  BY <1>6, <1>7, <1>8 DEF TableOK, Depths
<1>10. had.live \in Nat /\ had.live # 0
  <2>1. n \in Frames(s, f) /\ IsFiniteSet(Frames(s, f))
    BY <1>1, <1>6, FramesAre, FramesFinite
  <2>2. Cardinality(Frames(s, f)) # 0
    BY <2>1, FS_EmptySet
  <2>3. QED
    BY <1>9, <2>2, RowTypes
<1>11. u = [t EXCEPT ![f] = Left(had, duration, own)]
  <2>1. u = [t EXCEPT ![s[n].f] = Left(@, now - s[n].start,
                                       Minus(now - s[n].start, s[n].child))]
    BY <1>1, <1>7 DEF Leaving
  <2>2. u = [t EXCEPT ![f] = Left(t[f], duration, Minus(duration, c))]
    BY <1>1, <1>2, <2>1
  <2>3. QED
    BY <1>5, <1>8, <2>2
<1>12. Minus(had.live, 1) \in Nat /\ Minus(had.live, 1) + 1 = had.live
  BY <1>10 DEF Minus
<1>13. PICK live : live = Minus(had.live, 1)
  OBVIOUS
<1>14. PICK left : left = Left(had, duration, own)
  OBVIOUS
<1>15. /\ left.calls = had.calls /\ left.live = live /\ left.exclusive = had.exclusive + own
       /\ live = 0 => left.inclusive = had.inclusive + duration
       /\ live # 0 => left.inclusive = had.inclusive
  BY <1>9, <1>13, <1>14 DEF Left, Totals
<1>16. live + 1 = had.live /\ (had.live = 1 <=> live = 0)
  BY <1>10, <1>12, <1>13
<1>17. /\ DOMAIN u = DOMAIN t /\ u[f] = left
       /\ \A g \in DOMAIN t : g # f => u[g] = t[g]
  BY <1>7, <1>11, <1>14
<1>18. OneLess(t, u, f, duration, own)
  BY <1>7, <1>8, <1>15, <1>16, <1>17 DEF OneLess
<1>19. QED
  BY <1>1, <1>2, <1>4, <1>18

\* A frame that was not counted leaves no trace in the table.
LEMMA LeavingUncounted ==
    ASSUME NEW t, NEW u, NEW s, NEW r, NEW n, NEW now, Leaving(t, u, s, r, n, now),
           ~s[n].counted
    PROVE  u = t
  BY DEF Leaving

\* The live depth is the number of frames that are left.
LEMMA LeavingDepths ==
    ASSUME NEW t, NEW u, NEW s, NEW r, NEW n, NEW now, Leaving(t, u, s, r, n, now),
           Depths(t, s), Charges(s, now)
    PROVE  Depths(u, r) /\ DOMAIN u = DOMAIN t
<1>1. n \in Nat /\ Len(s) = n /\ Len(r) = n - 1 /\ TableOK(t) /\ s \in Seq(Frame)
      /\ \A i \in 1 .. n - 1 : r[i].f = s[i].f /\ (r[i].counted <=> s[i].counted)
  BY DEF Leaving
<1>2. PICK f : f = s[n].f
  OBVIOUS
<1>3. PICK duration, own : duration = now - s[n].start
                           /\ own = now - s[n].start - s[n].child
  OBVIOUS
<1>4. (s[n].counted => OneLess(t, u, f, duration, own)) /\ (~s[n].counted => u = t)
  BY <1>2, <1>3, LeavingRow, LeavingUncounted
<1>5. DOMAIN u = DOMAIN t
  BY <1>4 DEF OneLess
<1>6. ASSUME NEW g \in DOMAIN u PROVE u[g].live = Cardinality(Frames(r, g))
  <2>1. t[g].live = Cardinality(Frames(s, g)) /\ t[g].live \in Nat
    BY <1>1, <1>5, <1>6, RowsAre DEF Depths
  <2>2. CASE g = f /\ s[n].counted
    <3>1. n \in Frames(s, g)
      BY <1>2, <2>2, LeavingFrames
    <3>2. Frames(r, g) = Frames(s, g) \ {n}
      BY LeavingFrames
    <3>3. Cardinality(Frames(r, g)) = Cardinality(Frames(s, g)) - 1
      BY ZenonT(60), <1>1, <3>1, <3>2, FramesFinite, FS_RemoveElement
    <3>4. u[g].live + 1 = t[g].live
      BY <1>4, <2>2 DEF OneLess
    <3>5. u[g].live = t[g].live - 1
      <4>1. OneLess(t, u, f, duration, own) /\ TableOK(u)
        BY <1>1, <1>4, <2>2, LeavingTyped
      <4>2. u[g].live \in Nat
        BY <1>6, <4>1, RowsAre
      <4>3. QED
        BY <2>1, <3>4, <4>2
    <3>6. QED
      BY <2>1, <3>3, <3>5
  <2>3. CASE ~(g = f /\ s[n].counted)
    <3>1. u[g] = t[g]
      BY <1>4, <1>5, <2>3 DEF OneLess
    <3>2. Frames(r, g) = Frames(s, g)
      BY <1>2, <2>3, LeavingFrames
    <3>3. QED
      BY <2>1, <3>1, <3>2
  <2>4. QED
    BY <2>2, <2>3
<1>7. \A i \in 1 .. Len(r) : r[i].counted => r[i].f \in DOMAIN u
  <2>1. \A i \in 1 .. Len(r) : i \in 1 .. Len(s) /\ i \in 1 .. n - 1
    BY <1>1
  <2>2. QED
    BY <1>1, <1>5, <2>1 DEF Depths
<1>8. QED
  BY <1>5, <1>6, <1>7 DEF Depths

\* The frame below has been charged what was over before now.
LEMMA LeavingCharges ==
    ASSUME NEW t, NEW u, NEW s, NEW r, NEW n, NEW now, Leaving(t, u, s, r, n, now),
           Charges(s, now)
    PROVE  Charges(r, now + 1)
<1>1. /\ n \in Nat /\ n > 0 /\ now \in Nat /\ s \in Seq(Frame) /\ Len(s) = n
      /\ Len(r) = n - 1
  BY DEF Leaving
<1>2. ASSUME NEW i \in 1 .. n - 1
      PROVE  r[i].start + r[i].child <= Until(r, i, now + 1)
  <2>1. r[i].start = s[i].start /\ s[i] \in Frame /\ s[i + 1] \in Frame
        /\ i \in 1 .. Len(s) /\ i # Len(s) /\ i \in Nat
    BY <1>1 DEF Leaving
  <2>2. PICK a, b, c : a = s[i].start /\ b = s[i + 1].start /\ c = s[i].child
    OBVIOUS
  <2>3. a \in Nat /\ b \in Nat /\ c \in Nat
    BY <2>1, <2>2, FrameTypes
  <2>4. a + c <= b
    BY <2>1, <2>2 DEF Charges, Until
  <2>5. CASE i = n - 1
    <3>1. Until(r, i, now + 1) = now + 1
      BY <1>1, <2>5 DEF Until
    <3>2. r[i].child = s[i].child + (now - s[n].start) /\ s[n].start = s[i + 1].start
      BY <1>1, <2>5 DEF Leaving
    <3>3. r[i].child = c + (now - b)
      BY <2>2, <3>2
    <3>4. a + (c + (now - b)) <= now + 1
      BY <1>1, <2>3, <2>4
    <3>5. r[i].start = a
      BY <2>1, <2>2
    <3>6. QED
      BY <3>1, <3>3, <3>4, <3>5
  <2>6. CASE i # n - 1
    <3>1. i < n - 1 /\ i + 1 \in 1 .. n - 1
      BY <1>1, <2>6
    <3>2. r[i].child = s[i].child /\ r[i + 1].start = s[i + 1].start
      BY <3>1 DEF Leaving
    <3>3. Until(r, i, now + 1) = s[i + 1].start
      BY <1>1, <2>6, <3>2 DEF Until
    <3>4. QED
      BY <2>1, <2>2, <2>4, <3>2, <3>3
  <2>7. QED
    BY <2>5, <2>6
<1>3. QED
  BY <1>1, <1>2 DEF Charges

\* The sums over the upper part of the stack: what the frame that is popped was charged
\* is gone, and what it took has been charged to the frame below.
LEMMA LeavingChildren ==
    ASSUME NEW t, NEW u, NEW s, NEW r, NEW n, NEW now, Leaving(t, u, s, r, n, now),
           Charges(s, now), NEW i \in 1 .. n - 1
    PROVE  /\ SumOver(i .. n - 1, Children(r)) + s[n].child
                = SumOver(i .. n, Children(s)) + (now - s[n].start)
           /\ SumOver(i .. n - 1, Children(r)) \in Nat
           /\ SumOver(i .. n, Children(s)) \in Nat
           /\ SumOver(i .. n - 1, Children(r))
                = SumOver(i .. n - 1, Children(s)) + (now - s[n].start)
<1>1. /\ n \in Nat /\ n > 0 /\ s \in Seq(Frame) /\ Len(s) = n /\ r \in Seq(Frame)
      /\ Len(r) = n - 1 /\ n - 1 \in Int /\ i \in Int
  BY DEF Leaving
<1>2. PICK c, d : c = s[n].child /\ d = now - s[n].start
  OBVIOUS
<1>3. c \in Nat /\ d \in Nat
  BY <1>2, LeavingNumbers
<1>4. PICK S : S = i .. n - 1
  OBVIOUS
<1>5. IsFiniteSet(S) /\ n \notin S /\ n - 1 \in S /\ S \subseteq 1 .. n - 1
      /\ i .. n = S \cup {n}
  <2>1. IsFiniteSet(i .. n - 1)
    BY <1>1, FS_Interval
  <2>2. n \notin i .. n - 1 /\ n - 1 \in i .. n - 1 /\ i .. n - 1 \subseteq 1 .. n - 1
    BY <1>1
  <2>3. i .. n = (i .. n - 1) \cup {n}
    BY <1>1
  <2>4. QED
    BY <1>4, <2>1, <2>2, <2>3
<1>6. PICK old, new : old = Children(s) /\ new = Children(r)
  OBVIOUS
<1>7. /\ \A j \in S \cup {n} : old[j] = s[j].child /\ old[j] \in Nat
      /\ \A j \in S : new[j] = r[j].child /\ new[j] \in Nat
  <2>1. /\ \A j \in 1 .. n : Children(s)[j] = s[j].child /\ s[j].child \in Nat
        /\ \A j \in 1 .. n - 1 : Children(r)[j] = r[j].child /\ r[j].child \in Nat
    BY <1>1, ChildrenAre
  <2>2. \A j \in S : j \in 1 .. n - 1 /\ j \in 1 .. n
    BY <1>1, <1>5
  <2>3. n \in 1 .. n
    BY <1>1
  <2>4. QED
    BY <1>6, <2>1, <2>2, <2>3
<1>8. /\ new[n - 1] = old[n - 1] + d
      /\ \A j \in S : j # n - 1 => new[j] = old[j]
  <2>1. new[n - 1] = s[n - 1].child + d
    BY <1>2, <1>5, <1>7 DEF Leaving
  <2>2. ASSUME NEW j \in S, j # n - 1 PROVE new[j] = old[j]
    <3>1. j \in 1 .. n - 1 /\ j < n - 1
      BY <1>1, <1>5, <2>2
    <3>2. r[j].child = s[j].child
      BY <3>1 DEF Leaving
    <3>3. QED
      BY <1>7, <3>2
  <2>3. QED
    BY <1>5, <1>7, <2>1, <2>2
<1>9. PICK a, b : a = SumOver(S, old) /\ b = SumOver(S, new)
  OBVIOUS
<1>10. b + old[n - 1] = a + new[n - 1] /\ a \in Nat /\ b \in Nat
  <2>1. \A j \in S : old[j] \in Nat /\ new[j] \in Nat
    BY <1>7
  <2>2. /\ SumOver(S, new) + old[n - 1] = SumOver(S, old) + new[n - 1]
        /\ SumOver(S, old) \in Nat /\ SumOver(S, new) \in Nat
    BY <1>5, <1>8, <2>1, SumChanges
  <2>3. QED
    BY <1>9, <2>2
<1>11. old[n - 1] \in Nat
  BY <1>5, <1>7
<1>12. b = a + d
  BY <1>3, <1>8, <1>10, <1>11
<1>13. SumOver(S \cup {n}, old) = a + c
  <2>1. SumOver(S \cup {n}, old) = SumOver(S, old) + old[n]
    BY <1>5, <1>7, SumMore
  <2>2. old[n] = c
    BY <1>2, <1>7
  <2>3. QED
    BY <1>9, <2>1, <2>2
<1>14. SumOver(i .. n, Children(s)) = a + c
  BY <1>5, <1>6, <1>13
<1>15. SumOver(i .. n - 1, Children(r)) = b
  BY <1>4, <1>6, <1>9
<1>16. b + c = (a + c) + d
  BY <1>3, <1>10, <1>12
<1>17. SumOver(i .. n - 1, Children(s)) = a
  BY <1>4, <1>6, <1>9
<1>18. QED
  BY SMTT(60), <1>2, <1>3, <1>10, <1>12, <1>14, <1>15, <1>16, <1>17

\* The topmost frame has its own charge and no more.
LEMMA LastChild ==
    ASSUME NEW s \in Seq(Frame), NEW n, n = Len(s), n > 0
    PROVE  SumOver(n .. n, Children(s)) = s[n].child /\ s[n].child \in Nat
<1>1. n \in Nat /\ n .. n = {n} /\ n \in 1 .. n
  OBVIOUS
<1>2. Children(s)[n] = s[n].child /\ s[n].child \in Nat
  BY <1>1, ChildrenAre
<1>3. IsFiniteSet({}) /\ n \notin {}
  BY FS_EmptySet
<1>4. \A j \in {} \cup {n} : Children(s)[j] \in Nat
  BY <1>2
<1>5. SumOver({} \cup {n}, Children(s)) = SumOver({}, Children(s)) + Children(s)[n]
  BY <1>3, <1>4, SumMore
<1>6. {} \cup {n} = n .. n
  BY <1>1
<1>7. QED
  BY <1>2, <1>5, <1>6, SumOfNothing

\* What leaving adds to the self times: the own time of a frame that was counted.
LEMMA LeavingSelves ==
    ASSUME NEW t, NEW u, NEW s, NEW r, NEW n, NEW now, Leaving(t, u, s, r, n, now),
           Depths(t, s), Charges(s, now), IsFiniteSet(DOMAIN t)
    PROVE  /\ SumOver(DOMAIN t, Selves(t)) \in Nat /\ SumOver(DOMAIN u, Selves(u)) \in Nat
           /\ SumOver(DOMAIN u, Selves(u))
                <= SumOver(DOMAIN t, Selves(t)) + (now - s[n].start - s[n].child)
           /\ u = t \/ SumOver(DOMAIN u, Selves(u))
                         = SumOver(DOMAIN t, Selves(t)) + (now - s[n].start - s[n].child)
<1>1. PICK f, own : f = s[n].f /\ own = now - s[n].start - s[n].child
  OBVIOUS
<1>2. own \in Nat
  BY <1>1, LeavingNumbers
<1>3. TableOK(t) /\ TableOK(u) /\ DOMAIN u = DOMAIN t
  <2>1. TableOK(t)
    BY DEF Leaving
  <2>2. QED
    BY <2>1, LeavingTyped, LeavingDepths
<1>4. PICK a, b, D : a = Selves(t) /\ b = Selves(u) /\ D = DOMAIN t
  OBVIOUS
<1>5. \A g \in D : /\ a[g] = t[g].exclusive /\ a[g] \in Nat
                   /\ b[g] = u[g].exclusive /\ b[g] \in Nat
  BY <1>3, <1>4, RowsAre
<1>6. SumOver(D, a) \in Nat /\ SumOver(D, b) \in Nat
  BY <1>4, <1>5, SumIsNat
<1>7. CASE s[n].counted
  <2>1. OneLess(t, u, f, now - s[n].start, own)
    BY <1>1, <1>7, LeavingRow
  <2>2. f \in D /\ b[f] = a[f] + own /\ \A g \in D : g # f => a[g] = b[g]
    BY <1>4, <1>5, <2>1 DEF OneLess
  <2>3. SumOver(D, b) + a[f] = SumOver(D, a) + b[f]
    BY <1>4, <1>5, <2>2, SumChanges
  <2>4. SumOver(D, b) = SumOver(D, a) + own
    BY <1>2, <1>5, <1>6, <2>2, <2>3
  <2>5. QED
    BY <1>1, <1>2, <1>3, <1>4, <1>6, <2>4
<1>8. CASE ~s[n].counted
  <2>1. u = t
    BY <1>8, LeavingUncounted
  <2>2. SumOver(D, b) <= SumOver(D, a) + own
    BY <1>2, <1>4, <1>6, <2>1
  <2>3. QED
    BY <1>1, <1>3, <1>4, <1>6, <2>1, <2>2
<1>9. QED
  BY <1>7, <1>8

\* The own time of a frame was charged to nobody, its time in all to the frame below.
LEMMA LeavingSelfTimes ==
    ASSUME NEW t, NEW u, NEW s, NEW r, NEW n, NEW now, Leaving(t, u, s, r, n, now),
           Depths(t, s), Charges(s, now), IsFiniteSet(DOMAIN t), NEW opened \in Nat,
           SelfTimes(t, s, opened, now)
    PROVE  SelfTimes(u, r, opened, now + 1)
<1>1. /\ n \in Nat /\ n > 0 /\ s \in Seq(Frame) /\ Len(s) = n /\ now \in Nat
      /\ r \in Seq(Frame) /\ Len(r) = n - 1
  BY DEF Leaving
<1>2. PICK c, b, d : c = s[n].child /\ b = s[n].start /\ d = now - s[n].start
  OBVIOUS
<1>3. c \in Nat /\ b \in Nat /\ d \in Nat /\ c <= d /\ d = now - b
  BY <1>2, LeavingNumbers
<1>4. PICK S, R : S = SumOver(DOMAIN t, Selves(t)) /\ R = SumOver(DOMAIN u, Selves(u))
  OBVIOUS
<1>5. S \in Nat /\ R \in Nat /\ R <= S + (d - c)
  BY <1>2, <1>4, LeavingSelves
<1>6. PICK C, O : C = SumOver(1 .. n, Children(s)) /\ O = Oldest(s, now)
  OBVIOUS
<1>7. S + opened <= C + O
  BY <1>1, <1>4, <1>6 DEF SelfTimes
<1>8. O \in Nat /\ (n = 1 => O = b) /\ O = s[1].start
  <2>1. s # <<>> /\ s[1] \in Frame
    BY <1>1, EmptySeq
  <2>2. O = s[1].start
    BY <1>6, <2>1 DEF Oldest
  <2>3. QED
    BY <1>2, <2>1, <2>2, FrameTypes
<1>9. CASE n = 1
  <2>1. C = c
    BY <1>1, <1>2, <1>6, <1>9, LastChild
  <2>2. r = <<>>
    <3>1. Len(r) = 0
      BY <1>1, <1>9
    <3>2. QED
      BY <1>1, <3>1, EmptySeq
  <2>3. Oldest(r, now + 1) = now + 1
    BY <2>2 DEF Oldest
  <2>4. SumOver(1 .. Len(r), Children(r)) = 0
    <3>1. 1 .. Len(r) = {}
      BY <2>2, EmptySeq
    <3>2. QED
      BY <3>1, SumOfNothing
  <2>5. R + opened <= 0 + (now + 1)
    BY <1>1, <1>3, <1>5, <1>7, <1>8, <1>9, <2>1
  <2>6. QED
    BY <1>4, <2>3, <2>4, <2>5 DEF SelfTimes
<1>10. CASE n # 1
  <2>1. 1 \in 1 .. n - 1
    BY <1>1, <1>10
  <2>2. PICK E : E = SumOver(1 .. n - 1, Children(r))
    OBVIOUS
  <2>3. E + c = C + d /\ E \in Nat /\ C \in Nat
    BY <1>2, <1>6, <2>1, <2>2, LeavingChildren
  <2>4. Oldest(r, now + 1) = O
    <3>1. r # <<>>
      BY <1>1, <1>10, EmptySeq
    <3>2. r[1].start = s[1].start
      BY <2>1 DEF Leaving
    <3>3. QED
      BY <1>8, <3>1, <3>2 DEF Oldest
  <2>5. R + opened <= E + O
    BY <1>3, <1>5, <1>7, <1>8, <2>3
  <2>6. QED
    BY <1>1, <1>4, <2>2, <2>4, <2>5 DEF SelfTimes
<1>11. QED
  BY <1>9, <1>10

\* The charges of the frames that are left still come one after the other.
LEMMA LeavingStretches ==
    ASSUME NEW t, NEW u, NEW s, NEW r, NEW n, NEW now, Leaving(t, u, s, r, n, now),
           Charges(s, now), Stretches(s, now)
    PROVE  Stretches(r, now + 1)
<1>1. /\ n \in Nat /\ n > 0 /\ now \in Nat /\ s \in Seq(Frame) /\ Len(s) = n
      /\ r \in Seq(Frame) /\ Len(r) = n - 1
  BY DEF Leaving
<1>2. ASSUME NEW j \in 1 .. n - 1
      PROVE  SumOver(1 .. j, Children(r)) + r[1].start <= Until(r, j, now + 1)
  <2>1. j \in 1 .. n /\ j # n /\ j \in Nat /\ 1 \in 1 .. n - 1 /\ j + 1 \in 1 .. n
    BY <1>1
  <2>2. r[1].start = s[1].start
    BY <2>1 DEF Leaving
  <2>3. PICK A, b, c : A = SumOver(1 .. j, Children(s)) /\ b = s[1].start
                       /\ c = s[j + 1].start
    OBVIOUS
  <2>4. b \in Nat /\ c \in Nat
    <3>1. s[1] \in Frame /\ s[j + 1] \in Frame
      BY <1>1, <2>1
    <3>2. QED
      BY <2>3, <3>1, FrameTypes
  <2>5. A + b <= c
    BY <1>1, <2>1, <2>3 DEF Stretches, Until
  <2>6. CASE j = n - 1
    <3>1. PICK B : B = SumOver(1 .. n - 1, Children(r))
      OBVIOUS
    <3>2. B \in Nat /\ B = SumOver(1 .. n - 1, Children(s)) + (now - s[n].start)
      BY <2>1, <3>1, LeavingChildren
    <3>3. j + 1 = n
      BY <1>1, <2>6
    <3>4. B = A + (now - c)
      BY <2>3, <2>6, <3>2, <3>3
    <3>5. Until(r, j, now + 1) = now + 1
      BY <1>1, <2>6 DEF Until
    <3>6. A \in Nat
      <4>1. \A i \in 1 .. j : Children(s)[i] \in Nat
        BY <1>1, <2>1, ChildrenAre
      <4>2. IsFiniteSet(1 .. j)
        BY <2>1, FS_Interval
      <4>3. QED
        BY <2>3, <4>1, <4>2, SumIsNat
    <3>7. B + b <= now + 1
      BY <1>1, <2>4, <2>5, <3>4, <3>6
    <3>8. QED
      BY <2>2, <2>3, <2>6, <3>1, <3>5, <3>7
  <2>7. CASE j # n - 1
    <3>1. j + 1 \in 1 .. n - 1 /\ \A i \in 1 .. j : i \in 1 .. n - 1 /\ i < n - 1
      BY <1>1, <2>1, <2>7
    <3>2. Until(r, j, now + 1) = c
      <4>1. r[j + 1].start = s[j + 1].start
        BY <3>1 DEF Leaving
      <4>2. QED
        BY <1>1, <2>3, <2>7, <4>1 DEF Until
    <3>3. \A i \in 1 .. j : Children(r)[i] = Children(s)[i]
      <4>1. \A i \in 1 .. j : r[i].child = s[i].child
        BY <3>1 DEF Leaving
      <4>2. \A i \in 1 .. j : i \in 1 .. Len(s) /\ i \in 1 .. Len(r)
        BY <1>1, <3>1
      <4>3. QED
        BY <1>1, <4>1, <4>2, ChildrenAre
    <3>4. SumOver(1 .. j, Children(r)) = A
      BY <2>3, <3>3, SumSame
    <3>5. QED
      BY <2>2, <2>3, <2>5, <3>2, <3>4
  <2>8. QED
    BY <2>6, <2>7
<1>3. QED
  BY <1>1, <1>2 DEF Stretches

\* The inclusive time of a function is banked when its outermost frame goes, and that
\* frame began after what was banked before.
LEMMA LeavingInclusive ==
    ASSUME NEW t, NEW u, NEW s, NEW r, NEW n, NEW now, Leaving(t, u, s, r, n, now),
           Depths(t, s), Charges(s, now), NEW opened \in Nat,
           InclusiveTimes(t, s, opened, now)
    PROVE  InclusiveTimes(u, r, opened, now + 1)
<1>1. /\ n \in Nat /\ n > 0 /\ s \in Seq(Frame) /\ Len(s) = n /\ now \in Nat /\ TableOK(t)
      /\ \A i \in 1 .. n - 1 : r[i].start = s[i].start
  BY DEF Leaving
<1>2. PICK f, d, own : f = s[n].f /\ d = now - s[n].start
                       /\ own = now - s[n].start - s[n].child
  OBVIOUS
<1>3. DOMAIN u = DOMAIN t
  BY LeavingDepths
<1>4. ASSUME NEW g \in DOMAIN u
      PROVE  /\ u[g].inclusive + opened <= now + 1
             /\ \A i \in Frames(r, g) : u[g].inclusive + opened <= r[i].start
  <2>1. PICK a, b : a = t[g].inclusive /\ b = u[g].inclusive
    OBVIOUS
  <2>2. a \in Nat /\ a + opened <= now /\ \A i \in Frames(s, g) : a + opened <= s[i].start
    <3>1. g \in DOMAIN t
      BY <1>3
    <3>2. QED
      BY <1>1, <2>1, <3>1, RowsAre DEF InclusiveTimes
  <2>3. ASSUME b = a
        PROVE  b + opened <= now + 1 /\ \A i \in Frames(r, g) : b + opened <= r[i].start
    <3>1. b + opened <= now + 1
      BY <1>1, <2>2, <2>3
    <3>2. ASSUME NEW i \in Frames(r, g) PROVE b + opened <= r[i].start
      <4>1. i \in Frames(s, g) /\ i \in 1 .. n /\ i # n
        BY LeavingFrames
      <4>2. i \in 1 .. n - 1
        BY <1>1, <4>1
      <4>3. r[i].start = s[i].start
        BY <1>1, <4>2
      <4>4. QED
        BY <2>2, <2>3, <4>1, <4>3
    <3>3. QED
      BY <3>1, <3>2
  <2>4. CASE g = f /\ s[n].counted
    <3>1. OneLess(t, u, g, d, own)
      BY <1>2, <2>4, LeavingRow
    <3>2. CASE t[g].live = 1
      <4>1. b = a + d
        BY <2>1, <3>1, <3>2 DEF OneLess
      <4>2. n \in Frames(s, g)
        BY <1>2, <2>4, LeavingFrames
      <4>3. PICK began : began = s[n].start
        OBVIOUS
      <4>4. began \in Nat /\ d \in Nat /\ d = now - began /\ a + opened <= began
        BY <1>2, <2>2, <4>2, <4>3, LeavingNumbers
      <4>5. b + opened <= now + 1
        BY <1>1, <2>2, <4>1, <4>4
      <4>6. Frames(r, g) = {}
        <5>1. IsFiniteSet(Frames(s, g)) /\ Cardinality(Frames(s, g)) = 1
          BY <1>1, <1>3, <3>2, FramesFinite DEF Depths
        <5>2. \A i \in Frames(s, g) : i = n
          BY <4>2, <5>1, FS_Singleton
        <5>3. QED
          BY <5>2, LeavingFrames
      <4>7. QED
        BY <2>1, <4>5, <4>6
    <3>3. CASE t[g].live # 1
      <4>1. b = a
        BY <2>1, <3>1, <3>3 DEF OneLess
      <4>2. QED
        BY <2>1, <2>3, <4>1
    <3>4. QED
      BY <3>2, <3>3
  <2>5. CASE ~(g = f /\ s[n].counted)
    <3>1. u[g] = t[g]
      <4>1. CASE s[n].counted
        <5>1. OneLess(t, u, f, d, own)
          BY <1>2, <4>1, LeavingRow
        <5>2. QED
          BY <1>3, <2>5, <4>1, <5>1 DEF OneLess
      <4>2. CASE ~s[n].counted
        BY <4>2, LeavingUncounted
      <4>3. QED
        BY <4>1, <4>2
    <3>2. QED
      BY <2>1, <2>3, <3>1
  <2>6. QED
    BY <2>4, <2>5
<1>5. QED
  BY <1>4 DEF InclusiveTimes

\* Which rows a pop touches.
LEMMA LeavingOthers ==
    ASSUME NEW t, NEW u, NEW s, NEW r, NEW n, NEW now, Leaving(t, u, s, r, n, now),
           Depths(t, s), Charges(s, now), NEW g \in DOMAIN u, ~(s[n].f = g /\ s[n].counted)
    PROVE  u[g] = t[g] /\ n \notin Frames(s, g)
<1>1. n \notin Frames(s, g)
  BY LeavingFrames
<1>2. CASE s[n].counted
  <2>1. OneLess(t, u, s[n].f, now - s[n].start, now - s[n].start - s[n].child)
    BY <1>2, LeavingRow
  <2>2. QED
    BY <1>1, <1>2, <2>1 DEF OneLess
<1>3. CASE ~s[n].counted
  BY <1>1, <1>3, LeavingUncounted
<1>4. QED
  BY <1>2, <1>3

\* The self time of a function is within its inclusive time again when its outermost
\* frame is popped; until then what its frames are charged covers the difference.
LEMMA LeavingWithin ==
    ASSUME NEW t, NEW u, NEW s, NEW r, NEW n, NEW now, Leaving(t, u, s, r, n, now),
           Depths(t, s), Charges(s, now), SelfAndInclusive(t, s)
    PROVE  SelfAndInclusive(u, r)
<1>1. /\ n \in Nat /\ n > 0 /\ s \in Seq(Frame) /\ Len(s) = n /\ now \in Nat /\ TableOK(t)
      /\ Len(r) = n - 1
  BY DEF Leaving
<1>2. PICK f, c, d, own : f = s[n].f /\ c = s[n].child /\ d = now - s[n].start
                          /\ own = now - s[n].start - s[n].child
  OBVIOUS
<1>3. DOMAIN u = DOMAIN t
  BY LeavingDepths
<1>4. c \in Nat /\ d \in Nat /\ c <= d /\ own = d - c
  BY <1>2, LeavingNumbers
<1>5. s[n].counted => OneLess(t, u, f, d, own)
  BY <1>2, LeavingRow
<1>6. ASSUME NEW g \in DOMAIN u, Frames(r, g) = {} PROVE u[g].exclusive <= u[g].inclusive
  <2>1. PICK a, b : a = t[g].exclusive /\ b = t[g].inclusive
    OBVIOUS
  <2>2. a \in Nat /\ b \in Nat
    BY <1>1, <1>3, <1>6, <2>1, RowsAre
  <2>3. CASE f = g /\ s[n].counted
    <3>1. n \in Frames(s, g)
      <4>1. s[n].f = g /\ s[n].counted
        BY <1>2, <2>3
      <4>2. QED
        BY <4>1, LeavingFrames
    <3>2. \A i \in Frames(s, g) : i = n
      BY <1>6, LeavingFrames
    <3>3. n \in Frames(s, g) /\ \A i \in Frames(s, g) : i = n
      BY <3>1, <3>2
    <3>4. Outermost(s, g, n) /\ n \in 1 .. Len(s)
      BY <1>1, <3>3 DEF Outermost
    <3>5. t[g].exclusive <= t[g].inclusive + SumOver(n .. n, Children(s))
      BY <1>1, <1>3, <1>6, <3>4 DEF SelfAndInclusive
    <3>6. a <= b + c
      BY <1>1, <1>2, <2>1, <3>5, LastChild
    <3>7. t[g].live = 1
      <4>1. Frames(s, g) = {n}
        BY <3>3
      <4>2. Cardinality(Frames(s, g)) = 1
        BY <4>1, FS_Singleton
      <4>3. QED
        BY <1>3, <1>6, <4>2 DEF Depths
    <3>8. u[g].exclusive = a + own /\ u[g].inclusive = b + d
      BY <1>5, <2>1, <2>3, <3>7 DEF OneLess
    <3>9. QED
      BY <1>4, <2>2, <3>6, <3>8
  <2>4. CASE ~(f = g /\ s[n].counted)
    <3>1. u[g] = t[g] /\ n \notin Frames(s, g)
      BY <1>2, <1>6, <2>4, LeavingOthers
    <3>2. Frames(s, g) = {}
      BY <1>6, <3>1, LeavingFrames
    <3>3. QED
      BY <1>3, <1>6, <3>1, <3>2 DEF SelfAndInclusive
  <2>5. QED
    BY <2>3, <2>4
<1>7. ASSUME NEW g \in DOMAIN u, NEW i \in 1 .. Len(r), Outermost(r, g, i)
      PROVE  u[g].exclusive <= u[g].inclusive + SumOver(i .. Len(r), Children(r))
  <2>1. PICK a, b : a = t[g].exclusive /\ b = t[g].inclusive
    OBVIOUS
  <2>2. a \in Nat /\ b \in Nat
    BY <1>1, <1>3, <1>7, <2>1, RowsAre
  <2>3. i \in 1 .. n - 1 /\ i \in 1 .. n
    BY <1>1
  <2>4. Outermost(s, g, i)
    <3>1. i \in Frames(s, g) /\ \A j \in Frames(s, g) : j # n => i <= j
      BY <1>7, LeavingFrames DEF Outermost
    <3>2. i <= n
      BY <1>1, <2>3
    <3>3. QED
      BY <3>1, <3>2 DEF Outermost
  <2>5. PICK A, B : A = SumOver(i .. n, Children(s)) /\ B = SumOver(i .. n - 1, Children(r))
    OBVIOUS
  <2>6. B + c = A + d /\ A \in Nat /\ B \in Nat
    BY <1>2, <2>3, <2>5, LeavingChildren
  <2>7. a <= b + A
    BY <1>1, <1>3, <1>7, <2>1, <2>3, <2>4, <2>5 DEF SelfAndInclusive
  <2>8. CASE f = g /\ s[n].counted
    <3>1. n \in Frames(s, g)
      <4>1. s[n].f = g /\ s[n].counted
        BY <1>2, <2>8
      <4>2. QED
        BY <4>1, LeavingFrames
    <3>2. i \in Frames(s, g) /\ n \in Frames(s, g) /\ i # n
      BY <1>1, <2>3, <2>4, <3>1 DEF Outermost
    <3>3. t[g].live # 1
      <4>1. t[g].live = Cardinality(Frames(s, g))
        BY <1>3, <1>7 DEF Depths
      <4>2. IsFiniteSet(Frames(s, g))
        BY <1>1, FramesFinite
      <4>3. ASSUME Cardinality(Frames(s, g)) = 1 PROVE FALSE
        BY <3>2, <4>2, <4>3, FS_Singleton
      <4>4. QED
        BY <4>1, <4>3
    <3>4. u[g].exclusive = a + own /\ u[g].inclusive = b
      BY <1>5, <2>1, <2>8, <3>3 DEF OneLess
    <3>5. a + own <= b + B
      BY <1>4, <2>2, <2>6, <2>7
    <3>6. QED
      BY <1>1, <2>5, <3>4, <3>5
  <2>9. CASE ~(f = g /\ s[n].counted)
    <3>1. u[g] = t[g]
      BY <1>2, <1>7, <2>9, LeavingOthers
    <3>2. a <= b + B
      BY <1>4, <2>2, <2>6, <2>7
    <3>3. QED
      BY <1>1, <2>1, <2>5, <3>1, <3>2
  <2>10. QED
    BY <2>8, <2>9
<1>8. QED
  BY <1>6, <1>7 DEF SelfAndInclusive

\* One call more of a pair, the others as they were.
OneCallMore(e, d, pair) ==
    /\ DOMAIN d = DOMAIN e \cup {pair}
    /\ \A x \in DOMAIN e : x # pair => Calls(d)[x] = Calls(e)[x]
    /\ pair \in DOMAIN e => Calls(d)[pair] = Calls(e)[pair] + 1
    /\ pair \notin DOMAIN e => Calls(d)[pair] = 1

\* An edge that is admitted is one call more of its pair.
LEMMA EdgeRow ==
    ASSUME NEW e, EdgesOK(e), NEW pair, NEW duration \in Nat, Admits(e, pair),
           NEW d, d = RecordEdge(e, pair, duration)
    PROVE  OneCallMore(e, d, pair)
<1>1. PICK had : had = IF pair \in DOMAIN e THEN e[pair] ELSE [calls |-> 0, inclusive |-> 0]
  OBVIOUS
<1>2. had \in EdgeTotals
  BY <1>1 DEF EdgesOK, EdgeTotals, Time
<1>3. PICK new : new = [calls |-> had.calls + 1, inclusive |-> had.inclusive + duration]
  OBVIOUS
<1>4. d = With(e, pair, new)
  BY <1>1, <1>3 DEF RecordEdge
<1>5. new.calls = had.calls + 1 /\ had.calls \in Nat
  BY <1>2, <1>3 DEF EdgeTotals
<1>6. /\ DOMAIN d = DOMAIN e \cup {pair} /\ d[pair] = new
      /\ \A x \in DOMAIN e : x # pair => d[x] = e[x]
  BY <1>4 DEF With
<1>7. pair \in DOMAIN d /\ \A x \in DOMAIN e : x \in DOMAIN d
  BY <1>6
<1>8. Calls(d)[pair] = had.calls + 1
  BY <1>5, <1>6, <1>7 DEF Calls
<1>9. pair \notin DOMAIN e => had.calls = 0
  BY <1>1
<1>10. pair \in DOMAIN e => had.calls = Calls(e)[pair]
  BY <1>1 DEF Calls
<1>11. \A x \in DOMAIN e : x # pair => Calls(d)[x] = Calls(e)[x]
  BY <1>6, <1>7 DEF Calls
<1>12. pair \notin DOMAIN e => Calls(d)[pair] = 1
  BY <1>8, <1>9
<1>13. pair \in DOMAIN e => Calls(d)[pair] = Calls(e)[pair] + 1
  BY <1>8, <1>10
<1>14. QED
  BY <1>6, <1>11, <1>12, <1>13 DEF OneCallMore

\* Which pairs lead into a function.
LEMMA IntoIs ==
    ASSUME NEW e, NEW f
    PROVE  \A pair : pair \in Into(e, f) <=> pair \in DOMAIN e /\ pair[2] = f
  BY DEF Into

\* The calls into a function are finitely many.
LEMMA IntoIsNat ==
    ASSUME NEW e, EdgesOK(e), IsFiniteSet(DOMAIN e), NEW f
    PROVE  /\ IsFiniteSet(Into(e, f)) /\ \A pair \in Into(e, f) : Calls(e)[pair] \in Nat
           /\ SumOver(Into(e, f), Calls(e)) \in Nat
<1>1. Into(e, f) \subseteq DOMAIN e
  BY DEF Into
<1>2. IsFiniteSet(Into(e, f)) /\ \A pair \in Into(e, f) : Calls(e)[pair] \in Nat
  BY <1>1, FS_Subset, EdgesAre
<1>3. QED
  BY <1>2, SumIsNat

\* The calls into the callee grow by one at most, those into another function stay.
LEMMA RecordedCalls ==
    ASSUME NEW e, EdgesOK(e), IsFiniteSet(DOMAIN e), NEW pair \in Function \X Function,
           NEW duration \in Nat, NEW d, d = RecordEdge(e, pair, duration)
    PROVE  /\ IsFiniteSet(DOMAIN d) /\ \A x \in DOMAIN d : x \in DOMAIN e \/ x = pair
           /\ \A g : SumOver(Into(d, g), Calls(d)) \in Nat
           /\ \A g : g # pair[2] =>
                         SumOver(Into(d, g), Calls(d)) = SumOver(Into(e, g), Calls(e))
           /\ SumOver(Into(d, pair[2]), Calls(d))
                  <= SumOver(Into(e, pair[2]), Calls(e)) + 1
<1>1. EdgesOK(d)
  BY RecordEdgeTyped
<1>2. CASE ~Admits(e, pair)
  <2>1. d = e
    BY <1>2 DEF RecordEdge
  <2>2. \A g : SumOver(Into(e, g), Calls(e)) \in Nat
    BY IntoIsNat
  <2>3. QED
    BY <2>1, <2>2
<1>3. CASE Admits(e, pair)
  <2>1. OneCallMore(e, d, pair)
    BY <1>3, EdgeRow
  <2>2. /\ DOMAIN d = DOMAIN e \cup {pair}
        /\ \A x \in DOMAIN e : x # pair => Calls(d)[x] = Calls(e)[x]
        /\ pair \in DOMAIN e => Calls(d)[pair] = Calls(e)[pair] + 1
        /\ pair \notin DOMAIN e => Calls(d)[pair] = 1
    BY <2>1 DEF OneCallMore
  <2>3. IsFiniteSet(DOMAIN d)
    BY <2>2, FS_AddElement
  <2>4. \A g : SumOver(Into(d, g), Calls(d)) \in Nat
    BY <1>1, <2>3, IntoIsNat
  <2>5. ASSUME NEW g, g # pair[2]
        PROVE  SumOver(Into(d, g), Calls(d)) = SumOver(Into(e, g), Calls(e))
    <3>1. \A x : x \in Into(d, g) <=> x \in Into(e, g)
      BY <2>2, <2>5, IntoIs
    <3>2. Into(d, g) = Into(e, g)
      BY <3>1
    <3>3. \A x \in Into(e, g) : Calls(d)[x] = Calls(e)[x]
      BY <2>2, <2>5, IntoIs
    <3>4. QED
      BY <3>2, <3>3, SumSame
  <2>6. PICK f : f = pair[2]
    OBVIOUS
  <2>7. PICK I, a, b : I = Into(e, f) /\ a = Calls(e) /\ b = Calls(d)
    OBVIOUS
  <2>8. IsFiniteSet(I) /\ (\A x \in I : a[x] \in Nat) /\ SumOver(I, a) \in Nat
    BY <2>7, IntoIsNat
  <2>9. IsFiniteSet(Into(d, f)) /\ \A x \in Into(d, f) : b[x] \in Nat
    BY <1>1, <2>3, <2>7, IntoIsNat
  <2>10. \A x \in I : x # pair => a[x] = b[x]
    BY <2>2, <2>7, IntoIs
  <2>11. SumOver(Into(d, f), b) <= SumOver(I, a) + 1
    <3>1. CASE pair \in DOMAIN e
      <4>1. pair \in I /\ b[pair] = a[pair] + 1
        BY <2>2, <2>6, <2>7, <3>1, IntoIs
      <4>2. \A x : x \in Into(d, f) <=> x \in I
        BY <2>2, <2>7, <3>1, IntoIs
      <4>3. Into(d, f) = I
        BY <4>2
      <4>4. SumOver(I, b) + a[pair] = SumOver(I, a) + b[pair] /\ SumOver(I, b) \in Nat
        BY <2>8, <2>9, <2>10, <4>1, <4>3, SumChanges
      <4>5. a[pair] \in Nat
        BY <2>8, <4>1
      <4>6. PICK A, B, k : A = SumOver(I, a) /\ B = SumOver(I, b) /\ k = a[pair]
        OBVIOUS
      <4>7. B + k = A + (k + 1) /\ A \in Nat /\ B \in Nat /\ k \in Nat
        BY <2>8, <4>1, <4>4, <4>5, <4>6
      <4>8. B <= A + 1
        BY <4>7
      <4>9. QED
        BY <4>3, <4>6, <4>8
    <3>2. CASE pair \notin DOMAIN e
      <4>1. pair \notin I /\ b[pair] = 1
        BY <2>2, <2>7, <3>2, IntoIs
      <4>2. \A x : x \in Into(d, f) <=> x \in I \cup {pair}
        BY <2>2, <2>6, <2>7, IntoIs
      <4>3. Into(d, f) = I \cup {pair}
        BY <4>2
      <4>4. SumOver(I \cup {pair}, b) = SumOver(I, b) + b[pair]
        BY <2>8, <2>9, <4>1, <4>3, SumMore
      <4>5. \A x \in I : a[x] = b[x]
        BY <2>10, <4>1
      <4>6. SumOver(I, b) = SumOver(I, a)
        BY <4>5, SumSame
      <4>7. SumOver(Into(d, f), b) = SumOver(I, a) + 1
        BY <4>1, <4>3, <4>4, <4>6
      <4>8. QED
        BY <2>8, <4>7
    <3>3. QED
      BY <3>1, <3>2
  <2>12. QED
    BY <2>2, <2>3, <2>4, <2>5, <2>6, <2>7, <2>11
<1>4. QED
  BY <1>2, <1>3

\* The edges after a pop: the call is recorded under the frame below, if there is one.
EdgeWritten(e, d, s, n, now) ==
    IF s[n].counted /\ n > 1
    THEN d = RecordEdge(e, <<s[n - 1].f, s[n].f>>, now - s[n].start)
    ELSE d = e

\* The calls an edge reports have ended.
LEMMA LeavingEdges ==
    ASSUME NEW t, NEW u, NEW s, NEW r, NEW n, NEW now, Leaving(t, u, s, r, n, now),
           Depths(t, s), Charges(s, now), NEW e, EdgesOK(e), IsFiniteSet(DOMAIN e),
           EdgeCalls(t, e), NEW d, EdgeWritten(e, d, s, n, now)
    PROVE  EdgeCalls(u, d) /\ IsFiniteSet(DOMAIN d)
<1>1. DOMAIN u = DOMAIN t
  BY LeavingDepths
<1>2. TableOK(t) /\ TableOK(u)
  <2>1. TableOK(t)
    BY DEF Leaving
  <2>2. QED
    BY <2>1, LeavingTyped
<1>3. PICK f, duration, own : f = s[n].f /\ duration = now - s[n].start
                              /\ own = now - s[n].start - s[n].child
  OBVIOUS
<1>4. PICK old, new : /\ old = [g \in DOMAIN t |-> SumOver(Into(e, g), Calls(e))]
                      /\ new = [g \in DOMAIN t |-> SumOver(Into(d, g), Calls(d))]
  OBVIOUS
<1>5. \A g \in DOMAIN t : old[g] \in Nat /\ old[g] + t[g].live <= t[g].calls
  BY <1>4, IntoIsNat DEF EdgeCalls
<1>6. CASE ~s[n].counted
  BY <1>6, LeavingUncounted DEF EdgeWritten
<1>7. CASE s[n].counted
  <2>1. OneLess(t, u, f, duration, own)
    BY <1>3, <1>7, LeavingRow
  <2>2. /\ IsFiniteSet(DOMAIN d) /\ \A pair \in DOMAIN d : pair[2] \in DOMAIN t
        /\ \A g \in DOMAIN t : new[g] \in Nat
        /\ \A g \in DOMAIN t : g # f => new[g] = old[g]
        /\ new[f] <= old[f] + 1
    <3>1. CASE n > 1
      <4>1. n - 1 \in 1 .. Len(s) /\ n \in 1 .. Len(s) /\ s \in Seq(Frame)
        BY <3>1 DEF Leaving
      <4>2. PICK pair : pair = <<s[n - 1].f, f>>
        OBVIOUS
      <4>3. pair \in Function \X Function /\ pair[2] = f
        <5>1. s[n - 1] \in Frame /\ s[n] \in Frame
          BY <4>1
        <5>2. QED
          BY <1>3, <4>2, <5>1, FrameTypes
      <4>4. duration \in Nat
        BY <1>3, LeavingNumbers
      <4>5. d = RecordEdge(e, pair, duration)
        BY <1>3, <1>7, <3>1, <4>2 DEF EdgeWritten
      <4>6. /\ IsFiniteSet(DOMAIN d) /\ \A x \in DOMAIN d : x \in DOMAIN e \/ x = pair
            /\ \A g : SumOver(Into(d, g), Calls(d)) \in Nat
            /\ \A g : g # f =>
                          SumOver(Into(d, g), Calls(d)) = SumOver(Into(e, g), Calls(e))
            /\ SumOver(Into(d, f), Calls(d)) <= SumOver(Into(e, f), Calls(e)) + 1
        BY <4>3, <4>4, <4>5, RecordedCalls
      <4>7. f \in DOMAIN t
        BY <2>1 DEF OneLess
      <4>8. \A x \in DOMAIN d : x[2] \in DOMAIN t
        BY <4>3, <4>6, <4>7 DEF EdgeCalls
      <4>9. QED
        BY <1>4, <4>6, <4>7, <4>8
    <3>2. CASE ~(n > 1)
      <4>1. d = e /\ f \in DOMAIN t
        BY <2>1, <3>2 DEF EdgeWritten, OneLess
      <4>2. new = old
        BY <1>4, <4>1
      <4>3. QED
        BY <1>5, <4>1, <4>2 DEF EdgeCalls
    <3>3. QED
      BY <3>1, <3>2
  <2>3. ASSUME NEW g \in DOMAIN t PROVE new[g] + u[g].live <= u[g].calls
    <3>1. /\ t[g].calls \in Nat /\ t[g].live \in Nat /\ u[g].calls \in Nat
          /\ u[g].live \in Nat /\ old[g] \in Nat /\ new[g] \in Nat
      BY <1>1, <1>2, <1>5, <2>2, <2>3, RowsAre
    <3>2. old[g] + t[g].live <= t[g].calls
      BY <1>5
    <3>3. CASE g = f
      <4>1. u[g].calls = t[g].calls /\ u[g].live + 1 = t[g].live /\ new[g] <= old[g] + 1
        BY <2>1, <2>2, <3>3 DEF OneLess
      <4>2. QED
        BY <3>1, <3>2, <4>1
    <3>4. CASE g # f
      <4>1. u[g] = t[g] /\ new[g] = old[g]
        BY <2>1, <2>2, <3>4 DEF OneLess
      <4>2. QED
        BY <3>2, <4>1
    <3>5. QED
      BY <3>3, <3>4
  <2>4. QED
    BY <1>1, <1>4, <2>2, <2>3 DEF EdgeCalls
<1>8. QED
  BY <1>6, <1>7

\* Leaving keeps the table of a window good.
LEMMA LeavingKeeps ==
    ASSUME NEW t, NEW u, NEW s, NEW r, NEW n, NEW now, Leaving(t, u, s, r, n, now),
           NEW e, EdgesOK(e), NEW d, EdgeWritten(e, d, s, n, now), NEW opened \in Nat,
           Good(t, e, s, opened, now)
    PROVE  Good(u, d, r, opened, now + 1)
<1>1. /\ IsFiniteSet(DOMAIN t) /\ IsFiniteSet(DOMAIN e)
      /\ Depths(t, s) /\ Charges(s, now) /\ Stretches(s, now)
      /\ SelfTimes(t, s, opened, now) /\ InclusiveTimes(t, s, opened, now)
      /\ SelfAndInclusive(t, s) /\ EdgeCalls(t, e)
  BY DEF Good, Finite
<1>2. Depths(u, r) /\ DOMAIN u = DOMAIN t
  BY <1>1, LeavingDepths
<1>3. Charges(r, now + 1)
  BY <1>1, LeavingCharges
<1>4. SelfTimes(u, r, opened, now + 1)
  BY <1>1, LeavingSelfTimes
<1>5. InclusiveTimes(u, r, opened, now + 1)
  BY <1>1, LeavingInclusive
<1>6. SelfAndInclusive(u, r)
  BY <1>1, LeavingWithin
<1>7. EdgeCalls(u, d) /\ IsFiniteSet(DOMAIN d)
  BY <1>1, LeavingEdges
<1>8. Stretches(r, now + 1)
  BY <1>1, LeavingStretches
<1>9. QED
  BY <1>1, <1>2, <1>3, <1>4, <1>5, <1>6, <1>7, <1>8 DEF Good, Finite
-----------------------------------------------------------------------------
(* The span ids.                                                           *)

\* Something that begins now is above all that began before.
LEMMA AscendingAppend ==
    ASSUME NEW S, NEW s \in Seq(S), NEW new \in S, Ascending(s),
           \A i \in DOMAIN s : s[i].start < new.start
    PROVE  Ascending(Append(s, new))
<1>1. PICK r, n : r = Append(s, new) /\ n = Len(s)
  OBVIOUS
<1>2. /\ n \in Nat /\ DOMAIN s = 1 .. n /\ DOMAIN r = 1 .. n + 1 /\ r[n + 1] = new
      /\ \A i \in 1 .. n : r[i] = s[i]
  BY <1>1
<1>3. ASSUME NEW i \in DOMAIN r, NEW j \in DOMAIN r, i < j PROVE r[i].start < r[j].start
  <2>1. i \in 1 .. n
    BY <1>2, <1>3
  <2>2. CASE j = n + 1
    BY <1>2, <2>1, <2>2
  <2>3. CASE j \in 1 .. n
    BY <1>2, <1>3, <2>1, <2>3 DEF Ascending
  <2>4. QED
    BY <1>2, <2>2, <2>3
<1>4. Ascending(r)
  BY <1>3 DEF Ascending
<1>5. QED
  BY <1>1, <1>4

\* What is left below ascends too.
LEMMA AscendingPop ==
    ASSUME NEW S, NEW s \in Seq(S), s # <<>>, Ascending(s)
    PROVE  Ascending(Pop(s))
<1>1. PICK r, n : r = Pop(s) /\ n = Len(s)
  OBVIOUS
<1>2. /\ n \in Nat /\ DOMAIN s = 1 .. n /\ DOMAIN r = 1 .. n - 1
      /\ \A i \in 1 .. n - 1 : r[i] = s[i]
  BY <1>1, PopProperties
<1>3. ASSUME NEW i \in DOMAIN r, NEW j \in DOMAIN r, i < j PROVE r[i].start < r[j].start
  <2>1. i \in DOMAIN s /\ j \in DOMAIN s /\ r[i] = s[i] /\ r[j] = s[j]
    BY <1>2
  <2>2. QED
    BY <1>3, <2>1 DEF Ascending
<1>4. Ascending(r)
  BY <1>3 DEF Ascending
<1>5. QED
  BY <1>1, <1>4

\* A frame that emits a span comes with its span id, another one without.
LEMMA SpansPushed ==
    ASSUME NEW s, NEW r, NEW new, OnTop(s, r, new), NEW p \in Seq(Parent), SameStarts(p, s),
           NEW q \in Parent, q.start = new.start
    PROVE  /\ new.emits => SameStarts(Append(p, q), r)
           /\ ~new.emits => SameStarts(p, r)
<1>1. PICK m, n : m = Len(p) /\ n = Len(s)
  OBVIOUS
<1>2. /\ n \in Nat /\ DOMAIN s = 1 .. n /\ DOMAIN r = 1 .. n + 1 /\ r[n + 1] = new
      /\ \A i \in 1 .. n : r[i] = s[i]
  BY <1>1 DEF OnTop
<1>3. \A x : (\E i \in DOMAIN r : r[i].emits /\ r[i].start = x)
               <=> \/ \E i \in DOMAIN s : s[i].emits /\ s[i].start = x
                   \/ new.emits /\ new.start = x
  <2>1. \A i : i \in DOMAIN r <=> i \in DOMAIN s \/ i = n + 1
    BY <1>2
  <2>2. QED
    BY <1>2, <2>1
<1>4. PICK o : o = Append(p, q)
  OBVIOUS
<1>5. /\ m \in Nat /\ DOMAIN p = 1 .. m /\ DOMAIN o = 1 .. m + 1 /\ o[m + 1] = q
      /\ \A i \in 1 .. m : o[i] = p[i]
  BY <1>1, <1>4
<1>6. \A x : (\E i \in DOMAIN o : o[i].start = x)
               <=> (\E i \in DOMAIN p : p[i].start = x) \/ q.start = x
  <2>1. \A i : i \in DOMAIN o <=> i \in DOMAIN p \/ i = m + 1
    BY <1>5
  <2>2. QED
    BY <1>5, <2>1
<1>7. \A x : (\E i \in DOMAIN p : p[i].start = x)
               <=> (\E i \in DOMAIN s : s[i].emits /\ s[i].start = x)
  BY DEF SameStarts, HasSpan, Emits
<1>8. CASE new.emits
  <2>1. \A x : (\E i \in DOMAIN o : o[i].start = x)
                 <=> (\E i \in DOMAIN r : r[i].emits /\ r[i].start = x)
    BY <1>3, <1>6, <1>7, <1>8
  <2>2. SameStarts(o, r)
    BY <2>1 DEF SameStarts, HasSpan, Emits
  <2>3. QED
    BY <1>4, <1>8, <2>2
<1>9. CASE ~new.emits
  <2>1. \A x : (\E i \in DOMAIN p : p[i].start = x)
                 <=> (\E i \in DOMAIN r : r[i].emits /\ r[i].start = x)
    BY <1>3, <1>7, <1>9
  <2>2. QED
    BY <1>9, <2>1 DEF SameStarts, HasSpan, Emits
<1>10. QED
  BY <1>8, <1>9

\* The starts of frames and of span ids are times.
LEMMA StartsAre ==
    ASSUME NEW s \in Seq(Frame), NEW p \in Seq(Parent)
    PROVE  /\ \A i \in DOMAIN s : s[i].start \in Nat
           /\ \A i \in DOMAIN p : p[i].start \in Nat
<1>1. \A i \in DOMAIN s : s[i] \in Frame
  OBVIOUS
<1>2. \A i \in DOMAIN p : p[i] \in Parent
  OBVIOUS
<1>3. \A i \in DOMAIN p : p[i].start \in Nat
  BY <1>2 DEF Parent, Time
<1>4. QED
  BY <1>1, <1>3, FrameTypes

\* The span id that goes is that of the frame that goes.
LEMMA SpansPopped ==
    ASSUME NEW s \in Seq(Frame), NEW r \in Seq(Frame), NEW n \in Nat, n > 0,
           Len(s) = n, Len(r) = n - 1,
           \A i \in 1 .. n - 1 : r[i].start = s[i].start /\ (r[i].emits <=> s[i].emits),
           NEW p \in Seq(Parent), Ascending(s), Ascending(p), SameStarts(p, s),
           NEW q, q = IF s[n].emits /\ p # <<>> /\ Top(p).start = s[n].start
                      THEN Pop(p) ELSE p
    PROVE  Ascending(q) /\ SameStarts(q, r)
<1>1. DOMAIN s = 1 .. n /\ DOMAIN r = 1 .. n - 1 /\ n \in DOMAIN s
  OBVIOUS
<1>2. /\ \A i \in DOMAIN s : s[i].start \in Nat
      /\ \A i \in DOMAIN p : p[i].start \in Nat
  BY StartsAre
<1>3. \A x : (\E i \in DOMAIN p : p[i].start = x)
               <=> (\E i \in DOMAIN s : s[i].emits /\ s[i].start = x)
  BY DEF SameStarts, HasSpan, Emits
<1>4. \A i \in DOMAIN s : i # n => s[i].start < s[n].start
  BY <1>1 DEF Ascending
<1>5. \A i : i \in DOMAIN s <=> i \in DOMAIN r \/ i = n
  BY <1>1
<1>6. n \notin DOMAIN r
  BY <1>1
<1>7. CASE ~s[n].emits
  <2>1. q = p
    BY <1>7
  <2>2. \A x : (\E i \in DOMAIN s : s[i].emits /\ s[i].start = x)
                 <=> (\E i \in DOMAIN r : r[i].emits /\ r[i].start = x)
    BY <1>1, <1>5, <1>6, <1>7
  <2>3. SameStarts(p, r)
    BY ZenonT(60), <1>3, <2>2 DEF SameStarts, HasSpan, Emits
  <2>4. QED
    BY <2>1, <2>3
<1>8. CASE s[n].emits
  <2>1. PICK k \in DOMAIN p : p[k].start = s[n].start
    BY <1>1, <1>3, <1>8
  <2>2. PICK m : m = Len(p)
    OBVIOUS
  <2>3. m \in Nat /\ DOMAIN p = 1 .. m /\ m > 0 /\ m \in DOMAIN p /\ p # <<>> /\ k <= m
    BY <2>1, <2>2
  <2>4. p[m].start = s[n].start
    <3>1. PICK j \in DOMAIN s : s[j].start = p[m].start
      BY <1>3, <2>3
    <3>2. s[j].start <= s[n].start
      <4>1. s[j].start \in Nat /\ s[n].start \in Nat
        BY <1>1, <1>2
      <4>2. s[j].start < s[n].start \/ j = n
        BY <1>4
      <4>3. QED
        BY <4>1, <4>2
    <3>3. p[k].start <= p[m].start
      <4>1. p[k].start \in Nat /\ p[m].start \in Nat
        BY <1>2, <2>1, <2>3
      <4>2. k < m \/ k = m
        BY <2>3
      <4>3. k < m => p[k].start < p[m].start
        BY <2>1, <2>3 DEF Ascending
      <4>4. QED
        BY <4>1, <4>2, <4>3
    <3>4. p[m].start \in Nat /\ s[n].start \in Nat
      BY <1>1, <1>2, <2>3
    <3>5. QED
      BY <2>1, <3>1, <3>2, <3>3, <3>4
  <2>5. q = Pop(p)
    BY <1>8, <2>2, <2>3, <2>4 DEF Top
  <2>6. Ascending(q)
    BY <2>3, <2>5, AscendingPop
  <2>7. DOMAIN q = 1 .. m - 1 /\ \A i \in 1 .. m - 1 : q[i] = p[i]
    <3>1. /\ Pop(p) \in Seq(Parent) /\ Len(Pop(p)) = Len(p) - 1
          /\ \A i \in 1 .. Len(p) - 1 : Pop(p)[i] = p[i]
      BY <2>3, PopProperties
    <3>2. QED
      BY <2>2, <2>3, <2>5, <3>1
  <2>8. \A i \in DOMAIN p : i # m => p[i].start < p[m].start
    BY <2>3 DEF Ascending
  <2>9. \A x : (\E i \in DOMAIN q : q[i].start = x)
                 <=> (\E i \in DOMAIN p : p[i].start = x) /\ x # p[m].start
    <3>1. ASSUME NEW x, NEW i \in DOMAIN q, q[i].start = x
          PROVE  (\E j \in DOMAIN p : p[j].start = x) /\ x # p[m].start
      <4>1. i \in DOMAIN p /\ i # m /\ q[i] = p[i]
        BY <2>3, <2>7
      <4>2. p[i].start < p[m].start /\ p[i].start \in Nat /\ p[m].start \in Nat
        BY <1>2, <2>3, <2>8, <4>1
      <4>3. x # p[m].start
        BY <3>1, <4>1, <4>2
      <4>4. QED
        BY <3>1, <4>1, <4>3
    <3>2. ASSUME NEW x, NEW i \in DOMAIN p, p[i].start = x, x # p[m].start
          PROVE  \E j \in DOMAIN q : q[j].start = x
      <4>1. i \in DOMAIN q
        BY <2>3, <2>7, <3>2
      <4>2. QED
        BY <2>7, <3>2, <4>1
    <3>3. QED
      BY <3>1, <3>2
  <2>10. \A x : (\E i \in DOMAIN r : r[i].emits /\ r[i].start = x)
                  <=> (\E i \in DOMAIN s : s[i].emits /\ s[i].start = x) /\ x # s[n].start
    <3>1. ASSUME NEW x, NEW i \in DOMAIN r, r[i].emits, r[i].start = x
          PROVE  (\E j \in DOMAIN s : s[j].emits /\ s[j].start = x) /\ x # s[n].start
      <4>1. i \in DOMAIN s /\ i # n /\ s[i].start = x /\ s[i].emits
        BY <1>1, <1>5, <1>6, <3>1
      <4>2. s[i].start < s[n].start /\ s[i].start \in Nat /\ s[n].start \in Nat
        BY <1>1, <1>2, <1>4, <4>1
      <4>3. x # s[n].start
        BY <4>1, <4>2
      <4>4. QED
        BY <4>1, <4>3
    <3>2. ASSUME NEW x, NEW i \in DOMAIN s, s[i].emits, s[i].start = x, x # s[n].start
          PROVE  \E j \in DOMAIN r : r[j].emits /\ r[j].start = x
      <4>1. i \in DOMAIN r
        BY <1>5, <3>2
      <4>2. QED
        BY <1>1, <3>2, <4>1
    <3>3. QED
      BY <3>1, <3>2
  <2>11. SameStarts(q, r)
    <3>1. \A x : HasSpan(q, x) <=> HasSpan(p, x) /\ x # p[m].start
      BY <2>9 DEF HasSpan
    <3>2. \A x : Emits(r, x) <=> Emits(s, x) /\ x # s[n].start
      BY <2>10 DEF Emits
    <3>3. QED
      BY <2>4, <3>1, <3>2 DEF SameStarts
  <2>12. QED
    BY <2>6, <2>11
<1>9. QED
  BY <1>7, <1>8
-----------------------------------------------------------------------------
(* The steps keep the window.                                              *)

\* A window that opens on an empty stack has nothing in it.
LEMMA EmptyIsGood ==
    ASSUME NEW now \in Nat
    PROVE  /\ Good(Empty, Empty, <<>>, now, now) /\ TableOK(Empty) /\ EdgesOK(Empty)
           /\ IsFiniteSet(DOMAIN Empty) /\ SumOver(DOMAIN Empty, Calls(Empty)) = 0
<1>1. DOMAIN Empty = {} /\ IsFiniteSet({})
  BY FS_EmptySet DEF Empty
<1>2. \A f : SumOver({}, f) = 0
  BY SumOfNothing
<1>3. Len(<<>>) = 0 /\ 1 .. 0 = {}
  BY EmptySeq
<1>4. Depths(Empty, <<>>) /\ Charges(<<>>, now) /\ Stretches(<<>>, now)
  BY <1>1, <1>3 DEF Depths, Charges, Stretches
<1>5. SelfTimes(Empty, <<>>, now, now)
  <2>1. SumOver(DOMAIN Empty, Selves(Empty)) = 0
    BY <1>1, <1>2
  <2>2. SumOver(1 .. Len(<<>>), Children(<<>>)) = 0
    BY <1>2, <1>3
  <2>3. Oldest(<<>>, now) = now
    BY DEF Oldest
  <2>4. QED
    BY <2>1, <2>2, <2>3 DEF SelfTimes
<1>6. InclusiveTimes(Empty, <<>>, now, now) /\ SelfAndInclusive(Empty, <<>>)
  BY <1>1 DEF InclusiveTimes, SelfAndInclusive
<1>7. EdgeCalls(Empty, Empty)
  BY <1>1 DEF EdgeCalls
<1>8. TableOK(Empty) /\ EdgesOK(Empty)
  BY <1>1 DEF TableOK, EdgesOK
<1>9. QED
  BY <1>1, <1>2, <1>4, <1>5, <1>6, <1>7, <1>8 DEF Good, Finite

\* Time passes in a window in which nothing is called.
LEMMA GoodWaits ==
    ASSUME NEW t, TableOK(t), NEW e, NEW opened \in Nat, NEW now \in Nat,
           Good(t, e, <<>>, opened, now)
    PROVE  Good(t, e, <<>>, opened, now + 1)
<1>1. Len(<<>>) = 0 /\ 1 .. 0 = {}
  BY EmptySeq
<1>2. Charges(<<>>, now + 1) /\ Stretches(<<>>, now + 1)
  BY <1>1 DEF Charges, Stretches
<1>3. SelfTimes(t, <<>>, opened, now + 1)
  <2>1. PICK S : S = SumOver(DOMAIN t, Selves(t))
    OBVIOUS
  <2>2. S \in Nat
    <3>1. IsFiniteSet(DOMAIN t) /\ \A f \in DOMAIN t : Selves(t)[f] \in Nat
      BY RowsAre DEF Good, Finite
    <3>2. QED
      BY <2>1, <3>1, SumIsNat
  <2>3. SumOver(1 .. Len(<<>>), Children(<<>>)) = 0
    BY <1>1, SumOfNothing
  <2>4. Oldest(<<>>, now) = now /\ Oldest(<<>>, now + 1) = now + 1
    BY DEF Oldest
  <2>5. S + opened <= 0 + now
    BY <2>1, <2>3, <2>4 DEF Good, SelfTimes
  <2>6. S + opened <= 0 + (now + 1)
    BY <2>2, <2>5
  <2>7. QED
    BY <2>1, <2>3, <2>4, <2>6 DEF SelfTimes
<1>4. InclusiveTimes(t, <<>>, opened, now + 1)
  <2>1. \A f \in DOMAIN t : t[f].inclusive \in Nat /\ t[f].inclusive + opened <= now
    BY RowsAre DEF Good, InclusiveTimes
  <2>2. \A f \in DOMAIN t : t[f].inclusive + opened <= now + 1
    BY <2>1
  <2>3. \A f : Frames(<<>>, f) = {}
    BY <1>1 DEF Frames
  <2>4. QED
    BY <2>2, <2>3 DEF InclusiveTimes
<1>5. QED
  BY <1>2, <1>3, <1>4 DEF Good

\* The calls of a table once f is entered, or refused.
LEMMA EnteredCalls ==
    ASSUME NEW t, TableOK(t), IsFiniteSet(DOMAIN t), NEW f \in Function,
           NEW u, u = OnEnter(t, f)
    PROVE  /\ IsFiniteSet(DOMAIN u) /\ SumOver(DOMAIN t, Calls(t)) \in Nat
           /\ Counts(t, f) => SumOver(DOMAIN u, Calls(u)) = SumOver(DOMAIN t, Calls(t)) + 1
           /\ ~Counts(t, f) => SumOver(DOMAIN u, Calls(u)) = SumOver(DOMAIN t, Calls(t))
<1>1. TableOK(u)
  BY OnEnterTyped
<1>2. SumOver(DOMAIN t, Calls(t)) \in Nat /\ \A g \in DOMAIN t : Calls(t)[g] \in Nat
  BY RowsAre, SumIsNat
<1>3. CASE ~Counts(t, f)
  <2>1. u = t
    BY <1>3 DEF OnEnter
  <2>2. QED
    BY <1>2, <1>3, <2>1
<1>4. CASE Counts(t, f)
  <2>1. OneMore(t, u, f)
    BY <1>4, EnterRow
  <2>2. PICK D, a, b : D = DOMAIN t /\ a = Calls(t) /\ b = Calls(u)
    OBVIOUS
  <2>3. DOMAIN u = D \cup {f} /\ IsFiniteSet(DOMAIN u)
    <3>1. DOMAIN u = DOMAIN t \cup {f}
      BY <2>1 DEF OneMore
    <3>2. QED
      BY <2>2, <3>1, FS_AddElement
  <2>4. \A g \in D \cup {f} : b[g] = u[g].calls /\ b[g] \in Nat
    BY <1>1, <2>2, <2>3, RowsAre
  <2>5. \A g \in D : g # f => a[g] = b[g]
    <3>1. \A g \in D : g # f => u[g] = t[g]
      BY <2>1, <2>2 DEF OneMore
    <3>2. \A g \in D : a[g] = t[g].calls
      BY <2>2, RowsAre
    <3>3. QED
      BY <2>4, <3>1, <3>2
  <2>6. b[f] = Had(t, f).calls + 1
    <3>1. u[f].calls = Had(t, f).calls + 1
      BY <2>1 DEF OneMore
    <3>2. QED
      BY <2>4, <3>1
  <2>7. CASE f \in D
    <3>1. Had(t, f) = t[f] /\ a[f] = t[f].calls
      BY <2>2, <2>7, RowsAre DEF Had
    <3>2. SumOver(D, b) + a[f] = SumOver(D, a) + b[f] /\ SumOver(D, b) \in Nat
      BY <1>2, <2>2, <2>4, <2>5, <2>7, SumChanges
    <3>3. PICK A, B, k : A = SumOver(D, a) /\ B = SumOver(D, b) /\ k = a[f]
      OBVIOUS
    <3>4. A \in Nat /\ B \in Nat /\ k \in Nat /\ B + k = A + (k + 1)
      BY <1>2, <2>2, <2>6, <2>7, <3>1, <3>2, <3>3
    <3>5. B = A + 1
      BY <3>4
    <3>6. D \cup {f} = D
      BY <2>7
    <3>7. QED
      BY <1>2, <1>4, <2>2, <2>3, <3>3, <3>5, <3>6
  <2>8. CASE f \notin D
    <3>1. b[f] = 1
      <4>1. Had(t, f).calls = 0
        BY <2>2, <2>8 DEF Had, Fresh
      <4>2. QED
        BY <2>6, <4>1
    <3>2. SumOver(D \cup {f}, b) = SumOver(D, b) + b[f]
      BY <2>2, <2>4, <2>8, SumMore
    <3>3. SumOver(D, b) = SumOver(D, a)
      <4>1. \A g \in D : b[g] = a[g]
        BY <2>5, <2>8
      <4>2. QED
        BY <4>1, SumSame
    <3>4. QED
      BY <1>2, <1>4, <2>2, <2>3, <3>1, <3>2, <3>3
  <2>9. QED
    BY <2>7, <2>8
<1>5. QED
  BY <1>3, <1>4

\* A frame that leaves takes no call out of the table.
LEMMA LeftCalls ==
    ASSUME NEW t, TableOK(t), NEW frame, NEW duration, NEW u,
           u = OnLeave(t, frame, duration)
    PROVE  DOMAIN u = DOMAIN t /\ SumOver(DOMAIN u, Calls(u)) = SumOver(DOMAIN t, Calls(t))
<1>1. CASE frame.counted /\ frame.f \in DOMAIN t /\ open # 0
  <2>1. PICK own : own = Minus(duration, frame.child)
    OBVIOUS
  <2>2. u = [t EXCEPT ![frame.f] = Left(t[frame.f], duration, own)]
    BY <1>1, <2>1 DEF OnLeave
  <2>3. Left(t[frame.f], duration, own).calls = t[frame.f].calls
    BY <1>1 DEF Left, TableOK, Totals
  <2>4. DOMAIN u = DOMAIN t /\ \A g \in DOMAIN t : u[g].calls = t[g].calls
    BY <1>1, <2>2, <2>3
  <2>5. \A g \in DOMAIN t : Calls(u)[g] = Calls(t)[g]
    BY <2>4 DEF Calls
  <2>6. QED
    BY <2>4, <2>5, SumSame
<1>2. CASE ~(frame.counted /\ frame.f \in DOMAIN t /\ open # 0)
  <2>1. u = t
    BY <1>2 DEF OnLeave
  <2>2. QED
    BY <2>1
<1>3. QED
  BY <1>1, <1>2

\* The frames of a window began one after the other, all of them before now.
LEMMA FrameStarts ==
    ASSUME IInv, Window, Ascending(php)
    PROVE  /\ Ascending(frames)
           /\ \A i \in DOMAIN frames : frames[i].start \in Nat /\ frames[i].start < clock
<1>1. /\ php \in Seq(Call) /\ frames \in Seq(Frame)
      /\ Len(frames) <= Len(php)
      /\ \A i \in 1 .. Len(frames) : frames[i].start = php[Outside + i].start
  BY DEF IInv, TypeOK, FramesPaired
<1>2. /\ DOMAIN frames = 1 .. Len(frames) /\ DOMAIN php = 1 .. Len(php)
      /\ Len(frames) \in Nat /\ Len(php) \in Nat /\ Outside + Len(frames) = Len(php)
      /\ Outside \in Nat
  BY <1>1 DEF Outside
<1>3. \A i \in DOMAIN frames : Outside + i \in DOMAIN php
  BY <1>2
<1>4. ASSUME NEW i \in DOMAIN frames, NEW j \in DOMAIN frames, i < j
      PROVE  frames[i].start < frames[j].start
  <2>1. Outside + i \in DOMAIN php /\ Outside + j \in DOMAIN php /\ Outside + i < Outside + j
    BY <1>2, <1>3, <1>4
  <2>2. php[Outside + i].start < php[Outside + j].start
    BY <2>1 DEF Ascending
  <2>3. QED
    BY <1>1, <1>2, <2>2
<1>5. \A i \in DOMAIN frames : frames[i].start < clock
  BY <1>1, <1>2, <1>3 DEF IInv, Past
<1>6. \A i \in DOMAIN frames : frames[i].start \in Nat
  <2>1. \A i \in DOMAIN frames : frames[i] \in Frame
    BY <1>1
  <2>2. QED
    BY <2>1, FrameTypes
<1>7. QED
  BY <1>4, <1>5, <1>6 DEF Ascending

\* What is pushed when a call begins.
LEMMA Pushed ==
    ASSUME TypeOK, NEW f \in Function, NEW r \in Nat, NEW owns \in BOOLEAN,
           NEW from, TableOK(from), PushFrame(f, r, owns, from)
    PROVE  \E new \in Frame :
               /\ OnTop(frames, frames', new) /\ new.f = f /\ new.start = clock
               /\ new.emits <=> f \in Spanning
               /\ Entering(from, table', frames, frames', new, clock)
<1>1. PICK new : new = [f |-> f, start |-> clock, child |-> 0, counted |-> Counts(from, f),
                        emits |-> f \in Spanning, owns |-> owns, of |-> r]
  OBVIOUS
<1>2. Counts(from, f) \in BOOLEAN /\ clock \in Nat /\ frames \in Seq(Frame)
  BY DEF Counts, TypeOK, Time
<1>3. new \in Frame
  BY <1>1, <1>2 DEF Frame, Time
<1>4. /\ new.f = f /\ new.start = clock /\ new.child = 0
      /\ new.counted <=> Counts(from, f)
      /\ new.emits <=> f \in Spanning
  BY <1>1
<1>5. frames' = Append(frames, new) /\ table' = OnEnter(from, f)
  BY <1>1 DEF PushFrame
<1>6. OnTop(frames, frames', new)
  BY <1>2, <1>3, <1>5, AppendIsOnTop
<1>7. Entering(from, table', frames, frames', new, clock)
  BY <1>2, <1>4, <1>5, <1>6 DEF Entering
<1>8. QED
  BY <1>3, <1>4, <1>6, <1>7

\* A call that begins is above the calls PHP is in.
LEMMA CallsAscend ==
    ASSUME IInv, Ascending(php), NEW f \in Function, Begin(f)
    PROVE  Ascending(php')
<1>1. PICK call : call = [f |-> f, start |-> clock]
  OBVIOUS
<1>2. call \in Call /\ call.start = clock /\ php \in Seq(Call) /\ php' = Append(php, call)
  BY <1>1 DEF IInv, TypeOK, Call, Time, Begin
<1>3. \A i \in DOMAIN php : php[i].start < call.start
  BY <1>2 DEF IInv, Past
<1>4. QED
  BY <1>2, <1>3, AscendingAppend

\* A delivery opens the window with its own frame.
LEMMA DeliverKeepsWindow ==
    ASSUME IInv, WindowInv, NEW f \in Function, Begin(f), Deliver(f)
    PROVE  WindowInv'
<1>1. TypeOK /\ clock \in Nat /\ started + 1 \in Nat /\ clock' = clock + 1
  BY DEF IInv, TypeOK, Time, Begin
<1>2. /\ open' = started + 1 /\ since' = clock /\ edges' = Empty /\ begun' = 1
      /\ refused'.functions = IF Counts(Empty, f) THEN 0 ELSE 1
      /\ f \in Dispatchers /\ PushFrame(f, started + 1, TRUE, Empty)
  BY DEF Deliver, Opened, NoRefusals
<1>3. clean' => frames = <<>>
  BY Zenon DEF Deliver, Opened
<1>4. /\ Good(Empty, Empty, <<>>, clock, clock) /\ TableOK(Empty) /\ EdgesOK(Empty)
      /\ IsFiniteSet(DOMAIN Empty) /\ SumOver(DOMAIN Empty, Calls(Empty)) = 0
  BY <1>1, EmptyIsGood
<1>5. PICK new \in Frame :
          /\ OnTop(frames, frames', new) /\ new.f = f /\ new.start = clock
          /\ new.emits <=> f \in Spanning
          /\ Entering(Empty, table', frames, frames', new, clock)
  BY <1>1, <1>2, <1>4, Pushed
<1>6. f \notin Spanning
  BY <1>2, FrameConstants
<1>7. parents' = <<>>
  BY <1>2, <1>6 DEF PushFrame
<1>8. Ascending(php')
  BY CallsAscend DEF WindowInv
<1>9. SpansInv'
  <2>1. DOMAIN parents' = {}
    BY <1>7
  <2>2. Ascending(parents')
    BY <2>1 DEF Ascending
  <2>3. ASSUME clean' PROVE SameStarts(parents', frames')
    <3>1. Len(frames) = 0
      BY <1>3, <2>3
    <3>2. \A i \in DOMAIN frames' : ~frames'[i].emits
      BY <1>5, <1>6, <3>1 DEF OnTop
    <3>3. \A x : ~HasSpan(parents', x) /\ ~Emits(frames', x)
      BY <2>1, <3>2 DEF HasSpan, Emits
    <3>4. QED
      BY <3>3 DEF SameStarts
  <2>4. QED
    BY <2>1, <2>2, <2>3 DEF SpansInv, Window
<1>10. CountInv'
  <2>1. table' = OnEnter(Empty, f)
    BY <1>2 DEF PushFrame
  <2>2. /\ IsFiniteSet(DOMAIN table')
        /\ Counts(Empty, f) => SumOver(DOMAIN table', Calls(table')) = 0 + 1
        /\ ~Counts(Empty, f) => SumOver(DOMAIN table', Calls(table')) = 0
    BY <1>4, <2>1, EnteredCalls
  <2>3. SumOver(DOMAIN table', Calls(table')) + refused'.functions = begun'
    BY <1>2, <2>2
  <2>4. QED
    BY <2>2, <2>3 DEF CountInv, EveryCallIsCounted
<1>11. ASSUME clean' PROVE Good(table', edges', frames', since', clock')
  <2>1. frames = <<>>
    BY <1>3, <1>11
  <2>2. Entering(Empty, table', <<>>, frames', new, clock)
    BY <1>5, <2>1
  <2>3. Good(table', Empty, frames', clock, clock + 1)
    BY <1>1, <1>4, <2>2, EnteringKeeps
  <2>4. QED
    BY <1>1, <1>2, <2>3
<1>12. QED
  BY <1>8, <1>9, <1>10, <1>11 DEF WindowInv, Window

\* A call that is observed is entered.
LEMMA ObserveKeepsWindow ==
    ASSUME IInv, WindowInv, NEW f \in Function, Begin(f), Observe(f)
    PROVE  WindowInv'
<1>1. /\ TypeOK /\ clock \in Nat /\ open \in Nat /\ clock' = clock + 1
      /\ since \in Nat /\ since <= clock /\ begun \in Nat /\ refused.functions \in Nat
      /\ TableOK(table) /\ EdgesOK(edges) /\ parents \in Seq(Parent)
  BY OpenIsNat DEF IInv, Past, TypeOK, Time, Begin
<1>2. /\ open # 0 /\ open' = open /\ since' = since /\ clean' = clean /\ edges' = edges
      /\ begun' = begun + 1 /\ PushFrame(f, open, FALSE, table)
      /\ refused'.functions = IF Counts(table, f) THEN refused.functions
                              ELSE refused.functions + 1
  BY DEF Observe, IInv, TypeOK
<1>3. PICK new \in Frame :
          /\ OnTop(frames, frames', new) /\ new.f = f /\ new.start = clock
          /\ new.emits <=> f \in Spanning
          /\ Entering(table, table', frames, frames', new, clock)
  BY <1>1, <1>2, Pushed
<1>4. Ascending(php')
  BY CallsAscend DEF WindowInv
<1>5. PICK id : id = [start |-> clock, of |-> open]
  OBVIOUS
<1>6. id \in Parent /\ id.start = clock /\ id.of = open
  BY <1>1, <1>5 DEF Parent, Time
<1>7. parents' = IF f \in Spanning THEN Append(parents, id) ELSE parents
  BY <1>2, <1>5 DEF PushFrame
<1>8. \A i \in DOMAIN parents : parents[i].of = open
  BY DEF WindowInv, SpansInv
<1>9. \A i \in DOMAIN parents' : parents'[i].of = open
  <2>1. PICK n : n = Len(parents)
    OBVIOUS
  <2>2. PICK more : more = Append(parents, id)
    OBVIOUS
  <2>3. /\ n \in Nat /\ DOMAIN parents = 1 .. n /\ DOMAIN more = 1 .. n + 1
        /\ more[n + 1] = id /\ \A i \in 1 .. n : more[i] = parents[i]
    BY <1>1, <1>6, <2>1, <2>2
  <2>4. \A i \in DOMAIN more : i \in DOMAIN parents \/ i = n + 1
    BY <2>3
  <2>5. \A i \in DOMAIN more : more[i].of = open
    BY <1>6, <1>8, <2>3, <2>4
  <2>6. QED
    BY <1>7, <1>8, <2>2, <2>5
<1>10. ASSUME Window PROVE Ascending(parents') /\ SameStarts(parents', frames')
  <2>1. Ascending(parents) /\ SameStarts(parents, frames)
    BY <1>10 DEF WindowInv, SpansInv
  <2>2. \A i \in DOMAIN parents : parents[i].start < id.start
    <3>1. \A i \in DOMAIN frames : frames[i].start < clock
      BY <1>10, FrameStarts DEF WindowInv
    <3>2. ASSUME NEW i \in DOMAIN parents PROVE parents[i].start < id.start
      <4>1. HasSpan(parents, parents[i].start)
        BY DEF HasSpan
      <4>2. Emits(frames, parents[i].start)
        BY <2>1, <4>1 DEF SameStarts
      <4>3. QED
        BY <1>6, <3>1, <4>2 DEF Emits
    <3>3. QED
      BY <3>2
  <2>3. CASE f \in Spanning
    <3>1. Ascending(Append(parents, id))
      BY <1>1, <1>6, <2>1, <2>2, AscendingAppend
    <3>2. SameStarts(Append(parents, id), frames')
      BY <1>1, <1>3, <1>6, <2>1, <2>3, SpansPushed
    <3>3. QED
      BY <1>7, <2>3, <3>1, <3>2
  <2>4. CASE f \notin Spanning
    <3>1. SameStarts(parents, frames')
      BY <1>1, <1>3, <1>6, <2>1, <2>4, SpansPushed
    <3>2. QED
      BY <1>7, <2>1, <2>4, <3>1
  <2>5. QED
    BY <2>3, <2>4
<1>11. SpansInv'
  BY <1>2, <1>9, <1>10 DEF SpansInv, Window
<1>12. CountInv'
  <2>1. table' = OnEnter(table, f)
    BY <1>2 DEF PushFrame
  <2>2. IsFiniteSet(DOMAIN table)
        /\ SumOver(DOMAIN table, Calls(table)) + refused.functions = begun
    BY <1>2 DEF WindowInv, CountInv, EveryCallIsCounted
  <2>3. PICK S, R : S = SumOver(DOMAIN table, Calls(table))
                    /\ R = SumOver(DOMAIN table', Calls(table'))
    OBVIOUS
  <2>4. /\ IsFiniteSet(DOMAIN table') /\ S \in Nat
        /\ Counts(table, f) => R = S + 1
        /\ ~Counts(table, f) => R = S
    BY <1>1, <2>1, <2>2, <2>3, EnteredCalls
  <2>5. R + refused'.functions = begun'
    BY <1>1, <1>2, <2>2, <2>3, <2>4
  <2>6. QED
    BY <2>3, <2>4, <2>5 DEF CountInv, EveryCallIsCounted
<1>13. ASSUME Window PROVE Good(table', edges', frames', since', clock')
  <2>1. Good(table, edges, frames, since, clock)
    BY <1>13 DEF WindowInv
  <2>2. Good(table', edges, frames', since, clock + 1)
    BY <1>1, <1>3, <2>1, EnteringKeeps
  <2>3. QED
    BY <1>1, <1>2, <2>2
<1>14. QED
  BY <1>2, <1>4, <1>11, <1>12, <1>13 DEF WindowInv, Window

\* A call outside any request leaves no window to look at.
LEMMA PassKeepsWindow ==
    ASSUME IInv, WindowInv, NEW f \in Function, Begin(f), Pass(f)
    PROVE  WindowInv'
<1>1. open = 0 /\ open' = open /\ parents' = parents
  BY DEF Pass
<1>2. Ascending(php')
  BY CallsAscend DEF WindowInv
<1>3. SpansInv'
  BY <1>1 DEF WindowInv, SpansInv, Window
<1>4. QED
  BY <1>1, <1>2, <1>3 DEF WindowInv, CountInv, Window

\* The call that ends was the last.
LEMMA CallsStayAscending ==
    ASSUME IInv, Ascending(php), End
    PROVE  Ascending(php')
<1>1. php' = Pop(php) /\ php # <<>> /\ php \in Seq(Call)
  BY DEF End, IInv, TypeOK
<1>2. QED
  BY <1>1, AscendingPop

\* With no frame left time passes in the window.
LEMMA NothingToPopKeepsWindow ==
    ASSUME IInv, WindowInv, End, NothingToPop
    PROVE  WindowInv'
<1>1. /\ frames = <<>> /\ frames' = frames /\ parents' = parents /\ table' = table
      /\ edges' = edges /\ refused' = refused /\ open' = open
      /\ since' = since /\ clean' = clean /\ begun' = begun /\ clock' = clock + 1
  BY DEF NothingToPop, End
<1>2. clock \in Nat /\ since \in Nat /\ TableOK(table)
  BY DEF IInv, TypeOK, Time
<1>3. Ascending(php')
  BY CallsStayAscending DEF WindowInv
<1>4. SpansInv' /\ CountInv'
  BY <1>1 DEF WindowInv, SpansInv, CountInv, EveryCallIsCounted, Window
<1>5. ASSUME Window PROVE Good(table', edges', frames', since', clock')
  <2>1. Good(table, edges, <<>>, since, clock)
    BY <1>1, <1>5 DEF WindowInv
  <2>2. Good(table, edges, <<>>, since, clock + 1)
    BY <1>2, <2>1, GoodWaits
  <2>3. QED
    BY <1>1, <2>2
<1>6. QED
  BY <1>1, <1>3, <1>4, <1>5 DEF WindowInv, Window

\* A request that opens on an empty stack opens an empty window.
LEMMA StartKeepsWindow ==
    ASSUME IInv, WindowInv, RequestStart
    PROVE  WindowInv'
<1>1. /\ since' = clock /\ edges' = Empty /\ table' = Empty /\ refused' = NoRefusals
      /\ parents' = <<>> /\ begun' = 0 /\ clock' = clock /\ php' = php
      /\ frames' = frames
  BY DEF RequestStart, Opened
<1>2. clean' => frames = <<>>
  BY Zenon DEF RequestStart, Opened
<1>3. clock \in Nat
  BY DEF IInv, TypeOK, Time
<1>4. /\ Good(Empty, Empty, <<>>, clock, clock)
      /\ IsFiniteSet(DOMAIN Empty) /\ SumOver(DOMAIN Empty, Calls(Empty)) = 0
  BY <1>3, EmptyIsGood
<1>5. CountInv'
  BY <1>1, <1>4 DEF CountInv, EveryCallIsCounted, NoRefusals
<1>6. SpansInv'
  <2>1. DOMAIN parents' = {}
    BY <1>1
  <2>2. clean' => DOMAIN frames' = {}
    BY <1>1, <1>2
  <2>3. Ascending(parents')
    BY <2>1 DEF Ascending
  <2>4. clean' => SameStarts(parents', frames')
    BY <2>1, <2>2 DEF SameStarts, HasSpan, Emits
  <2>5. QED
    BY <2>1, <2>3, <2>4 DEF SpansInv, Window
<1>7. clean' => Good(table', edges', frames', since', clock')
  BY <1>1, <1>2, <1>4
<1>8. QED
  BY <1>1, <1>5, <1>6, <1>7 DEF WindowInv, Window

\* A request that is closed has neither window nor span ids.
LEMMA ClosedKeepsWindow ==
    ASSUME Closed, Ascending(php')
    PROVE  WindowInv'
<1>1. open' = 0 /\ parents' = <<>>
  BY DEF Closed
<1>2. SpansInv'
  BY <1>1 DEF SpansInv, Window
<1>3. QED
  BY <1>1, <1>2 DEF WindowInv, CountInv, Window

\* The time of a frame goes to the frame below it, and to no other.
LEMMA HandedUpFields ==
    ASSUME NEW s \in Seq(Frame), NEW n, n = Len(s), NEW frame, NEW duration \in Nat,
           NEW up, up = HandedUp(s, frame, duration), NEW i \in 1 .. n
    PROVE  /\ up[i].counted <=> s[i].counted
           /\ up[i].emits <=> s[i].emits
           /\ i < n => up[i].child = s[i].child
           /\ i = n => up[i].child = s[i].child + duration
<1>1. s # <<>> /\ n \in Nat /\ n \in 1 .. n /\ s[n] \in Frame
  BY EmptySeq
<1>2. up = [s EXCEPT ![n].child = @ + duration]
  BY <1>1 DEF HandedUp
<1>3. PICK last : last = [s[n] EXCEPT !.child = @ + duration]
  OBVIOUS
<1>4. /\ last.counted <=> s[n].counted
      /\ last.emits <=> s[n].emits
      /\ last.child = s[n].child + duration
  BY <1>1, <1>3 DEF Frame
<1>5. up = [s EXCEPT ![n] = last]
  BY <1>2, <1>3
<1>6. up[n] = last /\ \A j \in 1 .. n : j # n => up[j] = s[j]
  BY <1>1, <1>5
<1>7. CASE i = n
  BY <1>4, <1>6, <1>7
<1>8. CASE i # n
  BY <1>1, <1>6, <1>8
<1>9. QED
  BY <1>7, <1>8

\* The stack before and after the end handler, field by field.
LEMMA Popped ==
    ASSUME TypeOK, Past, PopFrame, NEW n, n = Len(frames)
    PROVE  /\ n \in Nat /\ n > 0 /\ frames \in Seq(Frame)
           /\ frames' \in Seq(Frame) /\ Len(frames') = n - 1
           /\ frames[n] \in Frame /\ Top(frames) = frames[n]
           /\ n > 1 => Top(Pop(frames)) = frames[n - 1] /\ Pop(frames) # <<>>
           /\ ~(n > 1) => Pop(frames) = <<>>
           /\ \A i \in 1 .. n - 1 :
                 /\ frames'[i].start = frames[i].start /\ frames'[i].f = frames[i].f
                 /\ frames'[i].counted <=> frames[i].counted
                 /\ frames'[i].emits <=> frames[i].emits
                 /\ i < n - 1 => frames'[i].child = frames[i].child
                 /\ i = n - 1 => frames'[i].child
                                   = frames[i].child + Minus(clock, frames[n].start)
<1>1. frames # <<>> /\ frames \in Seq(Frame) /\ clock \in Nat
  BY DEF PopFrame, TypeOK, Time
<1>2. PICK below : below = Pop(frames)
  OBVIOUS
<1>3. /\ n \in Nat /\ n > 0 /\ below \in Seq(Frame) /\ Len(below) = n - 1
      /\ \A i \in 1 .. n - 1 : below[i] = frames[i]
      /\ Top(frames) = frames[n] /\ frames[n] \in Frame
  <2>1. /\ Pop(frames) \in Seq(Frame) /\ Len(frames) > 0
        /\ Len(Pop(frames)) = Len(frames) - 1
        /\ \A i \in 1 .. Len(frames) - 1 : Pop(frames)[i] = frames[i]
        /\ Top(frames) \in Frame
    BY <1>1, PopProperties
  <2>2. QED
    BY <1>1, <1>2, <2>1 DEF Top
<1>4. PICK duration : duration = Minus(clock, frames[n].start)
  OBVIOUS
<1>5. duration \in Nat
  <2>1. frames[n].start \in Nat
    BY <1>3, FrameTypes
  <2>2. QED
    BY <1>1, <1>4, <2>1 DEF Minus
<1>6. frames' = HandedUp(below, frames[n], duration)
  BY <1>2, <1>3, <1>4 DEF PopFrame
<1>7. /\ frames' \in Seq(Frame) /\ Len(frames') = n - 1
      /\ \A i \in 1 .. n - 1 : /\ frames'[i].start = frames[i].start
                               /\ frames'[i].f = frames[i].f
  BY <1>3, FramePopped
<1>8. ASSUME NEW i \in 1 .. n - 1
      PROVE  /\ frames'[i].counted <=> frames[i].counted
             /\ frames'[i].emits <=> frames[i].emits
             /\ i < n - 1 => frames'[i].child = frames[i].child
             /\ i = n - 1 => frames'[i].child = frames[i].child + duration
  <2>1. PICK up, m : up = frames' /\ m = n - 1
    OBVIOUS
  <2>2. m = Len(below) /\ i \in 1 .. m /\ up = HandedUp(below, frames[n], duration)
        /\ below[i] = frames[i]
    BY <1>3, <1>6, <2>1
  <2>3. /\ up[i].counted <=> below[i].counted
        /\ up[i].emits <=> below[i].emits
        /\ i < m => up[i].child = below[i].child
        /\ i = m => up[i].child = below[i].child + duration
    BY <1>3, <1>5, <2>2, HandedUpFields
  <2>4. QED
    BY <2>1, <2>2, <2>3
<1>9. n > 1 => Top(below) = frames[n - 1] /\ below # <<>>
  BY <1>3, EmptySeq DEF Top
<1>10. ~(n > 1) => below = <<>>
  BY <1>3, EmptySeq
<1>11. QED
  BY <1>1, <1>2, <1>3, <1>4, <1>7, <1>8, <1>9, <1>10

\* The end of a call takes its frame out of the window, or closes the request.
LEMMA PopKeepsWindow ==
    ASSUME IInv, WindowInv, End, PopFrame
    PROVE  WindowInv'
<1>1. Ascending(php')
  BY CallsStayAscending DEF WindowInv
<1>2. PICK n : n = Len(frames)
  OBVIOUS
<1>3. PICK frame : frame = frames[n]
  OBVIOUS
<1>4. /\ TypeOK /\ Past /\ TableOK(table) /\ EdgesOK(edges) /\ clock \in Nat
      /\ parents \in Seq(Parent) /\ clock' = clock + 1 /\ since' = since
      /\ clean' = clean /\ begun' = begun /\ since \in Nat
  BY DEF IInv, TypeOK, Time, End
<1>5. /\ n \in Nat /\ n > 0 /\ frames \in Seq(Frame)
      /\ frames' \in Seq(Frame) /\ Len(frames') = n - 1
      /\ frame \in Frame /\ Top(frames) = frame
      /\ n > 1 => Top(Pop(frames)) = frames[n - 1] /\ Pop(frames) # <<>>
      /\ ~(n > 1) => Pop(frames) = <<>>
  BY <1>2, <1>3, <1>4, Popped
<1>6. PICK duration : duration = Minus(clock, frame.start)
  OBVIOUS
<1>7. \A i \in 1 .. n - 1 :
          /\ frames'[i].start = frames[i].start /\ frames'[i].f = frames[i].f
          /\ frames'[i].counted <=> frames[i].counted
          /\ frames'[i].emits <=> frames[i].emits
          /\ i < n - 1 => frames'[i].child = frames[i].child
          /\ i = n - 1 => frames'[i].child = frames[i].child + duration
  BY <1>2, <1>3, <1>4, <1>6, Popped
<1>8. CASE Closes(frame) /\ open # 0
  <2>1. Closed
    BY <1>5, <1>8 DEF PopFrame
  <2>2. QED
    BY <1>1, <2>1, ClosedKeepsWindow
<1>9. CASE ~(Closes(frame) /\ open # 0)
  <2>1. PICK edge, pair : /\ edge <=> open # 0 /\ frame.counted /\ Pop(frames) # <<>>
                          /\ pair = Pair(Top(Pop(frames)).f, frame.f)
    BY Zenon
  <2>2. /\ table' = OnLeave(table, frame, duration)
        /\ edges' = IF open # 0 /\ frame.counted /\ Pop(frames) # <<>>
                    THEN RecordEdge(edges, pair, duration) ELSE edges
        /\ refused'.functions = refused.functions
        /\ parents' = ParentsAfter(frame)
        /\ open' = open
    BY <1>4, <1>5, <1>6, <1>9, <2>1 DEF PopFrame, TypeOK
  <2>3. CountInv'
    <3>1. /\ DOMAIN table' = DOMAIN table
          /\ SumOver(DOMAIN table', Calls(table')) = SumOver(DOMAIN table, Calls(table))
      BY <1>4, <2>2, LeftCalls
    <3>2. QED
      BY <1>4, <2>2, <3>1 DEF WindowInv, CountInv, EveryCallIsCounted
  <2>4. PICK q : q = IF frame.emits /\ parents # <<>> /\ Top(parents).start = frame.start
                     THEN Pop(parents) ELSE parents
    OBVIOUS
  <2>5. parents' = q
    BY <2>2, <2>4 DEF ParentsAfter
  <2>6. \A i \in DOMAIN parents' : parents'[i].of = open'
    <3>1. \A i \in DOMAIN parents : parents[i].of = open
      BY DEF WindowInv, SpansInv
    <3>2. ASSUME parents # <<>> PROVE \A i \in DOMAIN Pop(parents) : Pop(parents)[i].of = open
      <4>1. PICK low : low = Pop(parents)
        OBVIOUS
      <4>2. /\ low \in Seq(Parent) /\ Len(low) = Len(parents) - 1
            /\ \A i \in 1 .. Len(parents) - 1 : low[i] = parents[i]
        BY <1>4, <3>2, <4>1, PopProperties
      <4>3. \A i \in DOMAIN low : i \in DOMAIN parents /\ low[i] = parents[i]
        BY <1>4, <4>2
      <4>4. QED
        BY <3>1, <4>1, <4>3
    <3>3. QED
      BY <2>2, <2>4, <2>5, <3>1, <3>2
  <2>7. ASSUME Window PROVE Ascending(parents') /\ SameStarts(parents', frames')
    <3>1. Ascending(parents) /\ SameStarts(parents, frames) /\ Ascending(frames)
      BY <2>7, FrameStarts DEF WindowInv, SpansInv
    <3>2. PICK r : r = frames'
      OBVIOUS
    <3>3. /\ r \in Seq(Frame) /\ Len(r) = n - 1
          /\ \A i \in 1 .. n - 1 : /\ r[i].start = frames[i].start
                                   /\ (r[i].emits <=> frames[i].emits)
      BY <1>5, <1>7, <3>2
    <3>4. Ascending(q) /\ SameStarts(q, r)
      BY SMTT(60), <1>2, <1>3, <1>4, <1>5, <2>4, <3>1, <3>3, SpansPopped
    <3>5. QED
      BY <2>5, <3>2, <3>4
  <2>8. SpansInv'
    BY <1>4, <2>2, <2>6, <2>7 DEF SpansInv, Window
  <2>9. ASSUME Window PROVE Good(table', edges', frames', since', clock')
    <3>1. Good(table, edges, frames, since, clock) /\ open # 0
      BY <2>9 DEF WindowInv, Window
    <3>2. frame.start \in Nat /\ frame.start < clock
      <4>1. n \in DOMAIN frames
        BY <1>2, <1>5
      <4>2. QED
        BY <1>3, <2>9, <4>1, FrameStarts DEF WindowInv
    <3>3. duration = clock - frame.start
      BY <1>4, <1>6, <3>2 DEF Minus
    <3>4. Leaving(table, table', frames, frames', n, clock)
      <4>1. /\ frame.counted /\ frame.f \in DOMAIN table =>
                 table' = [table EXCEPT ![frame.f] = Left(@, duration,
                                                          Minus(duration, frame.child))]
            /\ ~(frame.counted /\ frame.f \in DOMAIN table) => table' = table
        BY <2>2, <3>1 DEF OnLeave
      <4>2. \A i \in 1 .. n - 1 :
                /\ frames'[i].f = frames[i].f /\ frames'[i].start = frames[i].start
                /\ (frames'[i].counted <=> frames[i].counted)
                /\ i < n - 1 => frames'[i].child = frames[i].child
                /\ i = n - 1 => frames'[i].child = frames[i].child + (clock - frames[n].start)
        BY <1>3, <1>7, <3>3
      <4>3. QED
        BY <1>2, <1>3, <1>4, <1>5, <3>2, <3>3, <4>1, <4>2 DEF Leaving
    <3>5. EdgeWritten(edges, edges', frames, n, clock)
      <4>1. CASE frame.counted /\ n > 1
        <5>1. pair = <<frames[n - 1].f, frame.f>>
          BY <1>5, <2>1, <4>1 DEF Pair
        <5>2. edges' = RecordEdge(edges, pair, duration)
          BY <1>5, <2>2, <3>1, <4>1
        <5>3. QED
          BY <1>3, <3>3, <4>1, <5>1, <5>2 DEF EdgeWritten
      <4>2. CASE ~(frame.counted /\ n > 1)
        BY <1>3, <1>5, <2>2, <4>2 DEF EdgeWritten
      <4>3. QED
        BY <4>1, <4>2
    <3>6. PICK t, e, s : t = table' /\ e = edges' /\ s = frames'
      OBVIOUS
    <3>7. Leaving(table, t, frames, s, n, clock) /\ EdgeWritten(edges, e, frames, n, clock)
      BY <3>4, <3>5, <3>6
    <3>8. Good(t, e, s, since, clock + 1)
      BY <1>4, <3>1, <3>7, LeavingKeeps
    <3>9. QED
      BY <1>4, <3>6, <3>8
  <2>10. QED
    BY <1>1, <1>4, <2>2, <2>3, <2>8, <2>9 DEF WindowInv, Window
<1>10. QED
  BY <1>8, <1>9

\* Every step keeps the window.
LEMMA StepKeepsWindow ==
    ASSUME IInv, WindowInv, [Next]_vars
    PROVE  WindowInv'
<1>1. CASE \E f \in Function : Begin(f)
  <2>1. PICK f \in Function : Begin(f)
    BY <1>1
  <2>2. Deliver(f) \/ Observe(f) \/ Pass(f)
    BY <2>1 DEF Begin
  <2>3. QED
    BY <2>1, <2>2, DeliverKeepsWindow, ObserveKeepsWindow, PassKeepsWindow
<1>2. CASE End
  <2>1. PopFrame \/ NothingToPop
    BY <1>2 DEF End
  <2>2. QED
    BY <1>2, <2>1, PopKeepsWindow, NothingToPopKeepsWindow
<1>3. CASE RequestStart
  BY <1>3, StartKeepsWindow
<1>4. CASE RequestEnd
  <2>1. Closed /\ php' = php /\ Ascending(php)
    BY <1>4 DEF RequestEnd, WindowInv
  <2>2. QED
    BY <2>1, ClosedKeepsWindow
<1>5. CASE UNCHANGED vars
  BY <1>5 DEF WindowInv, SpansInv, CountInv, EveryCallIsCounted, Window, vars
<1>6. QED
  BY <1>1, <1>2, <1>3, <1>4, <1>5 DEF Next

\* In every reachable state the window is good, the span ids are those of the frames,
\* and every call is accounted for.
THEOREM WindowInvariance == Spec => []WindowInv
<1>1. Init => WindowInv
  <2>1. ASSUME Init PROVE DOMAIN php = {} /\ DOMAIN parents = {} /\ open = 0
    BY <2>1 DEF Init
  <2>2. QED
    BY <2>1 DEF WindowInv, SpansInv, CountInv, Window, Ascending
<1>2. IInv /\ WindowInv /\ [Next]_vars => WindowInv'
  BY StepKeepsWindow
<1>3. QED
  BY <1>1, <1>2, Invariance, PTL DEF Spec

\* The times of a counted profile are times of its window: self times add up to no more
\* than what has passed, inclusive time counts an instant once however deep a function
\* recurses, and the live depth says when to bank it (deterministic.rs).
THEOREM TimesAreOfTheWindow == Spec => []TimesFit
<1>1. IInv /\ WindowInv => TimesFit
  <2>1. SUFFICES ASSUME IInv, WindowInv, Window PROVE TimesFit
    BY DEF TimesFit, DepthIsTrue, SelfTimeFits, InclusiveTimeFits, SelfWithinInclusive
  <2>2. /\ Good(table, edges, frames, since, clock) /\ TableOK(table)
        /\ frames \in Seq(Frame) /\ since \in Nat /\ clock \in Nat /\ since <= clock
    BY <2>1 DEF WindowInv, IInv, Past, TypeOK, Time
  <2>3. \A f \in DOMAIN table : table[f].live = Cardinality(Frames(frames, f))
    BY <2>2 DEF Good, Depths
  <2>4. DepthIsTrue
    <3>1. \A f : Frames(frames, f)
                   = {i \in DOMAIN frames : frames[i].f = f /\ frames[i].counted}
      BY <2>2 DEF Frames
    <3>2. QED
      BY <2>3, <3>1 DEF DepthIsTrue
  <2>5. SelfTimeFits
    <3>1. PICK n, S, C : /\ n = Len(frames) /\ S = SumOver(DOMAIN table, Selves(table))
                         /\ C = SumOver(1 .. Len(frames), Children(frames))
      OBVIOUS
    <3>2. S \in Nat
      <4>1. IsFiniteSet(DOMAIN table) /\ \A f \in DOMAIN table : Selves(table)[f] \in Nat
        BY <2>2, RowsAre DEF Good, Finite
      <4>2. QED
        BY <3>1, <4>1, SumIsNat
    <3>3. S + since <= C + Oldest(frames, clock)
      BY <2>2, <3>1 DEF Good, SelfTimes
    <3>4. C + Oldest(frames, clock) <= clock /\ C \in Nat /\ Oldest(frames, clock) \in Nat
      <4>1. CASE n = 0
        <5>1. frames = <<>>
          BY <2>2, <3>1, <4>1, EmptySeq
        <5>2. frames = <<>> /\ 1 .. Len(frames) = {}
          BY <3>1, <4>1, <5>1
        <5>3. C = 0 /\ Oldest(frames, clock) = clock
          BY <3>1, <5>2, SumOfNothing DEF Oldest
        <5>4. QED
          BY <2>2, <5>3
      <4>2. CASE n # 0
        <5>1. n \in 1 .. Len(frames) /\ frames # <<>> /\ frames[1] \in Frame
          BY <2>2, <3>1, <4>2, EmptySeq
        <5>2. SumOver(1 .. n, Children(frames)) + frames[1].start <= Until(frames, n, clock)
          BY <2>2, <5>1 DEF Good, Stretches
        <5>3. Until(frames, n, clock) = clock /\ Oldest(frames, clock) = frames[1].start
          BY <3>1, <5>1 DEF Until, Oldest
        <5>4. C \in Nat
          <6>1. n \in Nat
            BY <2>2, <3>1
          <6>2. IsFiniteSet(1 .. n)
            BY <6>1, FS_Interval
          <6>3. \A i \in 1 .. n : Children(frames)[i] \in Nat
            BY <2>2, <3>1, ChildrenAre
          <6>4. SumOver(1 .. n, Children(frames)) \in Nat
            BY <6>2, <6>3, SumIsNat
          <6>5. QED
            BY <3>1, <6>4
        <5>5. frames[1].start \in Nat
          BY <5>1, FrameTypes
        <5>6. QED
          BY <3>1, <5>2, <5>3, <5>4, <5>5
      <4>3. QED
        BY <4>1, <4>2
    <3>5. PICK O : O = Oldest(frames, clock)
      OBVIOUS
    <3>6. S <= clock - since
      BY <2>2, <3>2, <3>3, <3>4, <3>5
    <3>7. QED
      BY <3>1, <3>6 DEF SelfTimeFits
  <2>6. InclusiveTimeFits
    <3>1. \A f \in DOMAIN table : /\ table[f].inclusive \in Nat
                                  /\ table[f].inclusive + since <= clock
      BY <2>2, RowsAre DEF Good, InclusiveTimes
    <3>2. QED
      BY <2>2, <3>1 DEF InclusiveTimeFits
  <2>7. SelfWithinInclusive
    <3>1. ASSUME NEW f \in DOMAIN table, table[f].live = 0
          PROVE  table[f].exclusive <= table[f].inclusive
      <4>1. Frames(frames, f) = {}
        <5>1. IsFiniteSet(Frames(frames, f)) /\ Cardinality(Frames(frames, f)) = 0
          BY <2>2, <2>3, <3>1, FramesFinite
        <5>2. QED
          BY <5>1, FS_EmptySet
      <4>2. QED
        BY <2>2, <4>1 DEF Good, SelfAndInclusive
    <3>2. QED
      BY <3>1 DEF SelfWithinInclusive
  <2>8. QED
    BY <2>4, <2>5, <2>6, <2>7 DEF TimesFit
<1>2. QED
  BY <1>1, Invariance, WindowInvariance, PTL

\* The counts of a counted profile account for every call, whatever the caps refuse: an
\* edge reports calls that have ended, and a call is in the table or was refused.
THEOREM CountsAccountForCalls == Spec => []CountsAgree
<1>1. IInv /\ WindowInv => CountsAgree
  <2>1. SUFFICES ASSUME IInv, WindowInv PROVE CountsAgree
    OBVIOUS
  <2>2. EveryCallIsCounted
    BY <2>1 DEF WindowInv, CountInv, EveryCallIsCounted
  <2>3. EdgesWithinCalls
    <3>1. SUFFICES ASSUME Window PROVE EdgesWithinCalls
      BY DEF EdgesWithinCalls
    <3>2. /\ Good(table, edges, frames, since, clock) /\ TableOK(table) /\ EdgesOK(edges)
      BY <2>1, <3>1 DEF WindowInv, IInv, TypeOK
    <3>3. ASSUME NEW f \in DOMAIN table
          PROVE  SumOver(Into(edges, f), Calls(edges)) <= table[f].calls - table[f].live
      <4>1. PICK S, c, l : /\ S = SumOver(Into(edges, f), Calls(edges))
                           /\ c = table[f].calls /\ l = table[f].live
        OBVIOUS
      <4>2. S \in Nat /\ c \in Nat /\ l \in Nat
        BY <3>2, <4>1, IntoIsNat, RowsAre DEF Good, Finite
      <4>3. S + l <= c
        BY <3>2, <4>1 DEF Good, EdgeCalls
      <4>4. S <= c - l
        BY <4>2, <4>3
      <4>5. QED
        BY <4>1, <4>4
    <3>4. QED
      BY <3>3 DEF EdgesWithinCalls
  <2>4. QED
    BY <2>2, <2>3 DEF CountsAgree
<1>2. QED
  BY <1>1, Invariance, WindowInvariance, PTL

\* A span is put under a span of its own request, and the stack of span ids is that of
\* the frames that emit one (on_begin, on_end).
THEOREM SpansNestInWindow == Spec => []SpansNest
<1>1. WindowInv => SpansNest
  <2>1. SUFFICES ASSUME WindowInv PROVE SpansNest
    OBVIOUS
  <2>2. \A i \in DOMAIN parents : parents[i].of = open
    BY <2>1 DEF WindowInv, SpansInv
  <2>3. ASSUME Window
        PROVE  {parents[i].start : i \in DOMAIN parents}
                 = {frames[i].start : i \in {j \in DOMAIN frames : frames[j].emits}}
    <3>1. \A x : HasSpan(parents, x) <=> Emits(frames, x)
      BY <2>1, <2>3 DEF WindowInv, SpansInv, SameStarts
    <3>2. \A x : x \in {parents[i].start : i \in DOMAIN parents} <=> HasSpan(parents, x)
      BY DEF HasSpan
    <3>3. \A x : x \in {frames[i].start : i \in {j \in DOMAIN frames : frames[j].emits}}
                   <=> Emits(frames, x)
      BY DEF Emits
    <3>4. QED
      BY <3>1, <3>2, <3>3
  <2>4. QED
    BY <2>2, <2>3 DEF SpansNest
<1>2. QED
  BY <1>1, WindowInvariance, PTL
-----------------------------------------------------------------------------
(* The calls inside a request have its last frames, in any window.         *)

\* A call that begins inside the request is last on both stacks.
LEMMA ObserveKeepsInside ==
    ASSUME IInv, FramesAreOfRequests, InsidePaired, NEW f \in Function, Begin(f), Observe(f)
    PROVE  FramesAreOfRequests' /\ InsidePaired'
<1>1. TypeOK /\ Past /\ open \in Nat /\ started \in Nat /\ open <= started /\ TableOK(table)
      /\ clock \in Nat /\ since \in Nat /\ since <= clock
  BY DEF IInv, TypeOK, Past, Time
<1>2. /\ Len(frames') = Len(frames) + 1 /\ Len(frames) \in Nat
      /\ frames' \in Seq(Frame)
      /\ \A i \in 1 .. Len(frames) : frames'[i] = frames[i]
      /\ frames'[Len(frames) + 1].start = clock /\ frames'[Len(frames) + 1].of = open
  <2>1. PushFrame(f, open, FALSE, table)
    BY DEF Observe
  <2>2. /\ Len(frames') = Len(frames) + 1 /\ frames' \in Seq(Frame)
        /\ \A i \in 1 .. Len(frames) : frames'[i] = frames[i]
        /\ frames'[Len(frames) + 1].start = clock /\ frames'[Len(frames) + 1].of = open
    BY <1>1, <2>1, PushTyped
  <2>3. Len(frames) \in Nat
    BY <1>1 DEF TypeOK
  <2>4. QED
    BY <2>2, <2>3
<1>3. /\ Len(php') = Len(php) + 1 /\ Len(php) \in Nat /\ php' \in Seq(Call)
      /\ \A i \in 1 .. Len(php) : php'[i] = php[i]
      /\ php'[Len(php) + 1].start = clock
  BY <1>1, CallBegins DEF TypeOK
<1>4. UNCHANGED <<started, open, since>> /\ open # 0
  BY DEF Observe
<1>5. FramesAreOfRequests'
  BY <1>1, <1>2, <1>4 DEF FramesAreOfRequests, TypeOK
<1>6. ASSUME NEW j \in DOMAIN php', php'[j].start >= since'
      PROVE  LET i == Len(frames') - (Len(php') - j)
             IN  i > 0 /\ frames'[i].start = php'[j].start /\ frames'[i].of = open'
  <2>1. CASE j = Len(php) + 1
    BY <1>1, <1>2, <1>3, <1>4, <2>1
  <2>2. CASE j \in 1 .. Len(php)
    <3>1. PICK i : i = Len(frames) - (Len(php) - j)
      OBVIOUS
    <3>2. j \in DOMAIN php /\ php[j].start >= since
      BY <1>1, <1>3, <1>4, <1>6, <2>2 DEF TypeOK
    <3>3. i > 0 /\ frames[i].start = php[j].start /\ frames[i].of = open
      BY <1>4, <3>1, <3>2 DEF InsidePaired
    <3>4. i \in 1 .. Len(frames) /\ i = Len(frames') - (Len(php') - j)
      BY <1>2, <1>3, <2>2, <3>1, <3>3
    <3>5. QED
      BY <1>2, <1>3, <1>4, <2>2, <3>3, <3>4
  <2>3. QED
    BY <1>3, <2>1, <2>2
<1>7. ASSUME NEW i \in DOMAIN frames', frames'[i].of = open'
      PROVE  LET j == Len(php') - (Len(frames') - i)
             IN  j > 0 /\ php'[j].start = frames'[i].start
  <2>1. CASE i = Len(frames) + 1
    BY <1>1, <1>2, <1>3, <1>4, <2>1
  <2>2. CASE i \in 1 .. Len(frames)
    <3>1. PICK j : j = Len(php) - (Len(frames) - i)
      OBVIOUS
    <3>2. i \in DOMAIN frames /\ frames[i].of = open
      BY <1>1, <1>2, <1>4, <1>7, <2>2 DEF TypeOK
    <3>3. j > 0 /\ php[j].start = frames[i].start
      BY <1>4, <3>1, <3>2 DEF InsidePaired
    <3>4. j \in 1 .. Len(php) /\ j = Len(php') - (Len(frames') - i)
      BY <1>2, <1>3, <2>2, <3>1, <3>3
    <3>5. QED
      BY <1>2, <1>3, <1>4, <2>2, <3>3, <3>4
  <2>3. QED
    BY <1>2, <2>1, <2>2
<1>8. QED
  BY <1>5, <1>6, <1>7 DEF InsidePaired

\* A delivery is the first call of the request it opens, with the first of its frames.
LEMMA DeliverKeepsInside ==
    ASSUME IInv, FramesAreOfRequests, NEW f \in Function, Begin(f), Deliver(f)
    PROVE  FramesAreOfRequests' /\ InsidePaired'
<1>1. TypeOK /\ Past /\ started \in Nat /\ clock \in Nat /\ TableOK(Empty)
  BY DEF IInv, TypeOK, Time, TableOK, Empty
<1>2. open' = started + 1 /\ started' = started + 1 /\ since' = clock
  BY DEF Deliver, Opened
<1>3. /\ Len(frames') = Len(frames) + 1 /\ Len(frames) \in Nat
      /\ frames' \in Seq(Frame) /\ frames \in Seq(Frame)
      /\ \A i \in 1 .. Len(frames) : frames'[i] = frames[i]
      /\ frames'[Len(frames) + 1].start = clock /\ frames'[Len(frames) + 1].of = started + 1
  <2>1. started + 1 \in Nat
    BY <1>1
  <2>2. PushFrame(f, started + 1, TRUE, Empty)
    BY DEF Deliver
  <2>3. /\ Len(frames') = Len(frames) + 1 /\ frames' \in Seq(Frame)
        /\ \A i \in 1 .. Len(frames) : frames'[i] = frames[i]
        /\ frames'[Len(frames) + 1].start = clock
        /\ frames'[Len(frames) + 1].of = started + 1
    BY <1>1, <2>1, <2>2, PushTyped
  <2>4. frames \in Seq(Frame) /\ Len(frames) \in Nat
    BY <1>1 DEF TypeOK
  <2>5. QED
    BY <2>3, <2>4
<1>4. /\ Len(php') = Len(php) + 1 /\ Len(php) \in Nat /\ php' \in Seq(Call)
      /\ \A i \in 1 .. Len(php) : php'[i] = php[i] /\ php'[i].start < clock
      /\ php'[Len(php) + 1].start = clock
  BY <1>1, CallBegins DEF TypeOK, Past
<1>5. ASSUME NEW i \in 1 .. Len(frames)
      PROVE  frames'[i].of \in Nat /\ frames'[i].of <= started
  <2>1. frames[i] \in Frame /\ i \in DOMAIN frames
    BY <1>3
  <2>2. frames[i].of \in Nat
    BY <2>1, FrameTypes
  <2>3. QED
    BY <1>3, <2>1, <2>2 DEF FramesAreOfRequests
<1>6. FramesAreOfRequests'
  BY <1>1, <1>2, <1>3, <1>5 DEF FramesAreOfRequests
<1>7. \A j \in DOMAIN php' : php'[j].start >= since' => j = Len(php) + 1
  <2>1. ASSUME NEW j \in DOMAIN php', php'[j].start >= since' PROVE j = Len(php) + 1
    <3>1. php'[j] \in Call
      BY <1>4
    <3>2. php'[j].start \in Nat
      BY <3>1 DEF Call, Time
    <3>3. QED
      BY <1>1, <1>2, <1>4, <2>1, <3>2
  <2>2. QED
    BY <2>1
<1>8. \A i \in DOMAIN frames' : frames'[i].of = open' => i = Len(frames) + 1
  BY <1>1, <1>2, <1>3, <1>5
<1>9. QED
  BY <1>1, <1>2, <1>3, <1>4, <1>6, <1>7, <1>8 DEF InsidePaired

\* A request that is opened by nobody's call has no call inside it yet.
LEMMA StartKeepsInside ==
    ASSUME IInv, FramesAreOfRequests, RequestStart
    PROVE  FramesAreOfRequests' /\ InsidePaired'
<1>1. /\ started' = started + 1 /\ open' = started + 1 /\ since' = clock
      /\ UNCHANGED <<php, frames>> /\ started \in Nat /\ clock \in Nat
      /\ frames \in Seq(Frame) /\ php \in Seq(Call)
  BY DEF IInv, TypeOK, Time, RequestStart, Opened
<1>2. ASSUME NEW i \in DOMAIN frames
      PROVE  frames[i].of \in Nat /\ frames[i].of <= started
  <2>1. frames[i] \in Frame
    BY <1>1
  <2>2. QED
    BY <2>1, FrameTypes DEF FramesAreOfRequests
<1>3. ASSUME NEW j \in DOMAIN php
      PROVE  php[j].start \in Nat /\ php[j].start < clock
  <2>1. php[j] \in Call
    BY <1>1
  <2>2. php[j].start \in Nat
    BY <2>1 DEF Call, Time
  <2>3. QED
    BY <2>2 DEF IInv, Past
<1>4. FramesAreOfRequests'
  BY <1>1, <1>2 DEF FramesAreOfRequests
<1>5. \A i \in DOMAIN frames' : frames'[i].of # open'
  BY <1>1, <1>2
<1>6. \A j \in DOMAIN php' : ~(php'[j].start >= since')
  BY <1>1, <1>3
<1>7. QED
  BY <1>4, <1>5, <1>6 DEF InsidePaired

\* The end of a call takes the last entry off both stacks.
LEMMA PopKeepsInside ==
    ASSUME IInv, FramesAreOfRequests, InsidePaired, End, PopFrame
    PROVE  FramesAreOfRequests' /\ InsidePaired'
<1>1. TypeOK /\ Past /\ started' = started /\ since' = since
  BY DEF IInv, End
<1>2. /\ Len(frames') = Len(frames) - 1 /\ Len(frames) \in Nat
      /\ frames' \in Seq(Frame) /\ frames \in Seq(Frame)
      /\ \A i \in 1 .. Len(frames) - 1 : /\ frames'[i].start = frames[i].start
                                         /\ frames'[i].of = frames[i].of
      /\ Top(frames) \in Frame
  BY <1>1, FramePopped DEF TypeOK
<1>3. /\ Len(php') = Len(php) - 1 /\ Len(php) \in Nat /\ php' \in Seq(Call)
      /\ php \in Seq(Call)
      /\ \A i \in 1 .. Len(php) - 1 : php'[i] = php[i]
  <2>1. php \in Seq(Call)
    BY ONLY <1>1 DEF TypeOK
  <2>2. Len(php) \in Nat
    BY ONLY <2>1
  <2>3. QED
    BY <1>1, <2>1, <2>2, CallEnds
<1>4. open' = open \/ open' = 0
  BY <1>1, <1>2, PopTyped
<1>5. FramesAreOfRequests'
  BY <1>1, <1>2 DEF FramesAreOfRequests
<1>6. SUFFICES ASSUME open' # 0 PROVE InsidePaired'
  BY <1>5 DEF InsidePaired
<1>7. open' = open
  BY <1>4, <1>6
<1>8. ASSUME NEW j \in DOMAIN php', php'[j].start >= since'
      PROVE  LET i == Len(frames') - (Len(php') - j)
             IN  i > 0 /\ frames'[i].start = php'[j].start /\ frames'[i].of = open'
  <2>1. PICK i : i = Len(frames) - (Len(php) - j)
    OBVIOUS
  <2>2. j \in 1 .. Len(php) - 1 /\ j \in DOMAIN php /\ php[j].start >= since
    BY <1>1, <1>3, <1>8
  <2>3. i > 0 /\ frames[i].start = php[j].start /\ frames[i].of = open
    BY <1>6, <1>7, <2>1, <2>2 DEF InsidePaired
  <2>4. i \in 1 .. Len(frames) - 1 /\ i = Len(frames') - (Len(php') - j)
    BY <1>2, <1>3, <2>1, <2>2, <2>3
  <2>5. QED
    BY <1>2, <1>3, <1>7, <2>2, <2>3, <2>4
<1>9. ASSUME NEW i \in DOMAIN frames', frames'[i].of = open'
      PROVE  LET j == Len(php') - (Len(frames') - i)
             IN  j > 0 /\ php'[j].start = frames'[i].start
  <2>1. PICK j : j = Len(php) - (Len(frames) - i)
    OBVIOUS
  <2>2. i \in 1 .. Len(frames) - 1 /\ i \in DOMAIN frames /\ frames[i].of = open
    BY <1>2, <1>7, <1>9
  <2>3. j > 0 /\ php[j].start = frames[i].start
    BY <1>6, <1>7, <2>1, <2>2 DEF InsidePaired
  <2>4. j \in 1 .. Len(php) - 1 /\ j = Len(php') - (Len(frames') - i)
    BY <1>2, <1>3, <2>1, <2>2, <2>3
  <2>5. QED
    BY <1>2, <1>3, <2>2, <2>3, <2>4
<1>10. QED
  BY <1>5, <1>8, <1>9 DEF InsidePaired

\* With no frame left no call is inside the request.
LEMMA NothingToPopKeepsInside ==
    ASSUME IInv, FramesAreOfRequests, InsidePaired, End, NothingToPop
    PROVE  FramesAreOfRequests' /\ InsidePaired'
<1>1. TypeOK /\ Past /\ frames = <<>> /\ UNCHANGED <<frames, open, started, since>>
  BY DEF IInv, End, NothingToPop
<1>2. /\ Len(php') = Len(php) - 1 /\ Len(php) \in Nat /\ php' \in Seq(Call)
      /\ php \in Seq(Call)
      /\ \A i \in 1 .. Len(php) - 1 : php'[i] = php[i]
  <2>1. php \in Seq(Call)
    BY ONLY <1>1 DEF TypeOK
  <2>2. Len(php) \in Nat
    BY ONLY <2>1
  <2>3. QED
    BY <1>1, <2>1, <2>2, CallEnds
<1>3. Len(frames) = 0 /\ DOMAIN frames = {}
  BY <1>1
<1>4. ASSUME NEW j \in DOMAIN php', php'[j].start >= since', open # 0 PROVE FALSE
  <2>1. j \in 1 .. Len(php) - 1 /\ j \in DOMAIN php /\ php[j].start >= since
    BY <1>1, <1>2, <1>4
  <2>2. Len(frames) - (Len(php) - j) > 0
    BY <1>4, <2>1 DEF InsidePaired
  <2>3. QED
    BY <1>2, <1>3, <2>1, <2>2
<1>5. QED
  BY <1>1, <1>3, <1>4 DEF FramesAreOfRequests, InsidePaired

\* Every step keeps the calls of a request on its frames.
LEMMA StepKeepsInside ==
    ASSUME IInv, FramesAreOfRequests, InsidePaired, [Next]_vars
    PROVE  FramesAreOfRequests' /\ InsidePaired'
<1>1. CASE \E f \in Function : Begin(f)
  <2>1. PICK f \in Function : Begin(f)
    BY <1>1
  <2>2. CASE Pass(f)
    BY <2>2 DEF Pass, FramesAreOfRequests, InsidePaired
  <2>3. QED
    BY <2>1, <2>2, DeliverKeepsInside, ObserveKeepsInside DEF Begin
<1>2. CASE End
  BY <1>2, PopKeepsInside, NothingToPopKeepsInside DEF End
<1>3. CASE RequestStart
  BY <1>3, StartKeepsInside
<1>4. CASE RequestEnd
  BY <1>4 DEF RequestEnd, Closed, FramesAreOfRequests, InsidePaired
<1>5. CASE UNCHANGED vars
  BY <1>5 DEF vars, FramesAreOfRequests, InsidePaired
<1>6. QED
  BY <1>1, <1>2, <1>3, <1>4, <1>5 DEF Next

\* In every window, whatever frames it was opened on, the calls inside it have its frames.
THEOREM InsideInvariance == Spec => [](FramesAreOfRequests /\ InsidePaired)
<1>1. Init => FramesAreOfRequests /\ InsidePaired
  BY DEF Init, FramesAreOfRequests, InsidePaired
<1>2. IInv /\ (FramesAreOfRequests /\ InsidePaired) /\ [Next]_vars
        => (FramesAreOfRequests /\ InsidePaired)'
  BY StepKeepsInside
<1>3. QED
  BY <1>1, <1>2, Invariance, PTL DEF Spec

\* The request a delivery opened ends when that delivery's call does, and no call begun
\* inside a request ends it, whatever frames earlier requests left (observer.rs, the end
\* handler and close_messaging_delivery).
THEOREM DeliveriesEndTheirRequest == Spec => EndsWithItsOpener
<1>1. ASSUME IInv, WindowInv, InsidePaired, [Next]_vars, Len(php') < Len(php), open # 0
      PROVE  /\ OpenedIt(Top(php)) => open' = 0
             /\ open' = 0 => OpenedIt(Top(php)) \/ Top(php).start < since
  <2>1. TypeOK /\ Past /\ Ascending(php) /\ php \in Seq(Call) /\ frames \in Seq(Frame)
        /\ since \in Nat /\ Len(php) \in Nat /\ Len(frames) \in Nat
    BY <1>1 DEF IInv, WindowInv, TypeOK, Time
  <2>2. End
    <3>1. ~(\E f \in Function : Begin(f))
      <4>1. SUFFICES ASSUME NEW f \in Function, Begin(f) PROVE FALSE
        OBVIOUS
      <4>2. Len(php') = Len(php) + 1
        BY <2>1, <4>1, CallBegins
      <4>3. QED
        BY <1>1, <2>1, <4>2
    <3>2. php' # php
      BY <1>1, <2>1
    <3>3. ~RequestStart /\ ~RequestEnd /\ ~UNCHANGED vars
      BY <3>2 DEF RequestStart, RequestEnd, vars
    <3>4. QED
      BY <1>1, <3>1, <3>3 DEF Next
  <2>3. PICK n, m : n = Len(php) /\ m = Len(frames)
    OBVIOUS
  <2>4. n \in Nat /\ n > 0 /\ m \in Nat /\ n \in DOMAIN php /\ Top(php) = php[n]
        /\ php[n] \in Call /\ php[n].start \in Nat
    <3>1. n > 0
      BY <2>1, <2>2, <2>3, CallEnds
    <3>2. php[n] \in Call /\ n \in DOMAIN php
      BY <2>1, <2>3, <3>1
    <3>3. QED
      BY <2>1, <2>3, <3>1, <3>2 DEF Top, Call, Time
  <2>5. ASSUME OpenedIt(php[n]) PROVE open' = 0
    <3>1. PICK i \in DOMAIN frames : /\ frames[i].owns /\ frames[i].of = open
                                    /\ frames[i].start = php[n].start
      BY <2>5 DEF OpenedIt
    <3>2. PICK j : j = n - (m - i)
      OBVIOUS
    <3>3. j > 0 /\ php[j].start = php[n].start
      BY <1>1, <2>3, <3>1, <3>2 DEF InsidePaired
    <3>4. i \in 1 .. m
      BY <2>1, <2>3, <3>1
    <3>5. j \in DOMAIN php /\ j <= n
      BY <2>1, <2>3, <2>4, <3>2, <3>3, <3>4
    <3>6. ~(j < n)
      BY <2>1, <2>4, <3>3, <3>5 DEF Ascending
    <3>7. i = m /\ m > 0
      BY <2>1, <2>3, <2>4, <3>2, <3>4, <3>5, <3>6
    <3>8. Top(frames) = frames[i] /\ frames # <<>>
      BY <2>1, <2>3, <3>1, <3>7 DEF Top
    <3>9. PopFrame
      BY <2>2, <3>8 DEF End, NothingToPop
    <3>10. Closes(Top(frames)) /\ open # 0
      BY <1>1, <3>1, <3>8 DEF Closes
    <3>11. Closed
      BY <3>9, <3>10 DEF PopFrame
    <3>12. QED
      BY <3>11 DEF Closed
  <2>6. ASSUME open' = 0, ~(php[n].start < since) PROVE OpenedIt(php[n])
    <3>1. php[n].start >= since
      BY <2>1, <2>4, <2>6
    <3>2. m > 0 /\ frames[m].start = php[n].start /\ frames[m].of = open
      <4>1. m - (n - n) = m
        BY <2>4
      <4>2. QED
        BY <1>1, <2>3, <2>4, <3>1, <4>1 DEF InsidePaired
    <3>3. m \in DOMAIN frames /\ Top(frames) = frames[m]
      BY <2>1, <2>3, <3>2 DEF Top
    <3>4. PopFrame
      BY <1>1, <2>2, <2>6 DEF End, NothingToPop
    <3>5. Top(frames) \in Frame
      BY <2>1, <3>4, FramePopped
    <3>6. frames[m].owns
      BY <1>1, <2>1, <2>6, <3>3, <3>4, <3>5, PopTyped
    <3>7. QED
      BY <3>2, <3>3, <3>6 DEF OpenedIt
  <2>7. QED
    BY <2>4, <2>5, <2>6
<1>2. QED
  BY <1>1, Invariance, WindowInvariance, InsideInvariance, PTL DEF Spec, EndsWithItsOpener
=============================================================================
