------------------------- MODULE NativeSpansProofs -------------------------
(***************************************************************************)
(* What the observer promises holds for any functions, caps, messages and  *)
(* requests: its policies are current, the ids it hands out are recorded,  *)
(* its batch is bounded and the depth of the call path is the depth of the *)
(* calls.                                                                  *)
(***************************************************************************)
EXTENDS NativeSpansChecks, FiniteSetTheorems, SequenceTheorems, TLAPS

---------------------------------------------------------------------------
(* Policies *)

\* What the cache and the factory's answers must be for the policies to be current: an entry
\* of this generation is what would be computed now, and only what can never be
\* instrumented is ignored.
PolicyInv ==
  /\ generation \in Nat
  /\ DOMAIN cache = Manifest /\ DOMAIN verdict = Manifest
  /\ \A f \in Manifest : cache[f] # None =>
       /\ cache[f].generation \in Nat /\ cache[f].generation <= generation
       /\ cache[f].generation = generation => cache[f].policy = ObservePolicy(f)
  /\ \A f \in Manifest : verdict[f] \in {"unseen", "observed", "ignored"}
  /\ \A f \in Manifest : verdict[f] = "ignored" => ~Instrumentable(f)

\* A policy that is looked up is the one that would be computed.
LEMMA Current ==
  ASSUME PolicyInv, NEW f PROVE CachedPolicy(f) = ObservePolicy(f)
BY DEF PolicyInv, CachedPolicy

\* No policy is computed for a function only if no manifest can ever change that.
LEMMA IgnoredForGood ==
  ASSUME NEW f, ObservePolicy(f) = None PROVE ~Instrumentable(f)
BY NativeSpansConstants DEF ObservePolicy, Instrumentable, Policies

LEMMA Init_PolicyInv == ASSUME Init PROVE PolicyInv
BY DEF Init, PolicyInv
LEMMA Look_PolicyInv ==
  ASSUME PolicyInv, NEW f \in Functions, Look(f) PROVE PolicyInv'
<1>1. /\ settings' = settings /\ traced' = traced /\ generation' = generation
      /\ \A g : ObservePolicy(g)' = ObservePolicy(g) /\ Instrumentable(g)' = Instrumentable(g)
  BY DEF Look, ObservePolicy, Instrumentable, InTable, Unobservable
<1>2. DOMAIN cache' = Manifest /\ DOMAIN verdict' = Manifest
  BY DEF Look, PolicyInv
<1>3. ASSUME NEW g \in Manifest, cache'[g] # None
      PROVE  /\ cache'[g].generation \in Nat /\ cache'[g].generation <= generation
             /\ cache'[g].generation = generation => cache'[g].policy = ObservePolicy(g)
  <2>1. CASE cache'[g] = cache[g]
    BY <1>3, <2>1 DEF PolicyInv
  <2>2. CASE cache'[g] # cache[g]
    <3>1. f = g /\ cache'[g] = [generation |-> generation, policy |-> CachedPolicy(g)]
      BY <2>2 DEF Look, PolicyInv
    <3> QED
      BY <3>1, Current DEF PolicyInv
  <2> QED
    BY <2>1, <2>2
<1>4. ASSUME NEW g \in Manifest
      PROVE  /\ verdict'[g] \in {"unseen", "observed", "ignored"}
             /\ verdict'[g] = "ignored" => ~Instrumentable(g)
  <2>1. CASE verdict'[g] = verdict[g]
    BY <2>1 DEF PolicyInv
  <2>2. CASE verdict'[g] # verdict[g]
    <3>1. f = g /\ verdict'[g] = (IF ObservePolicy(g) = None THEN "ignored" ELSE "observed")
      BY <2>2 DEF Look, Factory, PolicyInv
    <3> QED
      BY <3>1, IgnoredForGood
  <2> QED
    BY <2>1, <2>2
<1> QED
  BY <1>1, <1>2, <1>3, <1>4 DEF PolicyInv

LEMMA TraceFunction_PolicyInv ==
  ASSUME PolicyInv, NEW f \in Manifest, TraceFunction(f) PROVE PolicyInv'
<1>1. /\ \A g : Instrumentable(g)' = Instrumentable(g)
      /\ UNCHANGED <<settings, verdict, cache>> /\ generation' = generation + 1
  BY DEF TraceFunction, Instrumentable, InTable, Unobservable
<1>2. \A g \in Manifest : cache'[g] # None =>
        /\ cache'[g].generation \in Nat /\ cache'[g].generation <= generation'
        /\ cache'[g].generation # generation'
  BY <1>1 DEF PolicyInv
<1> QED
  BY <1>1, <1>2 DEF PolicyInv

\* Every call looks first, and nothing but a call and the manifest touches a policy.
LEMMA Next_Policy ==
  ASSUME Next
  PROVE  \/ UNCHANGED policyVars
         \/ \E f \in Functions : Look(f)
         \/ \E f \in Manifest : TraceFunction(f)
BY DEF Next, CallIgnored, CallPlain, CallSpan, CallPublish, CallNatsSend, CallDeliver, End,
       RequestStart, RequestEnd, Enrich, SuppressNative, RecordSpan, NewMessage, policyVars

LEMMA Unchanged_PolicyInv ==
  ASSUME PolicyInv, UNCHANGED policyVars PROVE PolicyInv'
<1>1. \A g : ObservePolicy(g)' = ObservePolicy(g) /\ Instrumentable(g)' = Instrumentable(g)
  BY DEF policyVars, ObservePolicy, Instrumentable, InTable, Unobservable
<1> QED
  BY <1>1 DEF PolicyInv, policyVars

LEMMA PolicyStep == PolicyInv /\ [Next]_vars => PolicyInv'
<1>1. ASSUME PolicyInv, Next PROVE PolicyInv'
  BY <1>1, Next_Policy, Look_PolicyInv, TraceFunction_PolicyInv, Unchanged_PolicyInv
<1>2. ASSUME PolicyInv, UNCHANGED vars PROVE PolicyInv'
  BY <1>2, Unchanged_PolicyInv DEF vars
<1> QED
  BY <1>1, <1>2

LEMMA PolicyInvariance == Spec => []PolicyInv
BY Init_PolicyInv, PolicyStep, PTL DEF Spec

\* The policy the begin handler finds in its cache is the one it would compute, and a function
\* the manifest names after its first call is instrumented from then on.
THEOREM PoliciesAreCurrent == Spec => []VerdictIsCurrent
<1>1. PolicyInv => VerdictIsCurrent
  <2> SUFFICES ASSUME PolicyInv PROVE VerdictIsCurrent
    OBVIOUS
  <2>1. \A f : CachedPolicy(f) = ObservePolicy(f)
    BY Current
  <2>2. ASSUME NEW f \in traced, Instrumentable(f)
        PROVE  Factory(f) = "observed" /\ ObservePolicy(f) = "ManifestSpan"
    <3>1. ObservePolicy(f) = "ManifestSpan"
      BY <2>2 DEF ObservePolicy, Instrumentable
    <3>2. "ManifestSpan" # None
      BY NativeSpansConstants DEF Policies
    <3> QED
      BY <2>2, <3>1, <3>2 DEF Factory, PolicyInv
  <2> QED
    BY <2>1, <2>2 DEF VerdictIsCurrent
<1> QED
  BY <1>1, PolicyInvariance, PTL

---------------------------------------------------------------------------
(* What a step does to the frames *)

\* The calls whose ids go on the wire: no request ends while one of them is open.
Inner == {"publish", "natssend", "network"}

\* What the promises, the tree and the bodies read.
seenVars == <<context, started, frames, parents, spans, bodies, depth, armedUnder, minted,
              wire, shipped, lost>>

\* The innermost open span, or the span of the request.
Innermost == IF parents = <<>> THEN Root ELSE Top(parents)

\* A call without a span.
Pushes(f) ==
  /\ context # None
  /\ frames' = Append(frames, Plain(f)) /\ Enter(f)
  /\ UNCHANGED <<context, started, parents, spans, bodies, armedUnder, minted, wire, shipped,
                 lost>>

\* A call with a span, whose id may go on the wire.
Announced(f, frame) ==
  \/ UNCHANGED wire
  \/ \E publish \in BOOLEAN :
       /\ Table[f] \in Inner /\ frame.attributes /\ (publish => frame.bypass)
       /\ wire' = wire \cup {[id |-> Minted, sampled |-> context.sampled, publish |-> publish]}

PushesSpan(f, frame) ==
  /\ context # None /\ frame \in Frame
  /\ frame.f = f /\ frame.id = Minted /\ ~frame.owns
  /\ frame.bypass => Promising(f)
  /\ Table[f] \in {"publish", "natssend"} \/ ~frame.bypass
  /\ Announced(f, frame)
  /\ frame.attributes \/ Table[f] = "poll"
  /\ frame.parent = Innermost /\ parents' = Append(parents, Minted)
  /\ bodies' = IF frame.stored THEN bodies \cup {Minted} ELSE bodies
  /\ frames' = Append(frames, frame) /\ minted' = Minted /\ Enter(f)
  /\ UNCHANGED <<context, started, spans, armedUnder, shipped, lost>>

\* A request opens, by itself or with the delivery that owns it.
Opens ==
  /\ context = None /\ frames = <<>>
  /\ parents' = <<>> /\ spans' = {} /\ bodies' = {} /\ armedUnder' = 0
  /\ \E how \in Verdicts :
       /\ context' = how
       /\ \/ frames' = <<>> /\ depth' = 0
          \/ \E f \in Functions :
               /\ frames' = <<[Plain(f) EXCEPT !.owns = TRUE]>>
               /\ depth' = IF how.recorded /\ f \notin Internal THEN 1 ELSE 0
  /\ UNCHANGED <<minted, wire, shipped, lost>>

\* The whole of a request is sent and its frames are left to themselves.
Closes ==
  /\ \/ /\ frames' = frames
        /\ context # None
        /\ \A i \in 1..Len(frames) : ~frames[i].owns /\ Table[frames[i].f] \notin Inner
     \/ frames # <<>> /\ Top(frames).owns /\ frames' = Pop(frames)
  /\ Closed(frames')
  /\ UNCHANGED <<started, minted, wire>>

\* A call ends.
Pops(notable) ==
  /\ frames # <<>> /\ ~Top(frames).owns
  /\ Finished(Answered(Top(frames)), notable) /\ Leave(Top(frames).f)
  /\ OutlivedBy(Pop(frames))
  /\ parents' = IF parents # <<>> /\ Top(parents) = Top(frames).id THEN Pop(parents) ELSE parents
  /\ UNCHANGED <<context, started, bodies, minted, wire, shipped>>

Records ==
  /\ context # None /\ minted' = Minted
  /\ \/ \E s : /\ HasRoom(FALSE) /\ s.id = Minted /\ s.f = None
                /\ s.of = started /\ ~s.stored
                /\ spans' = spans \cup {s} /\ UNCHANGED lost
     \/ UNCHANGED spans /\ lost' = lost \cup {Minted}
  /\ UNCHANGED <<context, started, frames, parents, bodies, depth, armedUnder, wire, shipped>>

\* The recording is armed under the calls that are open.
Arms ==
  /\ context # None /\ context' # None /\ context'.sampled = context.sampled
  /\ depth' = 0 /\ armedUnder' = Len(frames)
  /\ UNCHANGED <<started, frames, parents, spans, bodies, minted, wire, shipped, lost>>

Seen ==
  \/ UNCHANGED seenVars
  \/ \E f \in Functions : Pushes(f) \/ \E frame \in Frame : PushesSpan(f, frame)
  \/ Opens \/ Closes \/ Records \/ Arms
  \/ \E notable \in BOOLEAN : Pops(notable)

LEMMA PassThrough_Seen ==
  ASSUME NEW f \in Functions, PassThrough(f),
         UNCHANGED <<context, started, wire, shipped, lost>>
  PROVE  Seen
BY DEF PassThrough, Push, Seen, Pushes, seenVars, frameVars

LEMMA OnBegin_Typed ==
  ASSUME TypeOK, NEW f \in Functions
  PROVE  /\ OnBegin(f) \in Frame /\ Plain(f) \in Frame
         /\ OnBegin(f).f = f /\ OnBegin(f).id = Minted /\ OnBegin(f).parent = Innermost
         /\ ~OnBegin(f).stored
         /\ ~OnBegin(f).owns /\ ~OnBegin(f).bypass /\ Minted \in Nat
<1>1. Minted \in Nat
  BY DEF TypeOK, Minted
<1>2. Innermost \in Nat
  BY DEF TypeOK, Innermost, Root, Top
<1> QED
  BY <1>1, <1>2 DEF OnBegin, Innermost, Plain, Frame

\* The publishes of the policy are those of the table.
LEMMA PublishTables ==
  ASSUME PolicyInv, NEW f \in Functions,
         Policy(f, TRUE) \in {"MessagingPublish", "MessagingNatsSend"}
  PROVE  Table[f] \in {"publish", "natssend"}
<1>1. ObservePolicy(f) \in {"MessagingPublish", "MessagingNatsSend"}
  BY Current, NativeSpansConstants DEF Policy, Policies
<1>2. InTable(f) /\ Named(Table[f]) \in {"MessagingPublish", "MessagingNatsSend"}
  BY <1>1, NativeSpansConstants DEF ObservePolicy, Policies
<1>3. Table[f] \in DOMAIN Brokers /\ Brokers[Table[f]] \in {"MessagingPublish", "MessagingNatsSend"}
  BY <1>2 DEF InTable, Named
<1> QED
  BY <1>3 DEF Brokers

LEMMA Publish_Seen ==
  ASSUME TypeOK, NEW f \in Functions,
         Table[f] \in {"publish", "natssend"}, UNCHANGED <<context, started>>,
         NEW o, NEW present, NEW written \in BOOLEAN, NEW large \in BOOLEAN,
         Publish(f, o, present, written, large)
  PROVE  Seen
<1>1. CASE context = None
  BY <1>1, PassThrough_Seen DEF Publish, wireVars
<1>2. CASE context # None
  <2>2. PICK stored \in BOOLEAN : stored = Marked(large)
    BY DEF Marked, Stores
  <2>0. PICK frame : frame = [OnBegin(f) EXCEPT !.attributes = TRUE, !.bypass = written,
                                               !.stored = stored]
    OBVIOUS
  <2>1. PublishSpan(f, o, present, written, large) /\ CanWrite(f, written)
    BY <1>2 DEF Publish
  <2>3. /\ frame \in Frame /\ frame.f = f /\ frame.id = Minted /\ ~frame.owns
        /\ frame.attributes /\ frame.bypass = written
        /\ frame.parent = Innermost /\ frame.stored = stored
    <3>1. PICK begun \in Frame :
            /\ begun = OnBegin(f) /\ begun.f = f /\ begun.id = Minted /\ ~begun.owns
            /\ begun.parent = Innermost
      BY OnBegin_Typed
    <3>2. frame = [begun EXCEPT !.attributes = TRUE, !.bypass = written, !.stored = stored]
      BY <2>0, <3>1
    <3> QED
      BY <2>2, <3>1, <3>2 DEF Frame
  <2>4. written => Promising(f)
    BY <2>1, NativeSpansConstants DEF CanWrite, Promising
  <2>5. frames' = Append(frames, frame)
    BY <2>0, <2>1, <2>2 DEF PublishSpan, Push, Bypass
  <2>6. /\ minted' = Minted /\ Enter(f) /\ UNCHANGED <<spans, armedUnder, shipped, lost>>
        /\ parents' = Append(parents, Minted)
    BY <2>1 DEF PublishSpan
  <2>a. bodies' = IF stored THEN bodies \cup {Minted} ELSE bodies
    BY <2>1, <2>2 DEF PublishSpan, Marked
  <2>7. wire' = Announces(present, written)
    BY <2>1 DEF PublishSpan
  <2>8. Announced(f, frame)
    <3>1. CASE wire' = wire
      BY <3>1 DEF Announced
    <3>2. CASE wire' # wire
      <4>1. /\ written
            /\ wire' = wire \cup {[id |-> Minted, sampled |-> context.sampled, publish |-> TRUE]}
        BY <2>7, <3>2 DEF Announces
      <4> QED
        BY <2>3, <4>1 DEF Announced, Inner
    <3> QED
      BY <3>1, <3>2
  <2>9. PushesSpan(f, frame)
    BY <1>2, <2>3, <2>4, <2>5, <2>6, <2>8, <2>a DEF PushesSpan
  <2> QED
    BY <2>3, <2>9 DEF Seen
<1> QED
  BY <1>1, <1>2

LEMMA CallPublish_Seen ==
  ASSUME PolicyInv, TypeOK, NEW f \in Functions, CallPublish(f) \/ CallNatsSend(f)
  PROVE  Seen
<1>1. /\ UNCHANGED <<context, started>>
      /\ Policy(f, TRUE) \in {"MessagingPublish", "MessagingNatsSend"}
  BY DEF CallPublish, CallNatsSend, requestVars
<1>2. Table[f] \in {"publish", "natssend"}
  BY <1>1, PublishTables
<1>3. \/ PassThrough(f) /\ UNCHANGED wireVars
      \/ \E o, present : \E written, large \in BOOLEAN : Publish(f, o, present, written, large)
  BY DEF CallPublish, CallNatsSend, PublishArray, PublishAmqplib, PublishNats
<1>4. CASE PassThrough(f) /\ UNCHANGED wireVars
  BY <1>1, <1>4, PassThrough_Seen DEF wireVars
<1> QED
  BY <1>1, <1>2, <1>3, <1>4, Publish_Seen

\* A transfer is no poll.
LEMMA NetworkIsNoPoll ==
  ASSUME PolicyInv, NEW f \in Functions, Table[f] = "network"
  PROVE  Policy(f, TRUE) # "MessagingPoll"
<1>1. InTable(f)
  BY DEF InTable, SideChannels, IoTables, MessagingTables, Brokers
<1>2. ObservePolicy(f) = "IoSpan"
  BY <1>1 DEF ObservePolicy, Named, SideChannels, IoTables
<1> QED
  BY <1>2, Current, NativeSpansConstants DEF Policy, Policies

\* The polls of the policy are those of the table.
LEMMA PollTables ==
  ASSUME PolicyInv, NEW f \in Functions, Policy(f, TRUE) = "MessagingPoll"
  PROVE  Table[f] = "poll"
<1>1. ObservePolicy(f) = "MessagingPoll"
  BY Current, NativeSpansConstants DEF Policy, Policies
<1>2. InTable(f) /\ Named(Table[f]) = "MessagingPoll"
  BY <1>1, NativeSpansConstants DEF ObservePolicy, Policies
<1>3. Table[f] \in DOMAIN Brokers /\ Brokers[Table[f]] = "MessagingPoll"
  BY <1>2 DEF InTable, Named
<1> QED
  BY <1>3 DEF Brokers

LEMMA CallSpan_Seen ==
  ASSUME PolicyInv, TypeOK, NEW f \in Functions, CallSpan(f)
  PROVE  Seen
<1>1. CASE context = None
  BY <1>1 DEF CallSpan, Seen, seenVars, frameVars, requestVars
<1>2. CASE context # None
  <2>0. PICK polls \in BOOLEAN : polls = (Policy(f, TRUE) # "MessagingPoll")
    OBVIOUS
  <2>b. PICK frame : frame = [OnBegin(f) EXCEPT !.attributes = polls]
    OBVIOUS
  <2>1. /\ frames' = Append(frames, frame) /\ minted' = Minted /\ Enter(f)
        /\ parents' = Append(parents, Minted)
        /\ UNCHANGED <<context, started, spans, bodies, armedUnder, shipped, lost>>
    BY <1>2, <2>0, <2>b DEF CallSpan, Push, requestVars
  <2>2. wire' = IF Table[f] # "network" THEN wire
                ELSE wire \cup {[id |-> Minted, sampled |-> context.sampled, publish |-> FALSE]}
    BY <1>2 DEF CallSpan
  <2>3. frame \in Frame /\ frame.f = f /\ frame.id = Minted /\ ~frame.owns /\ ~frame.bypass
        /\ frame.attributes = polls /\ frame.parent = Innermost /\ ~frame.stored
    <3>1. /\ OnBegin(f) \in Frame /\ OnBegin(f).f = f /\ OnBegin(f).id = Minted
          /\ ~OnBegin(f).owns /\ ~OnBegin(f).bypass
          /\ OnBegin(f).parent = Innermost /\ ~OnBegin(f).stored
      BY OnBegin_Typed
    <3>2. PICK begun \in Frame : begun = OnBegin(f)
      BY <3>1
    <3>3. /\ begun.f = f /\ begun.id = Minted /\ ~begun.owns /\ ~begun.bypass
          /\ begun.parent = Innermost /\ ~begun.stored
      BY <3>1, <3>2
    <3>4. frame = [begun EXCEPT !.attributes = polls]
      BY <2>b, <3>2
    <3> QED
      BY <3>3, <3>4 DEF Frame
  <2>4. Table[f] = "network" => polls
    BY <2>0, NetworkIsNoPoll
  <2>c. frame.attributes \/ Table[f] = "poll"
    BY <2>0, <2>3, PollTables
  <2>5. Announced(f, frame)
    <3>1. CASE wire' = wire
      BY <3>1 DEF Announced
    <3>2. CASE wire' # wire
      <4>1. frame.attributes /\ Table[f] = "network"
        BY <2>2, <2>3, <2>4, <3>2
      <4>2. wire' = wire \cup {[id |-> Minted, sampled |-> context.sampled, publish |-> FALSE]}
        BY <2>2, <3>2
      <4> QED
        BY <4>1, <4>2 DEF Announced, Inner
    <3> QED
      BY <3>1, <3>2
  <2>6. PushesSpan(f, frame)
    BY <1>2, <2>1, <2>3, <2>5, <2>c DEF PushesSpan
  <2> QED
    BY <2>3, <2>6 DEF Seen
<1> QED
  BY <1>1, <1>2

LEMMA CallPlain_Seen ==
  ASSUME NEW f \in Functions, CallPlain(f) PROVE Seen
BY PassThrough_Seen DEF CallPlain, requestVars, wireVars

LEMMA CallDeliver_Seen ==
  ASSUME NEW f \in Functions, CallDeliver(f) PROVE Seen
<1>1. UNCHANGED <<wire, shipped, lost>>
  BY DEF CallDeliver, wireVars
<1>2. CASE PassThrough(f) /\ UNCHANGED requestVars
  BY <1>1, <1>2, PassThrough_Seen DEF requestVars
<1>3. CASE ~(PassThrough(f) /\ UNCHANGED requestVars)
  <2>1. PICK how \in Verdicts :
          /\ context' = how /\ parents' = <<>> /\ spans' = {} /\ bodies' = {} /\ armedUnder' = 0
          /\ depth' = IF how.recorded /\ f \notin Internal THEN 1 ELSE 0
    BY <1>3 DEF CallDeliver, Opened
  <2>2. /\ context = None /\ frames = <<>> /\ UNCHANGED minted
        /\ frames' = Append(frames, [Plain(f) EXCEPT !.owns = TRUE])
    BY <1>3 DEF CallDeliver, Push
  <2>3. frames' = <<[Plain(f) EXCEPT !.owns = TRUE]>>
    BY <2>2
  <2> QED
    BY <1>1, <2>1, <2>2, <2>3 DEF Seen, Opens
<1> QED
  BY <1>2, <1>3

LEMMA RequestStart_Seen ==
  ASSUME NEW how \in Verdicts, RequestStart(how) PROVE Seen
BY DEF RequestStart, Opened, Seen, Opens, wireVars

LEMMA RequestEnd_Seen ==
  ASSUME RequestEnd PROVE Seen
BY DEF RequestEnd, Seen, Closes, Inner

LEMMA End_Seen ==
  ASSUME TypeOK, NEW notable \in BOOLEAN, End(notable) PROVE Seen
<1>0. frames # <<>> /\ Top(frames) \in Frame
  BY DEF End, TypeOK, Top
<1>1. /\ Answered(Top(frames)).owns = Top(frames).owns
      /\ Answered(Top(frames)).f = Top(frames).f /\ Answered(Top(frames)).id = Top(frames).id
  BY <1>0 DEF Answered, Frame
<1>2. CASE Top(frames).owns
  BY <1>0, <1>1, <1>2 DEF End, Seen, Closes
<1>3. CASE ~Top(frames).owns
  <2>1. /\ parents' = IF parents # <<>> /\ Top(parents) = Top(frames).id
                      THEN Pop(parents) ELSE parents
        /\ OutlivedBy(Pop(frames))
        /\ UNCHANGED <<context, started, bodies, minted, wire, shipped>>
    BY <1>1, <1>3 DEF End, requestVars
  <2>2. Finished(Answered(Top(frames)), notable) /\ Leave(Top(frames).f)
    BY <1>1, <1>3 DEF End
  <2>3. Pops(notable)
    BY <1>0, <1>3, <2>1, <2>2 DEF Pops
  <2> QED
    BY <2>3 DEF Seen
<1> QED
  BY <1>2, <1>3

LEMMA Enrich_Seen ==
  ASSUME TypeOK, Enrich PROVE Seen
<1>1. PICK how \in [sampled : BOOLEAN, recorded : BOOLEAN] : how = context
  BY DEF TypeOK, Enrich
<1>2. PICK armed : armed = [how EXCEPT !.recorded = TRUE]
  OBVIOUS
<1>3. armed \in [sampled : BOOLEAN, recorded : BOOLEAN] /\ armed.sampled = how.sampled
  BY <1>2
<1>4. context' = armed
  BY <1>1, <1>2 DEF Enrich
<1>5. armed # None
  BY <1>3, NativeSpansConstants
<1>6. context' # None /\ context'.sampled = context.sampled
  BY <1>1, <1>3, <1>4, <1>5
<1> QED
  BY <1>6 DEF Enrich, Seen, Arms, wireVars

LEMMA RecordSpan_Seen ==
  ASSUME RecordSpan PROVE Seen
<1>1. CASE HasRoom(FALSE)
  <2>1. PICK s : s = [id |-> Minted, parent |-> None, of |-> started, f |-> None, stored |-> FALSE]
    OBVIOUS
  <2>2. /\ s.id = Minted /\ s.f = None /\ s.of = started /\ ~s.stored
        /\ spans' = spans \cup {s} /\ UNCHANGED lost
    BY <1>1, <2>1 DEF RecordSpan
  <2> QED
    BY <1>1, <2>2 DEF RecordSpan, Seen, Records, requestVars
<1>2. CASE ~HasRoom(FALSE)
  BY <1>2 DEF RecordSpan, Seen, Records, requestVars
<1> QED
  BY <1>1, <1>2

\* Every step is one of these as far as frames, spans and promises go.
LEMMA Next_Seen ==
  ASSUME PolicyInv, TypeOK, Next PROVE Seen
<1>1. ASSUME NEW f \in Functions, CallIgnored(f) PROVE Seen
  BY <1>1 DEF CallIgnored, Seen, seenVars, requestVars, frameVars, wireVars
<1>2. ASSUME NEW f \in Manifest, TraceFunction(f) PROVE Seen
  BY <1>2 DEF TraceFunction, Seen, seenVars, requestVars, frameVars, wireVars
<1>3. ASSUME NEW kind \in Kinds, SuppressNative(kind) PROVE Seen
  BY <1>3 DEF SuppressNative, Seen, seenVars, frameVars, wireVars
<1>4. ASSUME NEW o \in Messages, NewMessage(o) PROVE Seen
  BY <1>4 DEF NewMessage, Seen, seenVars, frameVars, requestVars
<1> QED
  BY <1>1, <1>2, <1>3, <1>4, CallPlain_Seen, CallSpan_Seen, CallPublish_Seen, CallDeliver_Seen,
     End_Seen, RequestStart_Seen, RequestEnd_Seen, RecordSpan_Seen, Enrich_Seen DEF Next

---------------------------------------------------------------------------
(* The stack of frames under these steps *)

LEMMA Pushed ==
  ASSUME TypeOK, NEW frame \in Frame, frames' = Append(frames, frame)
  PROVE  /\ frames' \in Seq(Frame) /\ Len(frames) \in Nat
         /\ Len(frames') = Len(frames) + 1 /\ frames'[Len(frames) + 1] = frame
         /\ \A i \in 1..Len(frames) : frames'[i] = frames[i]
BY DEF TypeOK

\* What a kept child leaves as it is in the frame below.
Alike(a, b) ==
  /\ a.f = b.f /\ a.id = b.id /\ a.owns = b.owns /\ a.bypass = b.bypass /\ a.attributes = b.attributes
  /\ a.parent = b.parent /\ a.stored = b.stored

LEMMA Marking ==
  ASSUME NEW below \in Seq(Frame), NEW pushed
  PROVE  /\ MarkedBelow(below, pushed) \in Seq(Frame)
         /\ Len(MarkedBelow(below, pushed)) = Len(below)
         /\ \A i \in 1..Len(below) : Alike(MarkedBelow(below, pushed)[i], below[i])
<1>1. CASE ~(pushed /\ below # <<>>)
  BY <1>1 DEF MarkedBelow, Alike
<1>2. CASE pushed /\ below # <<>>
  <2>1. Len(below) \in 1..Len(below) /\ below[Len(below)] \in Frame
    BY <1>2
  <2>2. PICK marked \in Frame :
          /\ marked = [below[Len(below)] EXCEPT !.kept = TRUE]
          /\ Alike(marked, below[Len(below)])
    <3>1. PICK old \in Frame : old = below[Len(below)]
      BY <2>1
    <3>2. PICK marked : marked = [old EXCEPT !.kept = TRUE]
      OBVIOUS
    <3>3. marked \in Frame /\ Alike(marked, old)
      BY <3>2 DEF Frame, Alike
    <3> QED
      BY <3>1, <3>2, <3>3
  <2>3. MarkedBelow(below, pushed) = [below EXCEPT ![Len(below)] = marked]
    BY <1>2, <2>2 DEF MarkedBelow
  <2>4. \A i \in 1..Len(below) : Alike(below[i], below[i])
    BY DEF Alike
  <2>5. PICK after : after = MarkedBelow(below, pushed)
    OBVIOUS
  <2>6. /\ after \in Seq(Frame) /\ Len(after) = Len(below)
        /\ \A i \in 1..Len(below) : after[i] = IF i = Len(below) THEN marked ELSE below[i]
    BY <2>1, <2>2, <2>3, <2>5
  <2> QED
    BY <2>1, <2>2, <2>4, <2>5, <2>6
<1> QED
  BY <1>1, <1>2

LEMMA Popping ==
  ASSUME TypeOK, frames # <<>>
  PROVE  /\ Len(frames) \in Nat \ {0} /\ Top(frames) \in Frame
         /\ Pop(frames) \in Seq(Frame) /\ Len(Pop(frames)) = Len(frames) - 1
         /\ \A i \in 1..Len(frames) - 1 : Pop(frames)[i] = frames[i]
<1>1. frames \in Seq(Frame) /\ Len(frames) \in Nat \ {0}
  BY DEF TypeOK
<1>2. Len(frames) \in 1..Len(frames)
  BY <1>1
<1>3. \A i \in 1..Len(frames) - 1 : frames[i] \in Frame
  BY <1>1
<1>4. /\ Pop(frames) \in Seq(Frame) /\ Len(Pop(frames)) = Len(frames) - 1
      /\ \A i \in 1..Len(frames) - 1 : Pop(frames)[i] = frames[i]
  <2>1. 1 \in Int /\ Len(frames) - 1 \in Int /\ Len(frames) - 1 - 1 + 1 = Len(frames) - 1
    BY <1>1
  <2>2. /\ SubSeq(frames, 1, Len(frames) - 1) \in Seq(Frame)
        /\ Len(SubSeq(frames, 1, Len(frames) - 1)) =
             IF 1 <= Len(frames) - 1 THEN Len(frames) - 1 - 1 + 1 ELSE 0
        /\ \A i \in 1..(Len(frames) - 1 - 1 + 1) :
             SubSeq(frames, 1, Len(frames) - 1)[i] = frames[1 + i - 1]
    BY <2>1, <1>3, SubSeqProperties
  <2> QED
    BY <1>1, <2>1, <2>2 DEF Pop
<1> QED
  BY <1>1, <1>2, <1>4 DEF Top

LEMMA Popped ==
  ASSUME TypeOK, NEW notable, Pops(notable)
  PROVE  /\ frames' \in Seq(Frame) /\ Len(frames') = Len(frames) - 1
         /\ \A i \in 1..Len(frames) - 1 : Alike(frames'[i], frames[i])
<1>1. PICK pushed : frames' = MarkedBelow(Pop(frames), pushed)
  BY DEF Pops, Finished
<1>2. frames # <<>>
  BY DEF Pops
<1> QED
  BY <1>1, <1>2, Popping, Marking

LEMMA Owner_Typed ==
  ASSUME NEW f \in Functions
  PROVE  /\ Plain(f) \in Frame /\ [Plain(f) EXCEPT !.owns = TRUE] \in Frame
         /\ Plain(f).f = f /\ Plain(f).id = None /\ ~Plain(f).owns /\ ~Plain(f).bypass
         /\ [Plain(f) EXCEPT !.owns = TRUE].f = f /\ [Plain(f) EXCEPT !.owns = TRUE].id = None
         /\ ~[Plain(f) EXCEPT !.owns = TRUE].bypass
BY DEF Plain, Frame

LEMMA Seen_Frames ==
  ASSUME TypeOK, Seen
  PROVE  minted' \in Nat /\ depth' \in Nat /\ frames' \in Seq(Frame)
<1>0. minted \in Nat /\ Minted \in Nat /\ depth \in Nat /\ OnEnter \in Nat /\ OnLeave \in Nat
  BY DEF TypeOK, Minted, OnEnter, OnLeave
<1>1. CASE UNCHANGED seenVars
  BY <1>1 DEF seenVars, TypeOK
<1>2. ASSUME NEW f \in Functions, Pushes(f)
      PROVE  minted' \in Nat /\ depth' \in Nat /\ frames' \in Seq(Frame)
  BY <1>0, <1>2, Owner_Typed, Pushed DEF Pushes, Enter
<1>3. ASSUME NEW f \in Functions, NEW frame \in Frame, PushesSpan(f, frame)
      PROVE  minted' \in Nat /\ depth' \in Nat /\ frames' \in Seq(Frame)
  BY <1>0, <1>3, Pushed DEF PushesSpan, Enter
<1>4. CASE Opens
  <2>1. minted' \in Nat /\ depth' \in Nat
    BY <1>0, <1>4 DEF Opens
  <2>2. frames' = <<>> \/ \E f \in Functions : frames' = <<[Plain(f) EXCEPT !.owns = TRUE]>>
    BY <1>4 DEF Opens
  <2>3. ASSUME NEW f \in Functions PROVE <<[Plain(f) EXCEPT !.owns = TRUE]>> \in Seq(Frame)
    <3>1. PICK frame \in Frame : frame = [Plain(f) EXCEPT !.owns = TRUE]
      BY Owner_Typed
    <3> QED
      BY <3>1
  <2>4. frames' \in Seq(Frame)
    <3>1. CASE frames' = <<>>
      BY <3>1
    <3>2. CASE frames' # <<>>
      BY <2>2, <2>3, <3>2
    <3> QED
      BY <3>1, <3>2
  <2> QED
    BY <2>1, <2>4
<1>5. CASE Closes
  BY <1>0, <1>5, Popping DEF Closes, Closed, TypeOK
<1>6. CASE Records
  BY <1>0, <1>6 DEF Records, TypeOK
<1>7. ASSUME NEW notable \in BOOLEAN, Pops(notable)
      PROVE  minted' \in Nat /\ depth' \in Nat /\ frames' \in Seq(Frame)
  BY <1>0, <1>7, Popped DEF Pops, Leave
<1>8. CASE Arms
  BY <1>0, <1>8 DEF Arms, TypeOK
<1> QED
  BY <1>1, <1>2, <1>3, <1>4, <1>5, <1>6, <1>7, <1>8 DEF Seen

LEMMA Next_Context ==
  ASSUME TypeOK, Next
  PROVE  context' \in {None} \cup [sampled : BOOLEAN, recorded : BOOLEAN]
<1>0. context \in {None} \cup [sampled : BOOLEAN, recorded : BOOLEAN]
  BY DEF TypeOK
<1>1. CASE context' = None
  BY <1>1
<1>2. CASE UNCHANGED context
  BY <1>0, <1>2
<1>3. CASE \E how \in Verdicts : context' = how
  BY <1>3, NativeSpansConstants
<1>4. CASE Enrich
  <2>1. PICK how \in [sampled : BOOLEAN, recorded : BOOLEAN] : how = context
    BY <1>0, <1>4 DEF Enrich
  <2>2. [how EXCEPT !.recorded = TRUE] \in [sampled : BOOLEAN, recorded : BOOLEAN]
    OBVIOUS
  <2> QED
    BY <1>4, <2>1, <2>2 DEF Enrich
<1>5. ASSUME NEW f \in Functions, CallDeliver(f)
      PROVE  UNCHANGED context \/ \E how \in Verdicts : context' = how
  BY <1>5 DEF CallDeliver, Opened, requestVars
<1>6. ASSUME NEW notable \in BOOLEAN, End(notable)
      PROVE  UNCHANGED context \/ context' = None
  BY <1>6 DEF End, Closed, requestVars
<1>7. ASSUME NEW how \in Verdicts, RequestStart(how) PROVE context' = how
  BY <1>7 DEF RequestStart, Opened
<1>8. ASSUME NEW f \in Functions,
             CallIgnored(f) \/ CallPlain(f) \/ CallSpan(f) \/ CallPublish(f) \/ CallNatsSend(f)
      PROVE  UNCHANGED context
  BY <1>8 DEF CallIgnored, CallPlain, CallSpan, CallPublish, CallNatsSend, requestVars
<1>9. ASSUME \/ \E f \in Manifest : TraceFunction(f)
             \/ RequestEnd \/ RecordSpan
             \/ \E kind \in Kinds : SuppressNative(kind)
             \/ \E o \in Messages : NewMessage(o)
      PROVE  UNCHANGED context \/ context' = None
  BY <1>9 DEF TraceFunction, RequestEnd, Closed, RecordSpan, SuppressNative, NewMessage, requestVars
<1> QED
  BY <1>1, <1>2, <1>3, <1>4, <1>5, <1>6, <1>7, <1>8, <1>9 DEF Next

\* The calls the recording was armed under are below those begun since.
LEMMA Seen_Armed ==
  ASSUME TypeOK, Seen
  PROVE  armedUnder' \in 0..Len(frames')
<1>0. armedUnder \in 0..Len(frames) /\ Len(frames) \in Nat
  BY DEF TypeOK
<1>a. Len(frames') \in Nat
  BY Seen_Frames
<1>1. CASE UNCHANGED <<armedUnder, frames>>
  BY <1>0, <1>1
<1>2. ASSUME NEW frame \in Frame, frames' = Append(frames, frame), UNCHANGED armedUnder
      PROVE  armedUnder' \in 0..Len(frames')
  BY <1>0, <1>2, Pushed
<1>3. ASSUME NEW f \in Functions, Pushes(f)
      PROVE  armedUnder' \in 0..Len(frames')
  BY <1>2, <1>3, Owner_Typed DEF Pushes
<1>4. CASE armedUnder' = 0
  BY <1>a, <1>4
<1>5. ASSUME NEW notable \in BOOLEAN, Pops(notable)
      PROVE  armedUnder' \in 0..Len(frames')
  <2>1. /\ Len(frames) \in Nat \ {0} /\ Len(Pop(frames)) = Len(frames) - 1
        /\ Len(frames') = Len(frames) - 1 /\ OutlivedBy(Pop(frames))
    BY <1>5, Popping, Popped DEF Pops
  <2> QED
    BY <1>0, <2>1 DEF OutlivedBy
<1>6. CASE Arms
  BY <1>0, <1>6 DEF Arms
<1> QED
  BY <1>1, <1>2, <1>3, <1>4, <1>5, <1>6
     DEF Seen, seenVars, PushesSpan, Opens, Closes, Closed, Records

LEMMA Next_Parents ==
  ASSUME TypeOK, Next PROVE parents' \in Seq(Nat)
<1>0. minted \in Nat /\ Minted \in Nat /\ parents \in Seq(Nat)
  BY DEF TypeOK, Minted
<1>1. parents # <<>> => Pop(parents) \in Seq(Nat)
  <2> SUFFICES ASSUME parents # <<>> PROVE Pop(parents) \in Seq(Nat)
    OBVIOUS
  <2>1. Len(parents) \in Nat /\ \A i \in 1..Len(parents) - 1 : parents[i] \in Nat
    BY <1>0
  <2>2. 1 \in Int /\ Len(parents) - 1 \in Int
    BY <2>1
  <2>3. SubSeq(parents, 1, Len(parents) - 1) \in Seq(Nat)
    BY <2>1, <2>2, SubSeqProperties
  <2> QED
    BY <2>3 DEF Pop
<1>2. parents' \in {parents, <<>>, Append(parents, Minted)} => parents' \in Seq(Nat)
  <2>1. PICK id \in Nat : id = Minted
    BY <1>0
  <2>2. Append(parents, id) \in Seq(Nat)
    BY <1>0
  <2>3. <<>> \in Seq(Nat)
    OBVIOUS
  <2>4. CASE parents' = parents
    BY <1>0, <2>4
  <2>5. CASE parents' = <<>>
    BY <2>3, <2>5
  <2>6. CASE parents' = Append(parents, Minted)
    BY <2>1, <2>2, <2>6
  <2> QED
    BY <2>4, <2>5, <2>6
<1>3. ASSUME NEW f \in Functions, PassThrough(f) PROVE UNCHANGED parents
  BY <1>3 DEF PassThrough, frameVars
<1>4. ASSUME NEW f, NEW o, NEW present, NEW written, NEW large,
             f \in Functions, Publish(f, o, present, written, large)
      PROVE  parents' \in {parents, Append(parents, Minted)}
  BY <1>3, <1>4 DEF Publish, PublishSpan
<1>5. ASSUME NEW f \in Functions, CallPublish(f) \/ CallNatsSend(f) PROVE parents' \in Seq(Nat)
  <2>1. \/ PassThrough(f)
        \/ \E o, present, written, large : Publish(f, o, present, written, large)
    BY <1>5 DEF CallPublish, CallNatsSend, PublishArray, PublishAmqplib,
                PublishNats
  <2> QED
    BY <1>2, <1>3, <1>4, <2>1
<1>6. ASSUME NEW f \in Functions, CallIgnored(f) \/ CallPlain(f) \/ CallSpan(f) \/ CallDeliver(f)
      PROVE  parents' \in Seq(Nat)
  <2>1. parents' \in {parents, <<>>, Append(parents, Minted)}
    BY <1>3, <1>6 DEF CallIgnored, CallPlain, CallSpan, CallDeliver, Opened, frameVars
  <2> QED
    BY <1>2, <2>1
<1>7. ASSUME NEW notable \in BOOLEAN, End(notable) PROVE parents' \in Seq(Nat)
  <2>1. parents' \in {parents, <<>>} \/ (parents # <<>> /\ parents' = Pop(parents))
    BY <1>7 DEF End, Closed
  <2> QED
    BY <1>1, <1>2, <2>1
<1>8. ASSUME \/ \E f \in Manifest : TraceFunction(f)
             \/ \E how \in Verdicts : RequestStart(how)
             \/ RequestEnd \/ RecordSpan \/ Enrich
             \/ \E kind \in Kinds : SuppressNative(kind)
             \/ \E o \in Messages : NewMessage(o)
      PROVE  parents' \in Seq(Nat)
  <2>1. parents' \in {parents, <<>>}
    BY <1>8 DEF TraceFunction, RequestStart, Opened, RequestEnd, Closed, RecordSpan,
                Enrich, SuppressNative, NewMessage, frameVars
  <2> QED
    BY <1>2, <2>1
<1> QED
  BY <1>5, <1>6, <1>7, <1>8 DEF Next

StateInv == PolicyInv /\ TypeOK

LEMMA StateInvariance == Spec => []StateInv
<1>1. Init => StateInv
  BY Init_PolicyInv DEF Init, StateInv, TypeOK
<1>2. StateInv /\ [Next]_vars => StateInv'
  <2>1. ASSUME StateInv, Next PROVE TypeOK'
    <3>1. /\ minted' \in Nat /\ depth' \in Nat /\ frames' \in Seq(Frame)
          /\ armedUnder' \in 0..Len(frames') /\ parents' \in Seq(Nat)
      BY <2>1, Next_Seen, Seen_Frames, Seen_Armed, Next_Parents DEF StateInv
    <3> QED
      BY <2>1, <3>1, Next_Context DEF StateInv, TypeOK
  <2>2. ASSUME StateInv, UNCHANGED vars PROVE TypeOK'
    BY <2>2 DEF StateInv, TypeOK, vars, frameVars, requestVars
  <2>3. PolicyInv /\ [Next]_vars => PolicyInv'
    BY PolicyStep
  <2> QED
    BY <2>1, <2>2, <2>3 DEF StateInv
<1> QED
  BY <1>1, <1>2, PTL DEF Spec

---------------------------------------------------------------------------
(* The depth of the call path *)

\* The calls of userland begun since the recording was armed.
CallsOfUserland == {i \in armedUnder + 1 .. Len(frames) : frames[i].f \notin Internal}

LEMMA Finite ==
  ASSUME TypeOK
  PROVE  IsFiniteSet(CallsOfUserland) /\ Cardinality(CallsOfUserland) \in Nat
<1>1. armedUnder + 1 \in Int /\ Len(frames) \in Int
  BY DEF TypeOK
<1>2. IsFiniteSet(armedUnder + 1 .. Len(frames))
  BY <1>1, FS_Interval
<1>3. CallsOfUserland \subseteq armedUnder + 1 .. Len(frames)
  BY DEF CallsOfUserland
<1> QED
  BY <1>2, <1>3, FS_Subset, FS_CardinalityType

\* A call that begins is entered, one that ends is left.
LEMMA Push_Depth ==
  ASSUME StateInv, CallDepthIsTrue, NEW f \in Functions, NEW frame \in Frame, frame.f = f,
         frames' = Append(frames, frame), Enter(f), UNCHANGED <<context, armedUnder>>
  PROVE  CallDepthIsTrue'
<1> SUFFICES ASSUME context # None, context.recorded
             PROVE  depth' = Cardinality(CallsOfUserland')
  BY DEF CallDepthIsTrue, CallsOfUserland
<1>1. /\ Len(frames) \in Nat /\ Len(frames') = Len(frames) + 1 /\ frames'[Len(frames) + 1] = frame
      /\ \A i \in 1..Len(frames) : frames'[i] = frames[i]
  BY Pushed DEF StateInv
<1>a. armedUnder \in 0..Len(frames)
  BY DEF StateInv, TypeOK
<1>2. depth = Cardinality(CallsOfUserland)
  BY DEF CallDepthIsTrue, CallsOfUserland
<1>3. IsFiniteSet(CallsOfUserland) /\ Len(frames) + 1 \notin CallsOfUserland
  BY <1>1, Finite DEF CallsOfUserland, StateInv
<1>4. CASE f \in Internal
  <2>1. CallsOfUserland' = CallsOfUserland
    BY <1>1, <1>a, <1>4 DEF CallsOfUserland
  <2> QED
    BY <1>2, <1>4, <2>1 DEF Enter
<1>5. CASE f \notin Internal
  <2>1. CallsOfUserland' = CallsOfUserland \cup {Len(frames) + 1}
    BY <1>1, <1>a, <1>5 DEF CallsOfUserland
  <2>2. Cardinality(CallsOfUserland \cup {Len(frames) + 1}) = Cardinality(CallsOfUserland) + 1
    BY <1>3, FS_AddElement
  <2> QED
    BY <1>2, <1>5, <2>1, <2>2 DEF Enter, OnEnter
<1> QED
  BY <1>4, <1>5

\* The end of a call the recording was armed under finds the depth at zero and leaves it there.
LEMMA Pop_Depth ==
  ASSUME StateInv, CallDepthIsTrue, NEW notable, Pops(notable)
  PROVE  CallDepthIsTrue'
<1> DEFINE last == Len(frames)
<1>0. UNCHANGED context /\ Leave(frames[last].f) /\ frames # <<>> /\ OutlivedBy(Pop(frames))
  BY DEF Pops, Top
<1> SUFFICES ASSUME context # None, context.recorded
             PROVE  depth' = Cardinality(CallsOfUserland')
  BY <1>0 DEF CallDepthIsTrue, CallsOfUserland
<1>1. /\ last \in Nat \ {0} /\ Len(frames') = last - 1 /\ Len(Pop(frames)) = last - 1
      /\ \A i \in 1..last - 1 : frames'[i].f = frames[i].f
  BY <1>0, Popping, Popped DEF StateInv, Alike
<1>a. armedUnder \in 0..last
  BY DEF StateInv, TypeOK
<1>2. depth = Cardinality(CallsOfUserland)
  BY DEF CallDepthIsTrue, CallsOfUserland
<1>3. IsFiniteSet(CallsOfUserland) /\ Cardinality(CallsOfUserland) \in Nat
  BY Finite DEF StateInv
<1>6. CASE armedUnder = last
  <2>1. armedUnder' = last - 1
    BY <1>0, <1>1, <1>6 DEF OutlivedBy
  <2>2. CallsOfUserland = {} /\ CallsOfUserland' = {}
    BY <1>1, <1>6, <2>1 DEF CallsOfUserland
  <2>3. depth = 0
    BY <1>2, <2>2, FS_EmptySet
  <2>4. depth' = 0
    BY <1>0, <2>3 DEF Leave, OnLeave
  <2> QED
    BY <2>2, <2>4, FS_EmptySet
<1>7. armedUnder # last => armedUnder' = armedUnder /\ armedUnder \in 0..last - 1
  BY <1>0, <1>1, <1>a DEF OutlivedBy
<1>4. CASE armedUnder # last /\ frames[last].f \in Internal
  <2>1. CallsOfUserland' = CallsOfUserland
    BY <1>1, <1>4, <1>7 DEF CallsOfUserland
  <2> QED
    BY <1>0, <1>2, <1>4, <2>1 DEF Leave
<1>5. CASE armedUnder # last /\ frames[last].f \notin Internal
  <2>1. CallsOfUserland' = CallsOfUserland \ {last} /\ last \in CallsOfUserland
    BY <1>1, <1>5, <1>7 DEF CallsOfUserland
  <2>2. Cardinality(CallsOfUserland \ {last}) = Cardinality(CallsOfUserland) - 1
    BY <1>3, <2>1, FS_RemoveElement
  <2>3. Cardinality(CallsOfUserland \ {last}) \in Nat
    BY <1>3, FS_RemoveElement, FS_CardinalityType
  <2>4. depth # 0 /\ depth' = depth - 1
    BY <1>0, <1>2, <1>3, <1>5, <2>2, <2>3 DEF Leave, OnLeave
  <2> QED
    BY <1>2, <2>1, <2>2, <2>4
<1> QED
  BY <1>4, <1>5, <1>6

LEMMA Open_Depth ==
  ASSUME Opens PROVE CallDepthIsTrue'
<1>0. armedUnder' = 0
  BY DEF Opens
<1>1. CASE frames' = <<>> /\ depth' = 0
  <2>1. {i \in armedUnder' + 1 .. Len(frames') : frames'[i].f \notin Internal} = {}
    BY <1>0, <1>1
  <2> QED
    BY <1>1, <2>1, FS_EmptySet DEF CallDepthIsTrue
<1>2. ASSUME NEW f \in Functions, NEW how \in Verdicts, context' = how,
             frames' = <<[Plain(f) EXCEPT !.owns = TRUE]>>,
             depth' = IF how.recorded /\ f \notin Internal THEN 1 ELSE 0
      PROVE  CallDepthIsTrue'
  <2>1. Len(frames') = 1 /\ frames'[1].f = f
    BY <1>2, Owner_Typed
  <2>2. {i \in armedUnder' + 1 .. Len(frames') : frames'[i].f \notin Internal} =
          IF f \in Internal THEN {} ELSE {1}
    BY <1>0, <2>1
  <2> QED
    BY <1>2, <2>2, FS_EmptySet, FS_Singleton DEF CallDepthIsTrue
<1> QED
  BY <1>1, <1>2 DEF Opens

LEMMA Arm_Depth ==
  ASSUME StateInv, Arms PROVE CallDepthIsTrue'
<1>1. Len(frames) \in Nat /\ armedUnder' = Len(frames) /\ frames' = frames /\ depth' = 0
  BY DEF StateInv, TypeOK, Arms
<1>2. {i \in armedUnder' + 1 .. Len(frames') : frames'[i].f \notin Internal} = {}
  BY <1>1
<1> QED
  BY <1>1, <1>2, FS_EmptySet DEF CallDepthIsTrue

\* The depth a recording writes beside its next call is the number of userland calls begun
\* since it was armed that are open, however often it is armed.
THEOREM DepthIsCounted == Spec => []CallDepthIsTrue
<1>1. Init => CallDepthIsTrue
  BY DEF Init, CallDepthIsTrue
<1>2. StateInv /\ CallDepthIsTrue /\ [Next]_vars => CallDepthIsTrue'
  <2> SUFFICES ASSUME StateInv, CallDepthIsTrue, [Next]_vars PROVE CallDepthIsTrue'
    OBVIOUS
  <2>1. CASE UNCHANGED seenVars
    BY <2>1 DEF seenVars, CallDepthIsTrue
  <2>2. ASSUME NEW f \in Functions, Pushes(f) PROVE CallDepthIsTrue'
    BY <2>2, Owner_Typed, Push_Depth DEF Pushes
  <2>3. ASSUME NEW f \in Functions, NEW frame \in Frame, PushesSpan(f, frame)
        PROVE  CallDepthIsTrue'
    BY <2>3, Push_Depth DEF PushesSpan
  <2>4. CASE Closes
    BY <2>4 DEF Closes, Closed, CallDepthIsTrue
  <2>5. CASE Records
    BY <2>5 DEF Records, CallDepthIsTrue
  <2>6. Seen \/ UNCHANGED seenVars
    <3>1. CASE Next
      BY <3>1, Next_Seen DEF StateInv
    <3>2. CASE UNCHANGED vars
      BY <3>2 DEF vars, seenVars, requestVars, frameVars, wireVars
    <3> QED
      BY <3>1, <3>2
  <2> QED
    BY <2>1, <2>2, <2>3, <2>4, <2>5, <2>6, Open_Depth, Pop_Depth, Arm_Depth DEF Seen
<1> QED
  BY <1>1, <1>2, StateInvariance, PTL DEF Spec

---------------------------------------------------------------------------
(* The batch of a request *)

\* Frames at any time: the exempt ones are those of a method with headers, one that owns its
\* request has no span and is the first, and an id was minted.
FrameInv ==
  /\ \A i \in 1..Len(frames) :
       /\ frames[i].bypass => Promising(frames[i].f)
       /\ frames[i].owns => frames[i].id = None /\ i = 1
       /\ frames[i].id # None => frames[i].id <= minted

\* What a step leaves of the frames, and what it adds.
LEMMA Push_FrameInv ==
  ASSUME StateInv, FrameInv, NEW frame \in Frame, ~frame.owns,
         frames' = Append(frames, frame), minted' \in Nat, minted <= minted',
         frame.bypass => Promising(frame.f),
         frame.id # None => frame.id <= minted'
  PROVE  FrameInv'
<1>1. /\ Len(frames) \in Nat /\ Len(frames') = Len(frames) + 1 /\ frames'[Len(frames) + 1] = frame
      /\ \A i \in 1..Len(frames) : frames'[i] = frames[i]
  BY Pushed DEF StateInv
<1>2. minted \in Nat /\ \A i \in 1..Len(frames) : frames[i] \in Frame
  BY DEF StateInv, TypeOK
<1>3. \A i \in 1..Len(frames) : frames[i].id # None => frames[i].id \in Nat
  BY <1>2 DEF Frame
<1>5. \A g : Promising(g)' = Promising(g)
  BY DEF Promising
<1>6. \A i \in 1..Len(frames') :
        /\ frames'[i].bypass => Promising(frames'[i].f)
        /\ frames'[i].owns => frames'[i].id = None /\ i = 1
        /\ frames'[i].id # None => frames'[i].id <= minted'
  BY <1>1, <1>2, <1>3 DEF FrameInv
<1> QED
  BY <1>5, <1>6 DEF FrameInv

LEMMA Less_FrameInv ==
  ASSUME FrameInv, NEW n \in Nat, n <= Len(frames), Len(frames) \in Nat, UNCHANGED minted,
         Len(frames') = n, \A i \in 1..n : Alike(frames'[i], frames[i])
  PROVE  FrameInv'
BY DEF FrameInv, Alike, Promising

LEMMA Seen_FrameInv ==
  ASSUME StateInv, FrameInv, Seen PROVE FrameInv'
<1>0. minted \in Nat /\ Minted \in Nat /\ minted <= Minted /\ Len(frames) \in Nat
  BY DEF StateInv, TypeOK, Minted
<1>a. \A i \in 1..Len(frames) : Alike(frames[i], frames[i])
  BY DEF Alike
<1>1. CASE UNCHANGED seenVars
  BY <1>1 DEF seenVars, FrameInv, Promising
<1>2. ASSUME NEW f \in Functions, Pushes(f) PROVE FrameInv'
  <2>1. PICK frame \in Frame : /\ frame = Plain(f) /\ frame.f = f /\ frame.id = None
                                  /\ ~frame.owns /\ ~frame.bypass
    BY Owner_Typed
  <2> QED
    BY <1>0, <1>2, <2>1, Push_FrameInv DEF Pushes
<1>3. ASSUME NEW f \in Functions, NEW frame \in Frame, PushesSpan(f, frame) PROVE FrameInv'
  <2>1. Minted <= Minted
    BY <1>0
  <2> QED
    BY <1>0, <1>3, <2>1, Push_FrameInv DEF PushesSpan
<1>4. CASE Opens
  <2>1. CASE frames' = <<>>
    BY <2>1 DEF FrameInv
  <2>2. ASSUME NEW f \in Functions, frames' = <<[Plain(f) EXCEPT !.owns = TRUE]>>
        PROVE  FrameInv'
    <3>1. PICK frame : /\ frame = [Plain(f) EXCEPT !.owns = TRUE]
                       /\ frame.id = None /\ ~frame.bypass
      BY Owner_Typed
    <3>2. Len(frames') = 1 /\ frames'[1] = frame
      BY <2>2, <3>1
    <3>3. \A i \in 1..Len(frames') : frames'[i] = frame /\ i = 1
      BY <3>2
    <3> QED
      BY <3>1, <3>3 DEF FrameInv
  <2> QED
    BY <1>4, <2>1, <2>2 DEF Opens
<1>5. CASE Closes
  <2>1. CASE frames' = frames
    BY <1>5, <2>1 DEF Closes, FrameInv, Promising
  <2>2. CASE frames # <<>> /\ frames' = Pop(frames)
    <3>1. PICK n \in Nat : /\ n <= Len(frames) /\ Len(frames') = n
                            /\ \A i \in 1..n : Alike(frames'[i], frames[i])
      BY <2>2, Popping DEF StateInv, Alike
    <3> QED
      BY <1>0, <1>5, <3>1, Less_FrameInv DEF Closes
  <2> QED
    BY <1>5, <2>1, <2>2 DEF Closes
<1>6. CASE Records
  <2>0. \A i \in 1..Len(frames) : frames[i] \in Frame
    BY DEF StateInv, TypeOK
  <2>1. \A i \in 1..Len(frames) : frames[i].id # None => frames[i].id \in Nat
    BY <2>0 DEF Frame
  <2> QED
    BY <1>0, <1>6, <2>1 DEF Records, FrameInv, Promising
<1>7. ASSUME NEW notable \in BOOLEAN, Pops(notable) PROVE FrameInv'
  <2>1. PICK n \in Nat : /\ n <= Len(frames) /\ Len(frames') = n
                          /\ \A i \in 1..n : Alike(frames'[i], frames[i])
    BY <1>7, Popping, Popped DEF StateInv, Pops
  <2> QED
    BY <1>0, <1>7, <2>1, Less_FrameInv DEF Pops
<1>8. CASE Arms
  BY <1>8 DEF Arms, FrameInv, Promising
<1> QED
  BY <1>1, <1>2, <1>3, <1>4, <1>5, <1>6, <1>7, <1>8 DEF Seen

\* The spans that count for the cap.
Capped == {s \in spans : ~Promising(s.f)}
BatchInv == IsFiniteSet(spans) /\ BatchIsBounded

LEMMA Room ==
  ASSUME BatchInv, HasRoom(FALSE)
  PROVE  /\ IsFiniteSet(Capped) /\ Cardinality(Capped) + 1 <= MaxSpans
         /\ \A s : Cardinality(Capped \cup {s}) <= MaxSpans
<1>1. IsFiniteSet(Capped) /\ Capped \subseteq spans
  BY FS_Subset DEF Capped, BatchInv
<1>2. Cardinality(Capped) <= Cardinality(spans) /\ Cardinality(Capped) \in Nat
      /\ Cardinality(spans) \in Nat
  BY <1>1, FS_Subset, FS_CardinalityType DEF BatchInv
<1>3. Cardinality(Capped) + 1 <= MaxSpans
  BY <1>2, NativeSpansConstants DEF HasRoom
<1>4. ASSUME NEW s PROVE Cardinality(Capped \cup {s}) <= MaxSpans
  <2>1. CASE s \in Capped
    <3>1. Capped \cup {s} = Capped
      BY <2>1
    <3>2. Cardinality(Capped \cup {s}) = Cardinality(Capped)
      BY <3>1
    <3> QED
      BY <1>2, <1>3, <3>2, NativeSpansConstants
  <2>2. CASE s \notin Capped
    BY <1>1, <1>3, <2>2, FS_AddElement
  <2> QED
    BY <2>1, <2>2
<1> QED
  BY <1>1, <1>3, <1>4

\* A span is added if it is exempt or there is room.
LEMMA Adding ==
  ASSUME BatchInv, NEW s, spans' = spans \cup {s}, Promising(s.f) \/ HasRoom(FALSE)
  PROVE  BatchInv'
<1>1. IsFiniteSet(spans')
  BY FS_AddElement DEF BatchInv
<1>2. CASE Promising(s.f)
  <2>1. {t \in spans' : ~Promising(t.f)} = {t \in spans : ~Promising(t.f)}
    BY <1>2
  <2> QED
    BY <1>1, <2>1 DEF BatchInv, BatchIsBounded, Promising
<1>3. CASE HasRoom(FALSE) /\ ~Promising(s.f)
  <2>1. {t \in spans' : ~Promising(t.f)} = Capped \cup {s}
    BY <1>3 DEF Capped
  <2> QED
    BY <1>1, <1>3, <2>1, Room DEF BatchInv, BatchIsBounded, Promising
<1> QED
  BY <1>2, <1>3

LEMMA Same_BatchInv ==
  ASSUME BatchInv, UNCHANGED spans PROVE BatchInv'
BY DEF BatchInv, BatchIsBounded, Promising

LEMMA Empty_BatchInv ==
  ASSUME spans' = {} PROVE BatchInv'
<1>1. {s \in spans' : ~Promising(s.f)} = {}
  OBVIOUS
<1> QED
  BY <1>1, FS_EmptySet, NativeSpansConstants DEF BatchInv, BatchIsBounded, Promising

\* The end of a call adds the span of the last frame, or none.
LEMMA Finishing ==
  ASSUME StateInv, NEW notable, Pops(notable)
  PROVE  \/ UNCHANGED spans
         \/ \E s : /\ s.f = Top(frames).f /\ s.id = Top(frames).id
                   /\ spans' = spans \cup {s} /\ HasRoom(Top(frames).bypass)
<1> DEFINE frame == Answered(Top(frames))
<1>1. /\ frame.f = Top(frames).f /\ frame.id = Top(frames).id /\ frame.bypass = Top(frames).bypass
  BY Popping DEF Pops, StateInv, Answered, Frame
<1>2. UNCHANGED spans \/ (spans' = spans \cup {AsSpan(frame)} /\ HasRoom(frame.bypass))
  BY DEF Pops, Finished
<1>3. AsSpan(frame).f = frame.f /\ AsSpan(frame).id = frame.id
  BY DEF AsSpan
<1> QED
  BY <1>1, <1>2, <1>3

LEMMA Seen_BatchInv ==
  ASSUME StateInv, FrameInv, BatchInv, Seen PROVE BatchInv'
<1>1. ASSUME NEW notable \in BOOLEAN, Pops(notable) PROVE BatchInv'
  <2>1. Top(frames).bypass => Promising(Top(frames).f)
    <3>1. frames # <<>> /\ Len(frames) \in 1..Len(frames)
      BY <1>1, Popping DEF Pops, StateInv
    <3> QED
      BY <3>1 DEF FrameInv, Top
  <2>2. CASE UNCHANGED spans
    BY <2>2, Same_BatchInv
  <2>3. ASSUME NEW s, s.f = Top(frames).f, spans' = spans \cup {s}, HasRoom(Top(frames).bypass)
        PROVE  BatchInv'
    <3>1. Promising(s.f) \/ HasRoom(FALSE)
      BY <2>1, <2>3 DEF HasRoom
    <3> QED
      BY <2>3, <3>1, Adding
  <2> QED
    BY <1>1, <2>2, <2>3, Finishing
<1>2. CASE Records
  <2>1. CASE UNCHANGED spans
    BY <2>1, Same_BatchInv
  <2>2. ASSUME NEW s, HasRoom(FALSE), spans' = spans \cup {s} PROVE BatchInv'
    BY <2>2, Adding
  <2> QED
    BY <1>2, <2>1, <2>2 DEF Records
<1>3. CASE spans' = {}
  BY <1>3, Empty_BatchInv
<1>4. CASE UNCHANGED spans
  BY <1>4, Same_BatchInv
<1> QED
  BY <1>1, <1>2, <1>3, <1>4
     DEF Seen, seenVars, Pushes, PushesSpan, Opens, Closes, Closed, Arms

---------------------------------------------------------------------------
(* The promises on the wire *)

Sampled == context # None /\ context.sampled

\* The frame whose id is on the wire: a client's own call, which will be recorded, whatever
\* the cap if a message carries the id; its request is still open if it was sampled.
WireFrame(w, frame) ==
  /\ Table[frame.f] \in Inner /\ frame.attributes /\ (w.publish => frame.bypass)
  /\ w.sampled => Sampled

WireInv ==
  /\ \A w \in wire : w.id \in Nat /\ w.id <= minted
  /\ \A w \in wire : \A i \in 1..Len(frames) : frames[i].id = w.id => WireFrame(w, frames[i])
  /\ \A w \in wire : \A s \in spans : s.id = w.id /\ w.sampled => Sampled

IsOpen(id)  == \E i \in 1..Len(frames) : frames[i].id = id
IsBatch(id) == \E s \in spans : s.id = id
IsSent(id)  == \E s \in shipped.spans : s.id = id

\* One promise: the span is open, in the batch, sent, or refused by the cap.
Kept(w) ==
  w.sampled => \/ IsOpen(w.id) \/ IsBatch(w.id) \/ IsSent(w.id)
               \/ ~w.publish /\ w.id \in lost

LEMMA KeptAll ==
  ASSUME \A w \in wire : w.id \in Nat
  PROVE  PromiseIsKept <=> \A w \in wire : Kept(w)
<1>1. ASSUME NEW w \in wire
      PROVE  /\ w.id \in OpenIds <=> IsOpen(w.id)
             /\ w.id \in Recorded <=> IsBatch(w.id) \/ IsSent(w.id)
  BY NativeSpansConstants DEF OpenIds, Open, IsOpen, Recorded, IsBatch, IsSent
<1> QED
  BY <1>1 DEF PromiseIsKept, Kept

PromiseInv == WireInv /\ \A w \in wire : Kept(w)

LEMMA Same_PromiseInv ==
  ASSUME PromiseInv, UNCHANGED seenVars PROVE PromiseInv'
BY DEF PromiseInv, WireInv, Kept, WireFrame, Sampled, IsOpen, IsBatch, IsSent, seenVars

LEMMA Pushes_PromiseInv ==
  ASSUME StateInv, PromiseInv, NEW f \in Functions, Pushes(f) PROVE PromiseInv'
<1>1. PICK frame \in Frame : frame = Plain(f) /\ frame.id = None
  BY Owner_Typed
<1>2. /\ Len(frames) \in Nat /\ Len(frames') = Len(frames) + 1 /\ frames'[Len(frames) + 1] = frame
      /\ \A i \in 1..Len(frames) : frames'[i] = frames[i]
  BY <1>1, Pushed DEF Pushes, StateInv
<1>3. UNCHANGED <<context, spans, minted, wire, shipped, lost>> /\ (Sampled' <=> Sampled)
  BY DEF Pushes, Sampled
<1>4. ASSUME NEW w \in wire, NEW i \in 1..Len(frames'), frames'[i].id = w.id
      PROVE  WireFrame(w, frames[i])'
  <2>1. i \in 1..Len(frames) /\ frames'[i] = frames[i]
    BY <1>1, <1>2, <1>4, NativeSpansConstants DEF PromiseInv, WireInv
  <2> QED
    BY <1>3, <1>4, <2>1 DEF PromiseInv, WireInv, WireFrame
<1>5. WireInv'
  BY <1>3, <1>4 DEF PromiseInv, WireInv
<1>6. \A w \in wire : Kept(w) => Kept(w)'
  BY <1>2, <1>3 DEF Kept, IsOpen, IsBatch, IsSent
<1> QED
  BY <1>3, <1>5, <1>6 DEF PromiseInv

LEMMA PushesSpan_PromiseInv ==
  ASSUME StateInv, FrameInv, PromiseInv, NEW f \in Functions, NEW frame \in Frame,
         PushesSpan(f, frame)
  PROVE  PromiseInv'
<1>0. /\ minted \in Nat /\ Minted \in Nat /\ minted < Minted /\ minted' = Minted
      /\ frame.id = Minted /\ context # None /\ frame.f = f
  BY DEF StateInv, TypeOK, Minted, PushesSpan
<1>2. /\ Len(frames) \in Nat /\ Len(frames') = Len(frames) + 1 /\ frames'[Len(frames) + 1] = frame
      /\ \A i \in 1..Len(frames) : frames'[i] = frames[i]
  BY Pushed DEF PushesSpan, StateInv
<1>3. UNCHANGED <<context, spans, shipped, lost>> /\ (Sampled' <=> Sampled)
  BY DEF PushesSpan, Sampled
<1>4. \A w \in wire : Kept(w) => Kept(w)'
  BY <1>2, <1>3 DEF Kept, IsOpen, IsBatch, IsSent
<1>5. ASSUME NEW w \in wire, NEW i \in 1..Len(frames'), frames'[i].id = w.id
      PROVE  WireFrame(w, frames[i])'
  <2>1. i \in 1..Len(frames) /\ frames'[i] = frames[i]
    BY <1>0, <1>2, <1>5 DEF PromiseInv, WireInv
  <2> QED
    BY <1>3, <1>5, <2>1 DEF PromiseInv, WireInv, WireFrame
<1>6. CASE UNCHANGED wire
  <2>1. \A w \in wire : w.id \in Nat /\ w.id <= minted'
    BY <1>0 DEF PromiseInv, WireInv
  <2>2. WireInv'
    BY <1>3, <1>5, <1>6, <2>1 DEF PromiseInv, WireInv
  <2> QED
    BY <1>4, <1>6, <2>2 DEF PromiseInv
<1>7. ASSUME NEW publish \in BOOLEAN, Table[f] \in Inner, frame.attributes, publish => frame.bypass,
             wire' = wire \cup {[id |-> Minted, sampled |-> context.sampled, publish |-> publish]}
      PROVE  PromiseInv'
  <2>0. PICK new : new = [id |-> Minted, sampled |-> context.sampled, publish |-> publish]
    OBVIOUS
  <2>1. new.id = Minted /\ new.sampled = context.sampled /\ new.publish = publish
    BY <2>0
  <2>2. wire' = wire \cup {new}
    BY <1>7, <2>0
  <2>3. \A w \in wire' : w.id \in Nat /\ w.id <= minted'
    BY <1>0, <2>1, <2>2 DEF PromiseInv, WireInv
  <2>4. ASSUME NEW i \in 1..Len(frames'), frames'[i].id = new.id
        PROVE  WireFrame(new, frames[i])'
    <3>1. \A j \in 1..Len(frames) : frames[j].id # Minted
      <4>1. \A j \in 1..Len(frames) : frames[j].id # None => frames[j].id <= minted
        BY DEF FrameInv
      <4>2. \A j \in 1..Len(frames) : frames[j] \in Frame
        BY DEF StateInv, TypeOK
      <4>3. \A j \in 1..Len(frames) : frames[j].id \in Nat \cup {None}
        BY <4>2 DEF Frame
      <4> QED
        BY <1>0, <4>1, <4>3, NativeSpansConstants
    <3>2. frames'[i] = frame
      BY <1>2, <2>1, <2>4, <3>1
    <3>3. new.sampled => Sampled
      BY <1>0, <2>1 DEF Sampled
    <3> QED
      BY <1>0, <1>3, <1>7, <2>1, <3>2, <3>3 DEF WireFrame
  <2>5. ASSUME NEW s \in spans, s.id = new.id, new.sampled PROVE Sampled
    BY <1>0, <2>1, <2>5 DEF Sampled
  <2>6. WireInv'
    BY <1>3, <1>5, <2>2, <2>3, <2>4, <2>5 DEF PromiseInv, WireInv
  <2>7. Kept(new)'
    BY <1>0, <1>2, <2>1 DEF Kept, IsOpen
  <2> QED
    BY <1>4, <2>2, <2>6, <2>7 DEF PromiseInv
<1> QED
  BY <1>6, <1>7 DEF PushesSpan, Announced

\* When a request opens or closes no promise is open.
LEMMA Opens_PromiseInv ==
  ASSUME PromiseInv, Opens PROVE PromiseInv'
<1>1. /\ context = None /\ frames = <<>> /\ spans' = {}
      /\ UNCHANGED <<minted, wire, shipped, lost>>
  BY DEF Opens
<1>2. \A i \in 1..Len(frames') : frames'[i].id = None
  <2>1. CASE frames' = <<>>
    BY <2>1
  <2>2. ASSUME NEW f \in Functions, frames' = <<[Plain(f) EXCEPT !.owns = TRUE]>>
        PROVE  \A i \in 1..Len(frames') : frames'[i].id = None
    <3>1. PICK frame : frame = [Plain(f) EXCEPT !.owns = TRUE] /\ frame.id = None
      BY Owner_Typed
    <3>2. Len(frames') = 1 /\ frames'[1] = frame
      BY <2>2, <3>1
    <3>3. \A i \in 1..Len(frames') : frames'[i] = frame
      BY <3>2
    <3> QED
      BY <3>1, <3>3
  <2> QED
    BY <2>1, <2>2 DEF Opens
<1>3. \A w \in wire : ~(w.sampled /\ (IsOpen(w.id) \/ IsBatch(w.id)))
  BY <1>1 DEF PromiseInv, WireInv, Sampled, IsOpen, IsBatch
<1>4. \A w \in wire : Kept(w)'
  BY <1>1, <1>3 DEF PromiseInv, Kept, IsSent
<1>5. \A w \in wire : \A i \in 1..Len(frames') : frames'[i].id # w.id
  BY <1>2, NativeSpansConstants DEF PromiseInv, WireInv
<1>6. WireInv'
  BY <1>1, <1>5 DEF PromiseInv, WireInv
<1> QED
  BY <1>1, <1>4, <1>6 DEF PromiseInv

LEMMA Closes_PromiseInv ==
  ASSUME StateInv, FrameInv, PromiseInv, Closes PROVE PromiseInv'
<1>1. Len(frames) \in Nat /\ UNCHANGED <<minted, wire>>
  BY DEF StateInv, TypeOK, Closes
<1>2. \A i \in 1..Len(frames) : Table[frames[i].f] \notin Inner \/ frames[i].id = None
  <2>1. CASE \A i \in 1..Len(frames) : ~frames[i].owns /\ Table[frames[i].f] \notin Inner
    BY <2>1
  <2>2. CASE frames # <<>> /\ Top(frames).owns
    <3>1. Len(frames) \in 1..Len(frames) /\ frames[Len(frames)].owns
      BY <1>1, <2>2 DEF Top, StateInv, TypeOK
    <3>2. Len(frames) = 1 /\ frames[1].id = None
      BY <3>1 DEF FrameInv
    <3> QED
      BY <3>2
  <2> QED
    BY <2>1, <2>2 DEF Closes
<1>4. \A w \in wire : \A i \in 1..Len(frames) : frames[i].id # w.id
  BY <1>1, <1>2, NativeSpansConstants DEF PromiseInv, WireInv, WireFrame
<1>5. \A i \in 1..Len(frames') : i \in 1..Len(frames) /\ frames'[i] = frames[i]
  <2>1. CASE frames' = frames
    BY <2>1
  <2>2. CASE frames # <<>> /\ frames' = Pop(frames)
    BY <2>2, Popping DEF StateInv
  <2> QED
    BY <2>1, <2>2 DEF Closes
<1>6. /\ spans' = {} /\ lost \subseteq lost'
      /\ \A s \in shipped.spans : s \in shipped.spans'
      /\ Sampled => \A s \in spans : s \in shipped.spans'
  <2>1. spans' = {} /\ lost \subseteq lost' /\ Sent
    BY DEF Closes, Closed
  <2>2. \/ UNCHANGED shipped /\ ~context.sampled
        \/ shipped.spans' = shipped.spans \cup spans
    BY <2>1 DEF Sent
  <2> QED
    BY <2>1, <2>2 DEF Sampled
<1>7. ASSUME NEW w \in wire PROVE Kept(w)'
  <2> SUFFICES ASSUME w.sampled
               PROVE  IsSent(w.id)' \/ (~w.publish /\ w.id \in lost')
    BY DEF Kept
  <2>1. IsBatch(w.id) \/ IsSent(w.id) \/ (~w.publish /\ w.id \in lost)
    BY <1>4 DEF PromiseInv, Kept, IsOpen
  <2>2. IsBatch(w.id) => Sampled
    BY DEF PromiseInv, WireInv, IsBatch
  <2> QED
    BY <1>6, <2>1, <2>2 DEF IsBatch, IsSent
<1>8. WireInv'
  BY <1>1, <1>4, <1>5, <1>6 DEF PromiseInv, WireInv
<1> QED
  BY <1>1, <1>7, <1>8 DEF PromiseInv

LEMMA Records_PromiseInv ==
  ASSUME StateInv, PromiseInv, Records PROVE PromiseInv'
<1>1. /\ minted \in Nat /\ minted < Minted /\ minted' = Minted /\ Minted \in Nat
      /\ UNCHANGED <<context, frames, wire, shipped>> /\ (Sampled' <=> Sampled)
  BY DEF StateInv, TypeOK, Minted, Records, Sampled
<1>2. /\ spans \subseteq spans' /\ lost \subseteq lost'
      /\ \A s \in spans' : s \in spans \/ s.id = Minted
  BY DEF Records
<1>3. \A w \in wire : w.id \in Nat /\ w.id # Minted /\ w.id <= minted'
  BY <1>1 DEF PromiseInv, WireInv
<1>4. \A w \in wire : Kept(w)'
  BY <1>1, <1>2 DEF PromiseInv, Kept, IsOpen, IsBatch, IsSent
<1>5. \A w \in wire : \A i \in 1..Len(frames) : frames[i].id = w.id => WireFrame(w, frames[i])'
  BY <1>1 DEF PromiseInv, WireInv, WireFrame
<1>6. WireInv'
  BY <1>1, <1>2, <1>3, <1>5 DEF PromiseInv, WireInv
<1> QED
  BY <1>1, <1>4, <1>6 DEF PromiseInv

\* A promise does not mind who is recorded.
LEMMA Arms_PromiseInv ==
  ASSUME PromiseInv, Arms PROVE PromiseInv'
<1>1. /\ UNCHANGED <<frames, spans, minted, wire, shipped, lost>>
      /\ (Sampled' <=> Sampled)
  BY DEF Arms, Sampled
<1> QED
  BY <1>1 DEF PromiseInv, WireInv, WireFrame, Kept, IsOpen, IsBatch, IsSent

\* A frame with an attribute is recorded, or refused by the cap, or had no span.
LEMMA Ending ==
  ASSUME StateInv, NEW notable \in BOOLEAN, Pops(notable)
  PROVE  /\ spans \subseteq spans' /\ lost \subseteq lost'
         /\ Top(frames).id # None /\ Top(frames).attributes =>
              \/ \E s \in spans' : s.id = Top(frames).id
              \/ ~Top(frames).bypass /\ Top(frames).id \in lost'
<1>1. Top(frames) \in Frame
  BY Popping DEF Pops, StateInv
<1>2. PICK frame : frame = Answered(Top(frames))
  OBVIOUS
<1>3. /\ frame.id = Top(frames).id /\ frame.bypass = Top(frames).bypass
      /\ Top(frames).attributes => frame.attributes
  BY <1>1, <1>2 DEF Answered, Frame
<1>4. Finished(frame, notable)
  BY <1>2 DEF Pops
<1>5. spans \subseteq spans' /\ lost \subseteq lost'
  BY <1>4 DEF Finished
<1>6. ASSUME Top(frames).id # None, Top(frames).attributes
      PROVE  \/ \E s \in spans' : s.id = Top(frames).id
             \/ ~Top(frames).bypass /\ Top(frames).id \in lost'
  <2>1. frame.id # None /\ Keep(frame, notable)
    BY <1>3, <1>6 DEF Keep
  <2>2. CASE HasRoom(frame.bypass)
    <3>1. spans' = spans \cup {AsSpan(frame)} /\ AsSpan(frame).id = frame.id
      BY <1>4, <2>1, <2>2 DEF Finished, AsSpan
    <3> QED
      BY <1>3, <3>1
  <2>3. CASE ~HasRoom(frame.bypass)
    <3>1. lost' = lost \cup {frame.id} /\ ~frame.bypass
      BY <1>4, <2>1, <2>3 DEF Finished, HasRoom
    <3> QED
      BY <1>3, <3>1
  <2> QED
    BY <2>2, <2>3
<1> QED
  BY <1>5, <1>6

LEMMA Pops_PromiseInv ==
  ASSUME StateInv, PromiseInv, NEW notable \in BOOLEAN, Pops(notable) PROVE PromiseInv'
<1>1. UNCHANGED <<context, minted, wire, shipped>> /\ (Sampled' <=> Sampled)
  BY DEF Pops, Sampled
<1>2. /\ Len(frames) \in Nat \ {0} /\ Len(frames') = Len(frames) - 1
      /\ \A i \in 1..Len(frames) - 1 : Alike(frames'[i], frames[i])
      /\ Top(frames) = frames[Len(frames)]
  BY Popping, Popped DEF Pops, StateInv, Top
<1>3. ASSUME NEW w \in wire, NEW i \in 1..Len(frames'), frames'[i].id = w.id
      PROVE  WireFrame(w, frames[i])'
  <2>1. i \in 1..Len(frames) /\ Alike(frames'[i], frames[i])
    BY <1>2
  <2> QED
    BY <1>1, <1>3, <2>1 DEF PromiseInv, WireInv, WireFrame, Alike
<1>4. ASSUME NEW w \in wire, NEW s \in spans', s.id = w.id, w.sampled PROVE Sampled
  <2>1. CASE s \in spans
    BY <1>4, <2>1 DEF PromiseInv, WireInv
  <2>2. CASE s \notin spans
    <3>1. s.id = Top(frames).id
      BY <2>2, Finishing
    <3>2. Len(frames) \in 1..Len(frames) /\ frames[Len(frames)].id = w.id
      BY <1>2, <1>4, <3>1
    <3>3. WireFrame(w, frames[Len(frames)])
      BY <3>2 DEF PromiseInv, WireInv
    <3> QED
      BY <1>4, <3>3 DEF WireFrame
  <2> QED
    BY <2>1, <2>2
<1>5. ASSUME NEW w \in wire PROVE Kept(w)'
  <2> SUFFICES ASSUME w.sampled
               PROVE  \/ IsOpen(w.id)' \/ IsBatch(w.id)' \/ IsSent(w.id)'
                      \/ ~w.publish /\ w.id \in lost'
    BY DEF Kept
  <2>1. spans \subseteq spans' /\ lost \subseteq lost'
    BY Ending
  <2>2. CASE IsBatch(w.id) \/ IsSent(w.id) \/ (~w.publish /\ w.id \in lost)
    BY <1>1, <2>1, <2>2 DEF IsBatch, IsSent
  <2>3. ASSUME NEW i \in 1..Len(frames) - 1, frames[i].id = w.id PROVE IsOpen(w.id)'
    BY <1>2, <2>3 DEF IsOpen, Alike
  <2>4. CASE Top(frames).id = w.id
    <3>1. WireFrame(w, Top(frames))
      BY <1>2, <2>4 DEF PromiseInv, WireInv
    <3>2. Top(frames).id # None /\ Top(frames).attributes /\ (w.publish => Top(frames).bypass)
      BY <2>4, <3>1, NativeSpansConstants DEF WireFrame, PromiseInv, WireInv
    <3> QED
      BY <2>4, <3>2, Ending DEF IsBatch
  <2>5. IsOpen(w.id) => Top(frames).id = w.id \/ \E i \in 1..Len(frames) - 1 : frames[i].id = w.id
    BY <1>2 DEF IsOpen
  <2> QED
    BY <2>2, <2>3, <2>4, <2>5 DEF PromiseInv, Kept
<1>6. WireInv'
  BY <1>1, <1>3, <1>4 DEF PromiseInv, WireInv
<1> QED
  BY <1>1, <1>5, <1>6 DEF PromiseInv

SpansInv == StateInv /\ FrameInv /\ BatchInv /\ PromiseInv

LEMMA SpansInvariance == Spec => []SpansInv
<1>1. Init => FrameInv /\ BatchInv /\ PromiseInv
  <2> SUFFICES ASSUME Init PROVE FrameInv /\ BatchInv /\ PromiseInv
    OBVIOUS
  <2>1. FrameInv /\ PromiseInv
    BY DEF Init, FrameInv, PromiseInv, WireInv
  <2>2. {s \in spans : ~Promising(s.f)} = {} /\ spans = {}
    BY DEF Init
  <2>3. BatchInv
    BY <2>2, FS_EmptySet, NativeSpansConstants DEF BatchInv, BatchIsBounded
  <2> QED
    BY <2>1, <2>3
<1>2. StateInv /\ FrameInv /\ BatchInv /\ PromiseInv /\ [Next]_vars
        => FrameInv' /\ BatchInv' /\ PromiseInv'
  <2> SUFFICES ASSUME StateInv, FrameInv, BatchInv, PromiseInv, [Next]_vars
               PROVE  FrameInv' /\ BatchInv' /\ PromiseInv'
    OBVIOUS
  <2>1. Seen
    <3>1. CASE Next
      BY <3>1, Next_Seen DEF StateInv
    <3>2. CASE UNCHANGED vars
      BY <3>2 DEF vars, Seen, seenVars, requestVars, frameVars, wireVars
    <3> QED
      BY <3>1, <3>2
  <2>2. PromiseInv'
    BY <2>1, Same_PromiseInv, Pushes_PromiseInv, PushesSpan_PromiseInv, Opens_PromiseInv,
       Closes_PromiseInv, Records_PromiseInv, Pops_PromiseInv, Arms_PromiseInv DEF Seen
  <2> QED
    BY <2>1, <2>2, Seen_FrameInv, Seen_BatchInv
<1> QED
  BY <1>1, <1>2, StateInvariance, PTL DEF Spec, SpansInv

\* A traceparent that left a sampled request names a span that is open or recorded; only one of
\* an HTTP transfer may name a span the cap refused.
THEOREM PromisesAreKept == Spec => []PromiseIsKept
<1>1. SpansInv => PromiseIsKept
  BY KeptAll DEF SpansInv, PromiseInv, WireInv
<1> QED
  BY <1>1, SpansInvariance, PTL

\* The spans of a request that no message depends on never exceed the cap.
THEOREM BatchStaysBounded == Spec => []BatchIsBounded
<1>1. SpansInv => BatchIsBounded
  BY DEF SpansInv, BatchInv
<1> QED
  BY <1>1, SpansInvariance, PTL
---------------------------------------------------------------------------
(* The tree of the spans and their bodies                                  *)

\* The frame of a span has an attribute when it ends.
KeepsSpan(frame) == frame.attributes \/ Table[frame.f] = "poll"

\* The ids of the open spans rise with the stack, those of the parents are among them.
Ordered ==
  /\ \A i, j \in 1..Len(frames) : i < j /\ frames[i].id # None /\ frames[j].id # None
                                    => frames[i].id < frames[j].id
  /\ \A k, l \in 1..Len(parents) : k < l => parents[k] < parents[l]
  /\ \A k \in 1..Len(parents) : IsOpen(parents[k])

\* The parent of an open span is open below it, or it is the root.
Nested ==
  \A i \in 1..Len(frames) : frames[i].id # None =>
    /\ frames[i].parent \in Nat
    /\ frames[i].parent # Root => \E j \in 1..i - 1 : frames[j].id = frames[i].parent

\* What a span of the batch hangs on; one of the SDK hangs on what the SDK says.
Tied(s) ==
  /\ s.of = started
  /\ s.f # None =>
       /\ s.parent \in Nat
       /\ s.parent = Root \/ s.parent \in lost \/ IsOpen(s.parent) \/ IsBatch(s.parent)

\* Whose a pending body is.
Owned(b) == b \in Nat /\ (IsOpen(b) \/ IsBatch(b) \/ b \in lost)

Stocked ==
  /\ \A s \in spans : s.stored => s.id \in bodies
  /\ \A i \in 1..Len(frames) : frames[i].id # None /\ frames[i].stored => frames[i].id \in bodies
  /\ \A b \in bodies : Owned(b)

OpenInv == Ordered /\ Nested /\ (\A s \in spans : Tied(s)) /\ Stocked

\* What was sent stays connected, and complete.
HangsSent(s) ==
  s.f = None \/ s.parent = Root \/ s.parent \in lost \/ \E p \in shipped.spans : p.id = s.parent /\ p.of = s.of

SentInv ==
  /\ \A s \in shipped.spans : HangsSent(s) /\ (s.stored => s.id \in shipped.bodies)
  /\ \A b \in shipped.bodies : IsSent(b) \/ b \in lost

KeepInv ==
  \A i \in 1..Len(frames) : /\ frames[i].id # None => KeepsSpan(frames[i])
                            /\ frames[i].owns => context # None /\ i = 1

TreeInv == KeepInv /\ SentInv /\ (context # None => OpenInv)

LEMMA Same_TreeInv ==
  ASSUME TreeInv, UNCHANGED seenVars PROVE TreeInv'
BY DEF TreeInv, KeepInv, KeepsSpan, SentInv, HangsSent, OpenInv, Ordered, Nested, Tied, Owned,
       Stocked, IsOpen, IsBatch, IsSent, seenVars

\* Until a request is closed nothing is sent, and what the cap refused stays refused.
LEMMA Same_SentInv ==
  ASSUME SentInv, UNCHANGED shipped, lost \subseteq lost' PROVE SentInv'
BY DEF SentInv, HangsSent, IsSent

\* A frame more, and what hangs on the stack still does.
LEMMA Pushing ==
  ASSUME StateInv, NEW frame \in Frame, frames' = Append(frames, frame),
         UNCHANGED <<started, spans, lost>>
  PROVE  /\ \A id : IsOpen(id) => IsOpen(id)'
         /\ IsOpen(frame.id)'
         /\ \A s : Tied(s) => Tied(s)'
         /\ \A b : Owned(b) => Owned(b)'
<1>1. /\ Len(frames) \in Nat /\ Len(frames') = Len(frames) + 1 /\ frames'[Len(frames) + 1] = frame
      /\ \A i \in 1..Len(frames) : frames'[i] = frames[i]
  BY Pushed DEF StateInv
<1>2. \A id : IsOpen(id) => IsOpen(id)'
  BY <1>1 DEF IsOpen
<1>3. IsOpen(frame.id)'
  BY <1>1 DEF IsOpen
<1>4. \A id : IsBatch(id)' <=> IsBatch(id)
  BY DEF IsBatch
<1>5. \A s : Tied(s) => Tied(s)'
  BY <1>2, <1>4 DEF Tied
<1>6. \A b : Owned(b) => Owned(b)'
  BY <1>2, <1>4 DEF Owned
<1> QED
  BY <1>2, <1>3, <1>5, <1>6

LEMMA Pushes_TreeInv ==
  ASSUME StateInv, TreeInv, NEW f \in Functions, Pushes(f) PROVE TreeInv'
<1>1. PICK frame \in Frame : frame = Plain(f) /\ frame.id = None /\ ~frame.owns
  BY Owner_Typed
<1>2. /\ context # None /\ frames' = Append(frames, frame)
      /\ UNCHANGED <<context, started, parents, spans, bodies, shipped, lost>>
  BY <1>1 DEF Pushes
<1>3. /\ Len(frames) \in Nat /\ Len(frames') = Len(frames) + 1 /\ frames'[Len(frames) + 1] = frame
      /\ \A i \in 1..Len(frames) : frames'[i] = frames[i]
  BY <1>2, Pushed DEF StateInv
<1>4. /\ \A id : IsOpen(id) => IsOpen(id)'
      /\ \A s : Tied(s) => Tied(s)'
      /\ \A b : Owned(b) => Owned(b)'
  BY <1>2, Pushing
<1>5. OpenInv
  BY <1>2 DEF TreeInv
<1>6. ASSUME NEW i \in 1..Len(frames') PROVE i \in 1..Len(frames) \/ frames'[i] = frame
  BY <1>3
<1>7. KeepInv'
  BY <1>1, <1>2, <1>3, <1>6 DEF TreeInv, KeepInv, KeepsSpan
<1>8. Ordered'
  <2>1. ASSUME NEW i \in 1..Len(frames'), NEW j \in 1..Len(frames'), i < j,
               frames'[i].id # None, frames'[j].id # None
        PROVE  frames'[i].id < frames'[j].id
    <3>1. i \in 1..Len(frames) /\ j \in 1..Len(frames)
      BY <1>1, <1>6, <2>1
    <3> QED
      BY <1>3, <1>5, <2>1, <3>1 DEF OpenInv, Ordered
  <2> QED
    BY <1>2, <1>4, <1>5, <2>1 DEF OpenInv, Ordered
<1>9. Nested'
  <2> SUFFICES ASSUME NEW i \in 1..Len(frames'), frames'[i].id # None
               PROVE  /\ frames'[i].parent \in Nat
                      /\ frames'[i].parent # Root =>
                           \E j \in 1..i - 1 : frames'[j].id = frames'[i].parent
    BY DEF Nested, Root
  <2>1. i \in 1..Len(frames)
    BY <1>1, <1>6
  <2>2. \A j \in 1..i - 1 : j \in 1..Len(frames)
    BY <1>3, <2>1
  <2> QED
    BY <1>3, <1>5, <2>1, <2>2 DEF OpenInv, Nested
<1>10. Stocked'
  BY <1>1, <1>2, <1>3, <1>4, <1>5, <1>6 DEF OpenInv, Stocked
<1>11. SentInv'
  BY <1>2, Same_SentInv DEF TreeInv
<1> QED
  BY <1>2, <1>4, <1>5, <1>7, <1>8, <1>9, <1>10, <1>11 DEF TreeInv, OpenInv

\* The innermost open span is on the stack.
LEMMA InnermostIsOpen ==
  ASSUME StateInv, Ordered
  PROVE  Innermost \in Nat /\ (Innermost # Root => IsOpen(Innermost))
<1>1. parents \in Seq(Nat)
  BY DEF StateInv, TypeOK
<1>2. CASE parents = <<>>
  BY <1>2 DEF Innermost, Root
<1>3. CASE parents # <<>>
  <2>1. Len(parents) \in 1..Len(parents) /\ parents[Len(parents)] \in Nat
    BY <1>1, <1>3
  <2> QED
    BY <1>3, <2>1 DEF Innermost, Top, Ordered
<1> QED
  BY <1>2, <1>3

\* One id more, above all others.
LEMMA Push_Ordered ==
  ASSUME StateInv, FrameInv, Ordered, NEW frame \in Frame, frame.id = Minted,
         frames' = Append(frames, frame), parents' = Append(parents, Minted),
         \A id : IsOpen(id) => IsOpen(id)', IsOpen(frame.id)'
  PROVE  Ordered'
<1>1. /\ Len(frames) \in Nat /\ Len(frames') = Len(frames) + 1 /\ frames'[Len(frames) + 1] = frame
      /\ \A i \in 1..Len(frames) : frames'[i] = frames[i]
  BY Pushed DEF StateInv
<1>2. PICK top \in Nat : top = Minted /\ minted \in Nat /\ minted < top
  BY DEF StateInv, TypeOK, Minted
<1>3. parents \in Seq(Nat)
  BY DEF StateInv, TypeOK
<1>4. /\ Len(parents) \in Nat /\ Len(parents') = Len(parents) + 1
      /\ parents'[Len(parents) + 1] = top
      /\ \A k \in 1..Len(parents) : parents'[k] = parents[k] /\ parents[k] \in Nat
  <2>1. parents' = Append(parents, top)
    BY <1>2
  <2> QED
    BY <1>3, <2>1
<1>5. ASSUME NEW i \in 1..Len(frames), frames[i].id # None
      PROVE  frames[i].id \in Nat /\ frames[i].id < top
  <2>1. frames[i] \in Frame
    BY DEF StateInv, TypeOK
  <2>2. frames[i].id \in Nat /\ frames[i].id <= minted
    BY <1>5, <2>1 DEF Frame, FrameInv
  <2> QED
    BY <1>2, <2>2
<1>6. ASSUME NEW k \in 1..Len(parents) PROVE parents[k] < top
  <2>1. PICK i \in 1..Len(frames) : frames[i].id = parents[k]
    BY DEF Ordered, IsOpen
  <2>2. parents[k] # None
    BY <1>4, NativeSpansConstants
  <2> QED
    BY <1>5, <2>1, <2>2
<1>7. ASSUME NEW i \in 1..Len(frames'), NEW j \in 1..Len(frames'), i < j,
             frames'[i].id # None, frames'[j].id # None
      PROVE  frames'[i].id < frames'[j].id
  <2>1. i \in 1..Len(frames) /\ frames'[i] = frames[i]
    BY <1>1, <1>7
  <2>2. CASE j \in 1..Len(frames)
    BY <1>1, <1>7, <2>1, <2>2 DEF Ordered
  <2>3. CASE j \notin 1..Len(frames)
    <3>1. frames'[j] = frame
      BY <1>1, <2>3
    <3> QED
      BY <1>2, <1>5, <1>7, <2>1, <3>1
  <2> QED
    BY <2>2, <2>3
<1>8. ASSUME NEW k \in 1..Len(parents'), NEW l \in 1..Len(parents'), k < l
      PROVE  parents'[k] < parents'[l]
  <2>1. k \in 1..Len(parents) /\ parents'[k] = parents[k]
    BY <1>4, <1>8
  <2>2. CASE l \in 1..Len(parents)
    BY <1>4, <1>8, <2>1, <2>2 DEF Ordered
  <2>3. CASE l \notin 1..Len(parents)
    <3>1. parents'[l] = top
      BY <1>4, <2>3
    <3> QED
      BY <1>6, <2>1, <3>1
  <2> QED
    BY <2>2, <2>3
<1>9. ASSUME NEW k \in 1..Len(parents')
      PROVE  \E i \in 1..Len(frames') : frames'[i].id = parents'[k]
  <2>1. CASE k \in 1..Len(parents)
    <3>1. PICK id : id = parents[k]
      OBVIOUS
    <3>2. IsOpen(id) /\ parents'[k] = id
      BY <1>4, <2>1, <3>1 DEF Ordered
    <3>3. IsOpen(id)'
      BY <3>2
    <3> QED
      BY <3>2, <3>3 DEF IsOpen
  <2>2. CASE k \notin 1..Len(parents)
    <3>1. parents'[k] = frame.id
      BY <1>2, <1>4, <2>2
    <3> QED
      BY <3>1 DEF IsOpen
  <2> QED
    BY <2>1, <2>2
<1> QED
  BY <1>7, <1>8, <1>9 DEF Ordered, IsOpen

LEMMA PushesSpan_TreeInv ==
  ASSUME StateInv, FrameInv, TreeInv, NEW f \in Functions, NEW frame \in Frame,
         PushesSpan(f, frame)
  PROVE  TreeInv'
<1>1. /\ context # None /\ frame.f = f /\ frame.id = Minted /\ ~frame.owns
      /\ frame.attributes \/ Table[f] = "poll"
      /\ frame.parent = Innermost /\ parents' = Append(parents, Minted)
      /\ frames' = Append(frames, frame)
      /\ UNCHANGED <<context, started, spans, shipped, lost>>
  BY DEF PushesSpan
<1>2. bodies' = IF frame.stored THEN bodies \cup {Minted} ELSE bodies
  BY DEF PushesSpan
<1>3. /\ Len(frames) \in Nat /\ Len(frames') = Len(frames) + 1 /\ frames'[Len(frames) + 1] = frame
      /\ \A i \in 1..Len(frames) : frames'[i] = frames[i]
  BY <1>1, Pushed DEF StateInv
<1>4. /\ \A id : IsOpen(id) => IsOpen(id)'
      /\ IsOpen(frame.id)'
      /\ \A s : Tied(s) => Tied(s)'
      /\ \A b : Owned(b) => Owned(b)'
  BY <1>1, Pushing
<1>5. OpenInv
  BY <1>1 DEF TreeInv
<1>6. ASSUME NEW i \in 1..Len(frames') PROVE i \in 1..Len(frames) \/ frames'[i] = frame
  BY <1>3
<1>7. KeepInv'
  BY <1>1, <1>3, <1>6 DEF TreeInv, KeepInv, KeepsSpan
<1>8. Ordered'
  BY <1>1, <1>4, <1>5, Push_Ordered DEF OpenInv
<1>9. Nested'
  <2> SUFFICES ASSUME NEW i \in 1..Len(frames'), frames'[i].id # None
               PROVE  /\ frames'[i].parent \in Nat
                      /\ frames'[i].parent # Root =>
                           \E j \in 1..i - 1 : frames'[j].id = frames'[i].parent
    BY DEF Nested, Root
  <2>1. CASE i \in 1..Len(frames)
    <3>1. \A j \in 1..i - 1 : j \in 1..Len(frames)
      BY <1>3, <2>1
    <3> QED
      BY <1>3, <1>5, <2>1, <3>1 DEF OpenInv, Nested
  <2>2. CASE i \notin 1..Len(frames)
    <3>1. i = Len(frames) + 1 /\ frames'[i] = frame /\ i - 1 = Len(frames)
      BY <1>3, <2>2
    <3>2. Innermost \in Nat /\ (Innermost # Root => IsOpen(Innermost))
      BY <1>5, InnermostIsOpen DEF OpenInv
    <3> QED
      BY <1>1, <1>3, <3>1, <3>2 DEF IsOpen
  <2> QED
    BY <2>1, <2>2
<1>10. Stocked'
  <2>1. bodies \subseteq bodies'
    BY <1>2
  <2>2. ASSUME NEW i \in 1..Len(frames'), frames'[i].id # None, frames'[i].stored
        PROVE  frames'[i].id \in bodies'
    <3>1. CASE i \in 1..Len(frames)
      BY <1>3, <1>5, <2>1, <2>2, <3>1 DEF OpenInv, Stocked
    <3>2. CASE frames'[i] = frame
      BY <1>1, <1>2, <2>2, <3>2
    <3> QED
      BY <1>6, <3>1, <3>2
  <2>3. ASSUME NEW b \in bodies' PROVE Owned(b)'
    <3>1. CASE b \in bodies
      BY <1>4, <1>5, <3>1 DEF OpenInv, Stocked
    <3>2. CASE b \notin bodies
      <4>1. b = frame.id /\ Minted \in Nat
        BY <1>1, <1>2, <3>2 DEF StateInv, TypeOK, Minted
      <4>2. IsOpen(b)' /\ b \in Nat
        BY <1>1, <1>4, <4>1
      <4> QED
        BY <4>2 DEF Owned
    <3> QED
      BY <3>1, <3>2
  <2>4. \A s \in spans' : s.stored => s.id \in bodies'
    BY <1>1, <1>5, <2>1 DEF OpenInv, Stocked
  <2> QED
    BY <2>2, <2>3, <2>4 DEF Stocked
<1>11. SentInv'
  BY <1>1, Same_SentInv DEF TreeInv
<1> QED
  BY <1>1, <1>4, <1>5, <1>7, <1>8, <1>9, <1>10, <1>11 DEF TreeInv, OpenInv

LEMMA Opens_TreeInv ==
  ASSUME TreeInv, Opens PROVE TreeInv'
<1>1. /\ parents' = <<>> /\ spans' = {} /\ bodies' = {} /\ context' # None
      /\ UNCHANGED <<shipped, lost>>
  BY NativeSpansConstants DEF Opens
<1>2. \A i \in 1..Len(frames') : frames'[i].id = None /\ i = 1
  <2>1. CASE frames' = <<>>
    BY <2>1
  <2>2. ASSUME NEW f \in Functions, frames' = <<[Plain(f) EXCEPT !.owns = TRUE]>>
        PROVE  \A i \in 1..Len(frames') : frames'[i].id = None /\ i = 1
    <3>1. PICK frame : frame = [Plain(f) EXCEPT !.owns = TRUE] /\ frame.id = None
      BY Owner_Typed
    <3>2. frames' = <<frame>>
      BY <2>2, <3>1
    <3>3. \A i \in 1..Len(frames') : frames'[i] = frame /\ i = 1
      BY <3>2
    <3> QED
      BY <3>1, <3>3
  <2> QED
    BY <2>1, <2>2 DEF Opens
<1>3. KeepInv' /\ Ordered' /\ Nested' /\ Stocked'
  <2>1. 1..Len(parents') = {}
    BY <1>1
  <2> QED
    BY <1>1, <1>2, <2>1 DEF KeepInv, Ordered, Nested, Stocked
<1>4. SentInv'
  BY <1>1, Same_SentInv DEF TreeInv
<1> QED
  BY <1>1, <1>3, <1>4 DEF TreeInv, OpenInv

LEMMA Closes_TreeInv ==
  ASSUME StateInv, FrameInv, TreeInv, Closes PROVE TreeInv'
<1>1. /\ context' = None /\ Sent
      /\ lost' = lost \cup ({frames'[i].id : i \in 1..Len(frames')} \ {None})
  BY DEF Closes, Closed
<1>2. context # None
  <2>1. CASE frames # <<>> /\ Top(frames).owns
    <3>1. Len(frames) \in 1..Len(frames)
      BY <2>1, Popping DEF StateInv
    <3> QED
      BY <2>1, <3>1 DEF TreeInv, KeepInv, Top
  <2> QED
    BY <2>1 DEF Closes
<1>3. OpenInv
  BY <1>2 DEF TreeInv
<1>4. /\ \A i \in 1..Len(frames') : i \in 1..Len(frames) /\ frames'[i] = frames[i]
      /\ \A i \in 1..Len(frames) : frames[i].id # None => i \in 1..Len(frames')
  <2>1. CASE frames' = frames
    BY <2>1
  <2>2. CASE frames # <<>> /\ Top(frames).owns /\ frames' = Pop(frames)
    <3>1. /\ Len(frames) \in Nat \ {0} /\ Len(frames') = Len(frames) - 1
          /\ \A i \in 1..Len(frames) - 1 : frames'[i] = frames[i]
          /\ Top(frames) = frames[Len(frames)]
      BY <2>2, Popping DEF StateInv, Top
    <3>2. frames[Len(frames)].id = None
      BY <2>2, <3>1 DEF FrameInv
    <3> QED
      BY <3>1, <3>2
  <2> QED
    BY <2>1, <2>2 DEF Closes
<1>5. KeepInv'
  <2>1. \A i \in 1..Len(frames') : ~frames'[i].owns
    <3>1. CASE \A i \in 1..Len(frames) : ~frames[i].owns
      BY <1>4, <3>1
    <3>2. CASE frames # <<>> /\ Top(frames).owns /\ frames' = Pop(frames)
      <4>1. Len(frames) \in Nat \ {0} /\ Len(frames') = Len(frames) - 1
        BY <3>2, Popping DEF StateInv
      <4>2. Len(frames) = 1
        BY <3>2, <4>1 DEF TreeInv, KeepInv, Top
      <4> QED
        BY <4>1, <4>2
    <3> QED
      BY <3>1, <3>2 DEF Closes
  <2> QED
    BY <1>4, <2>1 DEF TreeInv, KeepInv, KeepsSpan
<1>6. ASSUME NEW id \in Nat, IsOpen(id) PROVE id \in lost'
  <2>1. PICK i \in 1..Len(frames) : frames[i].id = id
    BY <1>6 DEF IsOpen
  <2>2. id # None
    BY NativeSpansConstants
  <2>3. i \in 1..Len(frames') /\ frames'[i].id = id
    BY <1>4, <2>1, <2>2
  <2> QED
    BY <1>1, <2>2, <2>3
<1>7. lost \subseteq lost'
  BY <1>1
<1>8. CASE UNCHANGED shipped
  BY <1>1, <1>5, <1>7, <1>8, Same_SentInv DEF TreeInv
<1>9. CASE shipped' = [spans |-> shipped.spans \cup spans, bodies |-> shipped.bodies \cup bodies]
  <2>1. shipped'.spans = shipped.spans \cup spans /\ shipped'.bodies = shipped.bodies \cup bodies
    BY <1>9
  <2>2. ASSUME NEW s \in shipped'.spans PROVE HangsSent(s)' /\ (s.stored => s.id \in shipped'.bodies)
    <3>1. CASE s \in shipped.spans
      BY <1>7, <2>1, <3>1 DEF TreeInv, SentInv, HangsSent
    <3>2. CASE s \in spans
      <4>1. s.stored => s.id \in shipped'.bodies
        BY <1>3, <2>1, <3>2 DEF OpenInv, Stocked
      <4>2. Tied(s)
        BY <1>3, <3>2 DEF OpenInv
      <4>3. CASE s.f = None \/ s.parent = Root \/ s.parent \in lost
        BY <1>7, <4>1, <4>3 DEF HangsSent, Root
      <4>4. CASE s.f # None /\ IsOpen(s.parent)
        BY <1>6, <4>1, <4>2, <4>4 DEF Tied, HangsSent
      <4>5. CASE IsBatch(s.parent)
        <5>1. PICK p \in spans : p.id = s.parent
          BY <4>5 DEF IsBatch
        <5>2. p.of = s.of
          BY <1>3, <4>2, <5>1 DEF OpenInv, Tied
        <5> QED
          BY <2>1, <4>1, <5>1, <5>2 DEF HangsSent
      <4> QED
        BY <4>2, <4>3, <4>4, <4>5 DEF Tied
    <3> QED
      BY <2>1, <3>1, <3>2
  <2>3. ASSUME NEW b \in shipped'.bodies PROVE IsSent(b)' \/ b \in lost'
    <3>1. CASE b \in shipped.bodies
      BY <1>7, <2>1, <3>1 DEF TreeInv, SentInv, IsSent
    <3>2. CASE b \in bodies
      <4>1. b \in Nat /\ (IsOpen(b) \/ IsBatch(b) \/ b \in lost)
        BY <1>3, <3>2 DEF OpenInv, Stocked, Owned
      <4> QED
        BY <1>6, <1>7, <2>1, <4>1 DEF IsBatch, IsSent
    <3> QED
      BY <2>1, <3>1, <3>2
  <2>4. SentInv'
    BY <2>2, <2>3 DEF SentInv
  <2> QED
    BY <1>1, <1>5, <2>4 DEF TreeInv
<1> QED
  BY <1>1, <1>8, <1>9 DEF Sent

LEMMA Records_TreeInv ==
  ASSUME StateInv, TreeInv, Records PROVE TreeInv'
<1>1. /\ context # None
      /\ UNCHANGED <<context, started, frames, parents, bodies, shipped>>
  BY DEF Records
<1>2. /\ spans \subseteq spans' /\ lost \subseteq lost'
      /\ \A s \in spans' : s \in spans \/ (s.f = None /\ s.of = started /\ ~s.stored)
  BY DEF Records
<1>3. OpenInv
  BY <1>1 DEF TreeInv
<1>4. \A id : (IsOpen(id)' <=> IsOpen(id)) /\ (IsBatch(id) => IsBatch(id)')
  BY <1>1, <1>2 DEF IsOpen, IsBatch
<1>5. KeepInv' /\ Ordered' /\ Nested'
  <2>1. Ordered' /\ Nested'
    BY <1>1, <1>3 DEF OpenInv, Ordered, Nested, IsOpen
  <2> QED
    BY <1>1, <2>1 DEF TreeInv, KeepInv, KeepsSpan
<1>6. \A s \in spans' : Tied(s)'
  <2>1. ASSUME NEW s \in spans PROVE Tied(s)'
    BY <1>1, <1>2, <1>3, <1>4 DEF OpenInv, Tied
  <2>2. ASSUME NEW s, s.f = None, s.of = started PROVE Tied(s)'
    BY <1>1, <2>2 DEF Tied
  <2> QED
    BY <1>2, <2>1, <2>2
<1>7. Stocked'
  BY <1>1, <1>2, <1>3, <1>4 DEF OpenInv, Stocked, Owned
<1>8. SentInv'
  BY <1>1, <1>2, Same_SentInv DEF TreeInv
<1> QED
  BY <1>5, <1>6, <1>7, <1>8 DEF TreeInv, OpenInv

LEMMA Arms_TreeInv ==
  ASSUME TreeInv, Arms PROVE TreeInv'
BY DEF TreeInv, KeepInv, KeepsSpan, SentInv, HangsSent, OpenInv, Ordered, Nested, Tied, Owned,
       Stocked, IsOpen, IsBatch, IsSent, Arms

\* The frame on top is recorded as it is, or refused by the cap.
LEMMA Ended ==
  ASSUME StateInv, KeepInv, NEW notable \in BOOLEAN, Pops(notable)
  PROVE  /\ spans \subseteq spans' /\ lost \subseteq lost'
         /\ Top(frames).id # None => \/ \E s \in spans' : s.id = Top(frames).id
                                     \/ Top(frames).id \in lost'
         /\ \A s \in spans' : \/ s \in spans
                              \/ /\ Top(frames).id # None
                                 /\ s.id = Top(frames).id /\ s.parent = Top(frames).parent
                                 /\ s.of = started /\ s.stored = Top(frames).stored
<1>1. Top(frames) \in Frame /\ Len(frames) \in 1..Len(frames) /\ Top(frames) = frames[Len(frames)]
  BY Popping DEF Pops, StateInv, Top
<1>2. PICK frame : frame = Answered(Top(frames))
  OBVIOUS
<1>3. /\ frame.id = Top(frames).id /\ frame.parent = Top(frames).parent
      /\ frame.stored = Top(frames).stored
      /\ KeepsSpan(Top(frames)) /\ Top(frames).id # None => frame.attributes
  BY <1>1, <1>2 DEF Answered, Frame, KeepsSpan
<1>4. Finished(frame, notable)
  BY <1>2 DEF Pops
<1>5. PICK s : s = AsSpan(frame)
  OBVIOUS
<1>6. /\ s.id = Top(frames).id /\ s.parent = Top(frames).parent
      /\ s.of = started /\ s.stored = Top(frames).stored
  BY <1>3, <1>5 DEF AsSpan
<1>7. spans' = spans \/ (spans' = spans \cup {s} /\ frame.id # None)
  BY <1>4, <1>5 DEF Finished
<1>8. ASSUME Top(frames).id # None
      PROVE  (\E t \in spans' : t.id = Top(frames).id) \/ Top(frames).id \in lost'
  <2>1. KeepsSpan(Top(frames))
    BY <1>1, <1>8 DEF KeepInv
  <2>2. frame.id # None /\ Keep(frame, notable)
    BY <1>3, <1>8, <2>1 DEF Keep
  <2>3. CASE HasRoom(frame.bypass)
    <3>1. spans' = spans \cup {s}
      BY <1>4, <1>5, <2>2, <2>3 DEF Finished
    <3> QED
      BY <1>6, <3>1
  <2>4. CASE ~HasRoom(frame.bypass)
    <3>1. lost' = lost \cup {frame.id}
      BY <1>4, <2>2, <2>4 DEF Finished
    <3> QED
      BY <1>3, <3>1
  <2> QED
    BY <2>3, <2>4
<1>9. lost \subseteq lost'
  BY <1>4 DEF Finished
<1> QED
  BY <1>3, <1>6, <1>7, <1>8, <1>9

\* The parent goes with its span: what is left of the parents is open.
LEMMA Pop_Ordered ==
  ASSUME StateInv, Ordered, NEW notable \in BOOLEAN, Pops(notable)
  PROVE  Ordered'
<1>1. /\ Len(frames) \in Nat \ {0} /\ Len(frames') = Len(frames) - 1
      /\ \A i \in 1..Len(frames) - 1 : Alike(frames'[i], frames[i])
      /\ Top(frames) = frames[Len(frames)]
  BY Popping, Popped DEF Pops, StateInv, Top
<1>2. parents \in Seq(Nat) /\ \A i \in 1..Len(frames) : frames[i] \in Frame
  BY DEF StateInv, TypeOK
<1>3. PICK n \in Nat : /\ n <= Len(parents) /\ Len(parents') = n
                       /\ \A k \in 1..n : parents'[k] = parents[k] /\ parents[k] \in Nat
                       /\ \A k \in 1..n : parents[k] # Top(frames).id
  <2>1. CASE parents # <<>> /\ Top(parents) = Top(frames).id
    <3>1. parents' = Pop(parents) /\ Top(parents) = parents[Len(parents)]
      BY <2>1 DEF Pops, Top
    <3>2. Len(parents) \in Nat \ {0} /\ \A k \in 1..Len(parents) : parents[k] \in Nat
      BY <1>2, <2>1
    <3>3. /\ Len(Pop(parents)) = Len(parents) - 1
          /\ \A k \in 1..Len(parents) - 1 : Pop(parents)[k] = parents[k]
      <4>1. 1 \in Int /\ Len(parents) - 1 \in Int /\ Len(parents) - 1 - 1 + 1 = Len(parents) - 1
        BY <3>2
      <4>2. \A k \in 1..Len(parents) - 1 : parents[k] \in Nat
        BY <3>2
      <4>3. /\ Len(SubSeq(parents, 1, Len(parents) - 1)) =
                 IF 1 <= Len(parents) - 1 THEN Len(parents) - 1 - 1 + 1 ELSE 0
            /\ \A k \in 1..(Len(parents) - 1 - 1 + 1) :
                 SubSeq(parents, 1, Len(parents) - 1)[k] = parents[1 + k - 1]
        BY <4>1, <4>2, SubSeqProperties
      <4> QED
        BY <3>2, <4>1, <4>3 DEF Pop
    <3>4. Len(parents) \in 1..Len(parents)
      BY <3>2
    <3>5. \A k \in 1..Len(parents) - 1 : parents[k] < parents[Len(parents)]
      BY <3>2, <3>4 DEF Ordered
    <3>6. \A k \in 1..Len(parents) - 1 : parents[k] \in Nat /\ parents[k] # Top(frames).id
      BY <2>1, <3>1, <3>2, <3>4, <3>5
    <3>7. Len(parents) - 1 \in Nat /\ Len(parents) - 1 <= Len(parents)
      BY <3>2
    <3>8. PICK n \in Nat : n = Len(parents) - 1
      BY <3>7
    <3> QED
      BY <3>1, <3>3, <3>6, <3>7, <3>8
  <2>2. CASE ~(parents # <<>> /\ Top(parents) = Top(frames).id)
    <3>1. parents' = parents
      BY <2>2 DEF Pops
    <3>2. Len(parents) \in Nat /\ \A k \in 1..Len(parents) : parents[k] \in Nat
      BY <1>2
    <3>3. ASSUME NEW k \in 1..Len(parents), parents[k] = Top(frames).id PROVE FALSE
      <4>1. Len(parents) \in 1..Len(parents) /\ parents # <<>>
        BY <3>2, <3>3
      <4>2. k # Len(parents)
        BY <2>2, <3>3, <4>1 DEF Top
      <4>3. parents[k] < parents[Len(parents)]
        BY <3>2, <4>1, <4>2 DEF Ordered
      <4>4. PICK i \in 1..Len(frames) : frames[i].id = parents[Len(parents)]
        BY <4>1 DEF Ordered, IsOpen
      <4>5. parents[k] # None /\ parents[Len(parents)] # None
        BY <3>2, <4>1, NativeSpansConstants
      <4>6. frames[Len(frames)].id = parents[k]
        BY <1>1, <3>3
      <4>7. i # Len(frames)
        BY <3>2, <4>1, <4>3, <4>4, <4>6
      <4>8. frames[i].id < frames[Len(frames)].id
        BY <1>1, <4>4, <4>5, <4>6, <4>7 DEF Ordered
      <4> QED
        BY <3>2, <4>1, <4>3, <4>4, <4>6, <4>8
    <3> QED
      BY <3>1, <3>2, <3>3
  <2> QED
    BY <2>1, <2>2
<1>4. ASSUME NEW i \in 1..Len(frames'), NEW j \in 1..Len(frames'), i < j,
             frames'[i].id # None, frames'[j].id # None
      PROVE  frames'[i].id < frames'[j].id
  <2>1. /\ i \in 1..Len(frames) /\ j \in 1..Len(frames)
        /\ frames'[i].id = frames[i].id /\ frames'[j].id = frames[j].id
    BY <1>1 DEF Alike
  <2> QED
    BY <1>4, <2>1 DEF Ordered
<1>5. ASSUME NEW k \in 1..Len(parents'), NEW l \in 1..Len(parents'), k < l
      PROVE  parents'[k] < parents'[l]
  BY SMTT(60), <1>2, <1>3, <1>5 DEF Ordered
<1>6. ASSUME NEW k \in 1..Len(parents')
      PROVE  \E i \in 1..Len(frames') : frames'[i].id = parents'[k]
  <2>1. k \in 1..Len(parents) /\ parents'[k] = parents[k] /\ parents[k] # Top(frames).id
    BY <1>2, <1>3
  <2>2. PICK i \in 1..Len(frames) : frames[i].id = parents[k]
    BY <2>1 DEF Ordered, IsOpen
  <2>3. i \in 1..Len(frames') /\ frames'[i].id = parents'[k]
    BY <1>1, <2>1, <2>2 DEF Alike
  <2> QED
    BY <2>3
<1> QED
  BY <1>4, <1>5, <1>6 DEF Ordered, IsOpen

LEMMA Pops_TreeInv ==
  ASSUME StateInv, TreeInv, NEW notable \in BOOLEAN, Pops(notable) PROVE TreeInv'
<1>1. UNCHANGED <<context, started, bodies, shipped>>
  BY DEF Pops
<1>2. /\ Len(frames) \in Nat \ {0} /\ Len(frames') = Len(frames) - 1
      /\ \A i \in 1..Len(frames) - 1 : Alike(frames'[i], frames[i])
      /\ Top(frames) = frames[Len(frames)]
  BY Popping, Popped DEF Pops, StateInv, Top
<1>3. PICK top : top = Top(frames)
  OBVIOUS
<1>4. /\ spans \subseteq spans' /\ lost \subseteq lost'
      /\ top.id # None => IsBatch(top.id)' \/ top.id \in lost'
      /\ \A s \in spans' : \/ s \in spans
                           \/ /\ top.id # None
                              /\ s.id = top.id /\ s.parent = top.parent
                              /\ s.of = started /\ s.stored = top.stored
  BY <1>3, Ended DEF TreeInv, IsBatch
<1>5. KeepInv'
  BY <1>1, <1>2 DEF TreeInv, KeepInv, KeepsSpan, Alike
<1>6. SentInv'
  BY <1>1, <1>4, Same_SentInv DEF TreeInv
<1>7. ASSUME context # None PROVE OpenInv'
  <2>1. OpenInv
    BY <1>7 DEF TreeInv
  <2>2. ASSUME NEW id \in Nat, IsOpen(id) PROVE IsOpen(id)' \/ IsBatch(id)' \/ id \in lost'
    <3>1. PICK i \in 1..Len(frames) : frames[i].id = id
      BY <2>2 DEF IsOpen
    <3>2. CASE i = Len(frames)
      BY <1>2, <1>3, <1>4, <3>1, <3>2, NativeSpansConstants
    <3>3. CASE i # Len(frames)
      <4>1. i \in 1..Len(frames') /\ frames'[i].id = id
        BY <1>2, <3>1, <3>3 DEF Alike
      <4> QED
        BY <4>1 DEF IsOpen
    <3> QED
      BY <3>2, <3>3
  <2>3. \A id : IsBatch(id) => IsBatch(id)'
    BY <1>4 DEF IsBatch
  <2>4. Nested'
    <3> SUFFICES ASSUME NEW i \in 1..Len(frames'), frames'[i].id # None
                 PROVE  /\ frames'[i].parent \in Nat
                        /\ frames'[i].parent # Root =>
                             \E j \in 1..i - 1 : frames'[j].id = frames'[i].parent
      BY DEF Nested, Root
    <3>1. /\ i \in 1..Len(frames)
          /\ frames'[i].id = frames[i].id /\ frames'[i].parent = frames[i].parent
      BY <1>2 DEF Alike
    <3>2. \A j \in 1..i - 1 : frames'[j].id = frames[j].id
      BY <1>2 DEF Alike
    <3> QED
      BY <2>1, <3>1, <3>2 DEF OpenInv, Nested
  <2>5. ASSUME NEW s \in spans' PROVE Tied(s)'
    <3>1. CASE s \in spans
      BY <1>1, <1>4, <2>1, <2>2, <2>3, <3>1 DEF OpenInv, Tied
    <3>2. CASE s \notin spans
      <4>1. top.id # None /\ s.parent = top.parent /\ s.of = started
        BY <1>4, <3>2
      <4>2. /\ top.parent \in Nat
            /\ top.parent # Root => \E j \in 1..Len(frames) - 1 : frames[j].id = top.parent
        BY <1>2, <1>3, <2>1, <4>1 DEF OpenInv, Nested
      <4>3. top.parent # Root => IsOpen(top.parent)'
        BY <1>2, <4>2 DEF IsOpen, Alike
      <4> QED
        BY <1>1, <4>1, <4>2, <4>3 DEF Tied, Root
    <3> QED
      BY <3>1, <3>2
  <2>6. Stocked'
    <3>1. ASSUME NEW s \in spans', s.stored PROVE s.id \in bodies'
      <4>1. CASE s \in spans
        BY <1>1, <2>1, <3>1, <4>1 DEF OpenInv, Stocked
      <4>2. CASE s \notin spans
        <5>1. top.id # None /\ s.id = top.id /\ s.stored = top.stored
          BY <1>4, <4>2
        <5>2. Len(frames) \in 1..Len(frames) /\ top = frames[Len(frames)]
          BY <1>2, <1>3
        <5> QED
          BY <1>1, <2>1, <3>1, <5>1, <5>2 DEF OpenInv, Stocked
      <4> QED
        BY <4>1, <4>2
    <3>2. ASSUME NEW i \in 1..Len(frames'), frames'[i].id # None, frames'[i].stored
          PROVE  frames'[i].id \in bodies'
      <4>1. /\ i \in 1..Len(frames)
            /\ frames'[i].id = frames[i].id /\ frames'[i].stored = frames[i].stored
        BY <1>2 DEF Alike
      <4> QED
        BY <1>1, <2>1, <3>2, <4>1 DEF OpenInv, Stocked
    <3>3. ASSUME NEW b \in bodies' PROVE Owned(b)'
      BY <1>1, <1>4, <2>1, <2>2, <2>3 DEF OpenInv, Stocked, Owned
    <3> QED
      BY <3>1, <3>2, <3>3 DEF Stocked
  <2>7. Ordered'
    BY <2>1, Pop_Ordered DEF OpenInv
  <2> QED
    BY <2>4, <2>5, <2>6, <2>7 DEF OpenInv
<1> QED
  BY <1>1, <1>5, <1>6, <1>7 DEF TreeInv

LEMMA TreeInvariance == Spec => [](SpansInv /\ TreeInv)
<1>1. Init => TreeInv
  <2> SUFFICES ASSUME Init PROVE TreeInv
    OBVIOUS
  <2>1. frames = <<>> /\ context = None /\ shipped.spans = {} /\ shipped.bodies = {}
    BY DEF Init
  <2> QED
    BY <2>1 DEF TreeInv, KeepInv, SentInv
<1>2. SpansInv /\ TreeInv /\ [Next]_vars => TreeInv'
  <2> SUFFICES ASSUME SpansInv, TreeInv, [Next]_vars PROVE TreeInv'
    OBVIOUS
  <2>1. StateInv /\ FrameInv
    BY DEF SpansInv
  <2>2. Seen
    <3>1. CASE Next
      BY <2>1, <3>1, Next_Seen DEF StateInv
    <3>2. CASE UNCHANGED vars
      BY <3>2 DEF vars, Seen, seenVars, requestVars, frameVars, wireVars
    <3> QED
      BY <3>1, <3>2
  <2> QED
    BY <2>1, <2>2, Same_TreeInv, Pushes_TreeInv, PushesSpan_TreeInv, Opens_TreeInv,
       Closes_TreeInv, Records_TreeInv, Pops_TreeInv, Arms_TreeInv DEF Seen
<1> QED
  BY <1>1, <1>2, SpansInvariance, PTL DEF Spec

\* Every span that is recorded hangs below the root by spans of its own request: an ancestor
\* is missing only where the cap refused it or the request was closed before it ended.
THEOREM TreesAreConnected == Spec => []TreeIsConnected
<1>1. TreeInv => TreeIsConnected
  <2> SUFFICES ASSUME TreeInv PROVE TreeIsConnected
    OBVIOUS
  <2>1. \A s \in shipped.spans : Hangs(s, shipped.spans)
    BY DEF TreeInv, SentInv, HangsSent, Hangs
  <2>2. ASSUME context # None, NEW s \in spans
        PROVE  Hangs(s, spans) \/ s.parent \in OpenIds
    <3>1. Tied(s) /\ \A p \in spans : p.of = started
      BY <2>2 DEF TreeInv, OpenInv, Tied
    <3>2. s.f # None /\ IsOpen(s.parent) => s.parent \in OpenIds
      BY <3>1, NativeSpansConstants DEF Tied, IsOpen, OpenIds, Open
    <3>3. IsBatch(s.parent) => Hangs(s, spans)
      BY <3>1 DEF Tied, IsBatch, Hangs
    <3> QED
      BY <3>1, <3>2, <3>3 DEF Tied, Hangs
  <2> QED
    BY <2>1, <2>2 DEF TreeIsConnected
<1> QED
  BY <1>1, TreeInvariance, PTL

\* A span that says its payload is stored is sent with it, and a payload is sent without its
\* span only where the cap refused that span or its request was closed first.
THEOREM BodiesFollowTheirSpans == Spec => []BodiesHaveTheirSpans
<1>1. TreeInv => BodiesHaveTheirSpans
  BY DEF TreeInv, SentInv, IsSent, BodiesHaveTheirSpans
<1> QED
  BY <1>1, TreeInvariance, PTL
===========================================================================
