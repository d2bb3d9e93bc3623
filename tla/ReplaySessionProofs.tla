------------------------ MODULE ReplaySessionProofs ------------------------
(***************************************************************************)
(* What a replay may be believed to say, for any recording, policy and     *)
(* workload: answers are in order, what was invented is announced, what    *)
(* was not performed is reported, and a green exit means a conformant run. *)
(***************************************************************************)
EXTENDS ReplaySessionChecks, FiniteSetTheorems, SequenceTheorems, WellFoundedInduction, TLAPS

---------------------------------------------------------------------------
(* The recording and the policy stay what they are *)

LEMMA PlanIsFixed == ASSUME [Next]_vars PROVE plan' = plan
BY DEF Next, vars, BootOrdinary, BootRefused, BootReplay, PerformReal, Resolve, Blocked, Hit,
       Simulate, Miss, NoPerformer, Perform, PerformerReturns, PerformerFails, ScriptEnds, Settle,
       NothingToSettle, Exit

LEMMA RecordingIsFixed ==
  ASSUME plan' = plan
  PROVE  /\ Selectable' = Selectable
         /\ \A i : WithAnswer(i)' = WithAnswer(i)
         /\ \A e : Matches(e)' = Matches(e)
         /\ \A e, n : EventAt(e, n)' = EventAt(e, n)
         /\ Asked' = Asked /\ Informational' = Informational
<1>1. Bind' = Bind
  BY DEF Bind, Recording
<1>2. Selectable' = Selectable
  BY <1>1 DEF Selectable, Recording
<1>3. \A e : Matches(e)' = Matches(e)
  BY <1>2 DEF Matches, Recording
<1>4. ASSUME NEW e, NEW n PROVE EventAt(e, n)' = EventAt(e, n)
  <2>1. PICK matches : matches = Matches(e) /\ matches = Matches(e)'
    BY <1>3
  <2> QED
    BY <2>1 DEF EventAt
<1>5. \A i : WithAnswer(i)' = WithAnswer(i)
  BY <1>1 DEF WithAnswer
<1> QED
  BY <1>2, <1>3, <1>4, <1>5 DEF Asked, Informational

\* What is fetched is an event that can answer, or nothing.
LEMMA EventsAnswer ==
  ASSUME NEW e, NEW n
  PROVE  /\ EventAt(e, n) = 0 \/ EventAt(e, n) \in Matches(e)
         /\ EventAt(e, n) # 0 =>
              Cardinality({j \in Matches(e) : j < EventAt(e, n)}) = n
         /\ Matches(e) \subseteq Selectable
BY DEF EventAt, Matches

\* Consuming an event consumes no other that could answer.
LEMMA AnswersApart ==
  ASSUME NEW i \in Selectable
  PROVE  /\ i \in WithAnswer(i)
         /\ \A k \in WithAnswer(i) : k \in Selectable => k = i
BY DEF WithAnswer, Selectable, Range

LEMMA PositionsAreNat ==
  ASSUME plan \in Plans
  PROVE  /\ Selectable \subseteq Nat /\ 0 \notin Selectable
         /\ IsFiniteSet(DOMAIN Recording) /\ Selectable \subseteq DOMAIN Recording
<1>1. Recording \in Seq(Event)
  BY ReplayAssumption DEF Plan, Recording
<1>2. DOMAIN Recording = 1..Len(Recording) /\ Len(Recording) \in Nat
  BY <1>1
<1>3. IsFiniteSet(1..Len(Recording))
  BY <1>2, FS_Interval
<1> QED
  BY <1>2, <1>3 DEF Selectable

\* Later ordinals are later events.
LEMMA OrdinalsAreOrdered ==
  ASSUME plan \in Plans, NEW e, NEW n \in Nat, NEW m \in Nat, n < m,
         EventAt(e, n) # 0, EventAt(e, m) # 0
  PROVE  EventAt(e, n) < EventAt(e, m)
<1> DEFINE i == EventAt(e, n)
           j == EventAt(e, m)
           Before(k) == {l \in Matches(e) : l < k}
<1>1. /\ i \in Matches(e) /\ j \in Matches(e) /\ Matches(e) \subseteq Nat
      /\ IsFiniteSet(Matches(e))
      /\ Cardinality(Before(i)) = n /\ Cardinality(Before(j)) = m
  <2>1. Matches(e) \subseteq DOMAIN Recording
    BY PositionsAreNat, EventsAnswer
  <2>2. IsFiniteSet(Matches(e))
    BY <2>1, PositionsAreNat, FS_Subset
  <2> QED
    BY <2>2, PositionsAreNat, EventsAnswer
<1>2. SUFFICES ASSUME j <= i PROVE FALSE
  BY <1>1
<1>3. Before(j) \subseteq Before(i) /\ IsFiniteSet(Before(i))
  <2>1. Before(j) \subseteq Before(i)
    BY <1>1, <1>2
  <2>2. Before(i) \subseteq Matches(e)
    OBVIOUS
  <2> QED
    BY <1>1, <2>1, <2>2, FS_Subset
<1>4. Cardinality(Before(j)) <= Cardinality(Before(i))
  BY <1>3, FS_Subset
<1> QED
  BY <1>1, <1>4

---------------------------------------------------------------------------
(* The invariant *)

Outcomes == {"hit", "passthrough", "blocked", "simulated", "miss"}
Call     == [step : Nat, effect : Effects, ordinal : Nat, event : Nat]
Answer   == [step : Nat, effect : Effects, ordinal : Nat, outcome : Outcomes, event : Nat]

Types ==
  /\ plan \in Plans /\ step \in Nat
  /\ cursors \in [Channels \X {e.selector : e \in Effects} -> Nat]
  /\ lookups \subseteq Answer /\ waiting \in Seq(Call)
  /\ aborted \in BOOLEAN /\ finished \in BOOLEAN

\* When the session is over, and what the exit code was drawn from.
Phases ==
  /\ phase \in {"boot", "running", "shutdown", "after", "exited"}
  /\ outcome \in {"conformant", "diverged", "precondition_failed", "aborted"}
  /\ phase = "boot" => ~finished /\ divergences = {}
  /\ waiting # <<>> => phase = "running" /\ plan.mount = "good"
  /\ aborted => finished
  /\ plan.mount = "good" /\ finished => phase \notin {"boot", "running"}
  /\ plan.mount \in Refusals /\ phase # "boot" => finished /\ outcome = "precondition_failed"
  /\ Asked /\ phase \in {"after", "exited"} =>
       finished /\ (outcome = "conformant" \/ status \notin {0, 1})

\* What a lookup that was answered has left behind.
Honest(l) ==
  /\ l.event \in Selectable \cup {0}
  /\ l.outcome = "blocked" => \E d \in divergences : d.type = "effect_blocked"
  /\ l.outcome = "simulated" => /\ l.effect.channel # "time"
                                /\ Raised(l.step, "simulated_substitution", 0) \in divergences
  /\ l.outcome = "passthrough" /\ l.event = 0 =>
       Raised(l.step, "passthrough_performed", 0) \in divergences
  /\ l.outcome = "miss" => aborted

InFlight == {waiting[i] : i \in 1..Len(waiting)}

\* An event that could answer is consumed exactly if a lookup was answered by it.
Answers ==
  /\ \A l \in lookups : Honest(l)
  /\ \A c \in InFlight : c.event \in Selectable \cup {0}
  /\ \A i \in Selectable : i \in consumed <=> \E l \in lookups : l.event = i

Unconsumed == {d.event : d \in {f \in divergences : f.type = "unconsumed_event"}}

\* What was never consumed is found once, when the session is finished, and the verdict is
\* drawn from everything found.
Findings ==
  /\ ~finished => reports = <<>> /\ \A d \in divergences : d.type # "unconsumed_event"
  /\ plan.mount = "good" /\ finished =>
       /\ outcome = Verdict(divergences, aborted)
       /\ ~aborted => /\ Unconsumed = Selectable \ consumed
                      /\ \A r \in Range(reports) : r.unconsumed = Cardinality(Unconsumed)

\* Lookups take places in the order in which they were made.
Places ==
  /\ \A x \in lookups \cup InFlight :
       /\ x.step <= step /\ x.ordinal < cursors[Key(x.effect)]
       /\ x.event \in {0, EventAt(x.effect, x.ordinal)}
  /\ \A x, y \in lookups \cup InFlight :
       x.step < y.step /\ Key(x.effect) = Key(y.effect) => x.ordinal < y.ordinal

SessionInv == Types /\ Phases /\ Answers /\ Findings /\ Places

---------------------------------------------------------------------------
(* Requests and answers, paired event by event *)

\* A set of naturals has a least element.
LEMMA LeastNatural ==
  ASSUME NEW S, S \subseteq Nat, S # {}
  PROVE  \E m \in S : \A n \in S : m <= n
<1>1. PICK m \in S : \A n \in S : ~(<<n, m>> \in OpToRel(<, Nat))
  BY NatLessThanWellFounded, WFMin, Zenon
<1>2. \A n \in S : ~(n < m)
  BY <1>1 DEF OpToRel
<1>3. QED
  BY <1>2

\* What holds of 0 and passes from each number to the next holds up to n.
LEMMA UpTo ==
  ASSUME NEW n \in Nat, NEW S, 0 \in S, \A i \in 1..n : i - 1 \in S => i \in S
  PROVE  0..n \subseteq S
<1> DEFINE Left == {i \in 0..n : i \notin S}
<1>1. SUFFICES ASSUME Left # {} PROVE FALSE
  OBVIOUS
<1>2. PICK i \in Left : \A j \in Left : i <= j
  <2>1. Left \subseteq Nat
    OBVIOUS
  <2> HIDE DEF Left
  <2> QED
    BY <1>1, <2>1, LeastNatural
<1>3. i \in 1..n /\ i - 1 \in 0..n
  OBVIOUS
<1>4. i - 1 \notin Left
  BY <1>2, <1>3
<1> QED
  BY <1>3, <1>4

\* The answers that are free for the i-th event.
Free(before, i) ==
  {k \in (i + 1)..Len(Recording) :
     /\ Recording[k].role = "answer"
     /\ Recording[k].channel = Recording[i].channel
     /\ k \notin Range(before)}

\* What the i-th event adds to the pairs of those before it.
Paired(before, i) ==
  IF Recording[i].role = "request" /\ Free(before, i) # {}
  THEN [j \in DOMAIN before \cup {i} |-> IF j = i THEN Min(Free(before, i)) ELSE before[j]]
  ELSE before

\* f has the pairs of the first events, for each number of them up to n.
Steps(f, n) == f = [i \in 0..n |-> IF i = 0 THEN <<>> ELSE Paired(f[i - 1], i)]

\* Bind, as the choice of such an f.
LEMMA BindIs ==
  Bind = (CHOOSE f : Steps(f, Len(Recording)))[Len(Recording)]
BY DEF Bind, Steps, Paired, Free

\* There is such an f for any number of events.
LEMMA Stepwise ==
  ASSUME NEW n \in Nat
  PROVE  \E f : Steps(f, n)
<1> DEFINE S == {m \in 0..n : \E f : Steps(f, m)}
<1>1. 0 \in S
  <2>1. Steps([i \in 0..0 |-> <<>>], 0)
    BY DEF Steps
  <2> QED
    BY <2>1
<1>2. ASSUME NEW m \in 1..n, m - 1 \in S PROVE m \in S
  <2>1. PICK f : Steps(f, m - 1)
    BY <1>2
  <2>2. PICK g : g = [i \in 0..m |-> IF i = m THEN Paired(f[m - 1], m) ELSE f[i]]
    OBVIOUS
  <2>3. \A i \in 0..(m - 1) : f[i] = IF i = 0 THEN <<>> ELSE Paired(f[i - 1], i)
    BY <2>1 DEF Steps
  <2>4. \A i \in 0..m : g[i] = IF i = 0 THEN <<>> ELSE Paired(g[i - 1], i)
    <3> SUFFICES ASSUME NEW i \in 0..m
                 PROVE  g[i] = IF i = 0 THEN <<>> ELSE Paired(g[i - 1], i)
      OBVIOUS
    <3>1. CASE i = m
      <4>1. g[i - 1] = f[i - 1] /\ i # 0
        BY <2>2, <3>1
      <4> QED
        BY <2>2, <3>1, <4>1
    <3>2. CASE i # m
      <4>1. i \in 0..(m - 1) /\ g[i] = f[i] /\ (i # 0 => g[i - 1] = f[i - 1])
        BY <2>2, <3>2
      <4> QED
        BY <2>3, <4>1
    <3> QED
      BY <3>1, <3>2
  <2>5. Steps(g, m)
    BY <2>2, <2>4 DEF Steps
  <2> QED
    BY <2>5
<1>3. 0..n \subseteq S
  BY <1>1, <1>2, UpTo
<1> QED
  BY <1>3

\* Bind is the last of the pairs that such an f has.
LEMMA BindIsLast ==
  ASSUME Len(Recording) \in Nat
  PROVE  \E f : Steps(f, Len(Recording)) /\ Bind = f[Len(Recording)]
<1>1. PICK f : f = CHOOSE g : Steps(g, Len(Recording))
  OBVIOUS
<1>2. Steps(f, Len(Recording))
  BY <1>1, Stepwise
<1> QED
  BY <1>1, <1>2, BindIs

\* A request, and an answer of its kind.
Asks(q) == Recording[q].role = "request"
Answering(k, q) == Recording[k].role = "answer" /\ Recording[k].channel = Recording[q].channel

\* What is so of the pairs of the first n events: (1) a request has an answer that comes
\* after it; (2) and took the first that was left; (3) answers come in the order of their
\* requests; (4) a request without an answer found all later ones taken.
Fair(b, n) ==
  /\ \A q \in DOMAIN b : /\ q \in 1..n /\ b[q] \in 1..Len(Recording)
                         /\ b[q] > q /\ Asks(q) /\ Answering(b[q], q)
  /\ \A q \in DOMAIN b : \A k \in 1..Len(Recording) :
       q < k /\ k < b[q] /\ Answering(k, q) => k \in Range(b)
  /\ \A q, r \in DOMAIN b :
       q < r /\ Recording[q].channel = Recording[r].channel => b[q] < b[r]
  /\ \A q \in 1..n : \A k \in 1..Len(Recording) :
       Asks(q) /\ q < k /\ Answering(k, q) /\ q \notin DOMAIN b => k \in Range(b)

\* The pairs with one more.
With(b, n, k) == [j \in DOMAIN b \cup {n} |-> IF j = n THEN k ELSE b[j]]

\* What c says more than b.
OneMore(b, n, k, c) ==
  /\ DOMAIN c = DOMAIN b \cup {n} /\ c[n] = k
  /\ \A q \in DOMAIN b : c[q] = b[q]
  /\ \A a : a \in Range(c) <=> a \in Range(b) \/ a = k

\* So does the pair that is added.
LEMMA WithIs ==
  ASSUME NEW b, NEW n, NEW k, n \notin DOMAIN b
  PROVE  OneMore(b, n, k, With(b, n, k))
<1>1. PICK c : c = With(b, n, k)
  OBVIOUS
<1>2. /\ DOMAIN c = DOMAIN b \cup {n} /\ c[n] = k
      /\ \A q \in DOMAIN b : c[q] = b[q]
  BY <1>1 DEF With
<1>3. \A a : a \in Range(c) <=> a \in Range(b) \/ a = k
  BY <1>2 DEF Range
<1> QED
  BY <1>1, <1>2, <1>3 DEF OneMore

\* One event more keeps the pairs fair.
LEMMA PairedFairly ==
  ASSUME Len(Recording) \in Nat, NEW n \in 1..Len(Recording), NEW b, Fair(b, n - 1)
  PROVE  Fair(Paired(b, n), n)
<1>1. PICK c : c = Paired(b, n)
  OBVIOUS
<1>2. PICK free : free = Free(b, n)
  OBVIOUS
<1>3. \A k : k \in free <=> /\ k \in 1..Len(Recording) /\ n < k /\ Answering(k, n)
                           /\ k \notin Range(b)
  BY <1>2 DEF Free, Answering
<1>4. \A q \in DOMAIN b : q \in 1..(n - 1) /\ q # n
  BY DEF Fair
<1>5. CASE ~(Asks(n) /\ free # {})
  <2>1. c = b
    BY <1>1, <1>2, <1>5 DEF Paired, Asks
  <2>2. ASSUME NEW k \in 1..Len(Recording), Asks(n), n < k, Answering(k, n)
        PROVE  k \in Range(b)
    BY <1>3, <1>5, <2>2
  <2> QED
    BY <1>1, <2>1, <2>2 DEF Fair
<1>6. CASE Asks(n) /\ free # {}
  <2>1. PICK k : k = Min(free)
    OBVIOUS
  <2>2. k \in free /\ \A j \in free : k <= j
    <3>1. free \subseteq Nat
      BY <1>3
    <3>2. \E m \in free : \A j \in free : m <= j
      BY <1>6, <3>1, LeastNatural
    <3> QED
      BY <2>1, <3>2 DEF Min
  <2>3. n \notin DOMAIN b /\ c = With(b, n, k)
    BY <1>1, <1>2, <1>4, <1>6, <2>1 DEF Paired, Asks, With
  <2>4. /\ DOMAIN c = DOMAIN b \cup {n} /\ c[n] = k
        /\ \A q \in DOMAIN b : c[q] = b[q]
        /\ \A a : a \in Range(c) <=> a \in Range(b) \/ a = k
    <3>1. OneMore(b, n, k, c)
      BY <2>3, WithIs
    <3> QED
      BY <3>1 DEF OneMore
  <2>5. k \in 1..Len(Recording) /\ n < k /\ Answering(k, n) /\ k \notin Range(b)
    BY <1>3, <2>2
  <2>6. ASSUME NEW q \in DOMAIN c
        PROVE  /\ q \in 1..n /\ c[q] \in 1..Len(Recording)
               /\ c[q] > q /\ Asks(q) /\ Answering(c[q], q)
    <3>1. CASE q = n
      BY <1>6, <2>4, <2>5, <3>1
    <3>2. CASE q \in DOMAIN b
      BY <2>4, <3>2 DEF Fair
    <3> QED
      BY <2>4, <3>1, <3>2
  <2>7. ASSUME NEW q \in DOMAIN c, NEW a \in 1..Len(Recording), q < a, a < c[q],
               Answering(a, q)
        PROVE  a \in Range(c)
    <3>1. CASE q = n
      <4>1. a \notin free
        BY <2>2, <2>4, <2>5, <2>7, <3>1, <1>3
      <4> QED
        BY <1>3, <2>4, <2>7, <3>1, <4>1
    <3>2. CASE q \in DOMAIN b
      BY <2>4, <2>7, <3>2 DEF Fair
    <3> QED
      BY <2>4, <3>1, <3>2
  <2>8. ASSUME NEW q \in DOMAIN c, NEW r \in DOMAIN c, q < r,
               Recording[q].channel = Recording[r].channel
        PROVE  c[q] < c[r]
    <3>1. q \in DOMAIN b /\ c[q] = b[q]
      BY <1>4, <2>4, <2>6, <2>8
    <3>2. CASE r = n
      <4>1. b[q] \in Range(b) /\ b[q] \in 1..Len(Recording) /\ c[r] = k
        BY <2>4, <3>1, <3>2 DEF Range, Fair
      <4>2. Answering(k, q) /\ q < k
        BY <2>5, <2>8, <3>1, <3>2, <1>4 DEF Answering
      <4>3. ~(k < b[q])
        BY <2>5, <3>1, <4>2 DEF Fair
      <4> QED
        BY <2>5, <3>1, <4>1, <4>3
    <3>3. CASE r \in DOMAIN b
      BY <2>4, <2>8, <3>1, <3>3 DEF Fair
    <3> QED
      BY <2>4, <3>2, <3>3
  <2>9. ASSUME NEW q \in 1..n, NEW a \in 1..Len(Recording), Asks(q), q < a, Answering(a, q),
               q \notin DOMAIN c
        PROVE  a \in Range(c)
    <3>1. q \in 1..(n - 1) /\ q \notin DOMAIN b
      BY <2>4, <2>9
    <3> QED
      BY <2>4, <2>9, <3>1 DEF Fair
  <2>10. Fair(c, n)
    BY <2>6, <2>7, <2>8, <2>9 DEF Fair
  <2> QED
    BY <1>1, <2>10
<1> QED
  BY <1>5, <1>6

\* So the pairs of the whole recording are fair.
LEMMA BindIsFair ==
  ASSUME Len(Recording) \in Nat
  PROVE  Fair(Bind, Len(Recording))
<1>1. PICK n \in Nat : n = Len(Recording)
  OBVIOUS
<1>2. PICK f : Steps(f, n) /\ Bind = f[n]
  BY <1>1, BindIsLast
<1>3. \A i \in 0..n : f[i] = IF i = 0 THEN <<>> ELSE Paired(f[i - 1], i)
  BY <1>2 DEF Steps
<1> DEFINE S == {i \in 0..n : Fair(f[i], i)}
<1>4. 0 \in S
  <2>1. f[0] = <<>> /\ DOMAIN f[0] = {}
    BY <1>3
  <2> QED
    BY <2>1 DEF Fair
<1>5. ASSUME NEW i \in 1..n, i - 1 \in S PROVE i \in S
  <2>1. f[i] = Paired(f[i - 1], i)
    BY <1>3
  <2> QED
    BY <1>1, <1>5, <2>1, PairedFairly
<1>6. 0..n \subseteq S
  <2> HIDE DEF S
  <2> QED
    BY <1>4, <1>5, UpTo
<1> QED
  BY <1>1, <1>2, <1>6

\* They pair as recorded.
LEMMA Pairing ==
  ASSUME plan \in Plans
  PROVE  PairsAsRecorded
<1>1. Recording \in Seq(Event)
  BY ReplayAssumption DEF Plan, Recording
<1>2. DOMAIN Recording = 1..Len(Recording) /\ Len(Recording) \in Nat
  BY <1>1
<1>3. Fair(Bind, Len(Recording))
  BY <1>2, BindIsFair
<1> QED
  BY <1>2, <1>3 DEF Fair, Asks, Answering, PairsAsRecorded, Positions

---------------------------------------------------------------------------
(* What it implies *)

LEMMA InOrder == ASSUME Types, Places PROVE AnsweredInOrder
<1> SUFFICES ASSUME NEW l \in lookups, NEW m \in lookups,
                    l.step < m.step, l.event # 0, m.event # 0, Key(l.effect) = Key(m.effect)
             PROVE  l.event < m.event
  BY DEF AnsweredInOrder
<1>1. /\ l.ordinal \in Nat /\ m.ordinal \in Nat /\ l.ordinal < m.ordinal
      /\ l.event = EventAt(l.effect, l.ordinal) /\ m.event = EventAt(m.effect, m.ordinal)
  BY DEF Types, Places, Answer
<1>2. EventAt(m.effect, m.ordinal) = EventAt(l.effect, m.ordinal)
  <2>1. Matches(m.effect) = Matches(l.effect)
    BY DEF Matches, Key
  <2> QED
    BY <2>1 DEF EventAt
<1> QED
  BY <1>1, <1>2, OrdinalsAreOrdered DEF Types

LEMMA Accounted == ASSUME Types, Answers, Findings PROVE NothingIsForgotten
<1> SUFFICES ASSUME finished, ~aborted, plan.mount = "good"
             PROVE  LET answered == {l.event : l \in lookups} \ {0}
                        reported == {d.event : d \in {f \in divergences :
                                                        f.type = "unconsumed_event"}}
                    IN  /\ answered \cup reported = Selectable
                        /\ answered \cap reported = {}
                        /\ \A r \in Range(reports) : r.unconsumed = Cardinality(reported)
  BY DEF NothingIsForgotten
<1>1. 0 \notin Selectable
  BY PositionsAreNat DEF Types
<1>2. Unconsumed = Selectable \ consumed
  BY DEF Findings
<1>3. {l.event : l \in lookups} \ {0} = {i \in Selectable : i \in consumed}
  <2>1. \A l \in lookups : l.event \in Selectable \cup {0}
    BY DEF Answers, Honest
  <2> QED
    BY <1>1, <2>1 DEF Answers
<1>4. \A r \in Range(reports) : r.unconsumed = Cardinality(Unconsumed)
  BY DEF Findings
<1>5. ({l.event : l \in lookups} \ {0}) \cup Unconsumed = Selectable
  BY <1>2, <1>3
<1>6. ({l.event : l \in lookups} \ {0}) \cap Unconsumed = {}
  BY <1>2, <1>3
<1> QED
  BY <1>4, <1>5, <1>6 DEF Unconsumed

LEMMA Announced == ASSUME Answers PROVE InventionsAnnounced
BY DEF Answers, Honest, InventionsAnnounced

LEMMA Green == ASSUME Types, Phases, Answers, Findings PROVE GreenMeansConformant
<1> SUFFICES ASSUME phase = "exited", Asked, status \in {0, 1}
             PROVE  /\ plan.mount = "good" /\ outcome = "conformant"
                    /\ \A l \in lookups : l.outcome \in {"hit", "passthrough"}
                    /\ ~plan.answersOnly => {l.event : l \in lookups} \ {0} = Selectable
  BY DEF GreenMeansConformant
<1>1. finished /\ outcome = "conformant"
  BY DEF Phases
<1>2. plan.mount = "good"
  <2>1. plan.mount \in {"absent", "good"} \cup Refusals
    BY ReplayAssumption DEF Types, Plan
  <2> QED
    BY <1>1, <2>1 DEF Phases, Asked
<1>3. ~aborted /\ \A d \in divergences : d.type \in Informational
  BY <1>1, <1>2 DEF Findings, Verdict
<1>4. \A l \in lookups : l.outcome \in {"hit", "passthrough"}
  <2>1. \A d \in divergences : d.type \notin {"effect_blocked", "simulated_substitution"}
    BY <1>3 DEF Informational
  <2>2. \A l \in lookups : l.outcome \in Outcomes
    BY DEF Types, Answer
  <2>3. \A at : Raised(at, "simulated_substitution", 0).type = "simulated_substitution"
    BY DEF Raised
  <2> QED
    BY <1>3, <2>1, <2>2, <2>3 DEF Answers, Honest, Outcomes
<1>5. ASSUME ~plan.answersOnly PROVE {l.event : l \in lookups} \ {0} = Selectable
  <2>1. Unconsumed = {}
    BY <1>3, <1>5 DEF Informational, Unconsumed
  <2>2. ({l.event : l \in lookups} \ {0}) \cup Unconsumed = Selectable
    BY <1>1, <1>2, <1>3, Accounted DEF NothingIsForgotten, Unconsumed
  <2> QED
    BY <2>1, <2>2
<1> QED
  BY <1>1, <1>2, <1>4, <1>5

---------------------------------------------------------------------------
(* What a step does to the session *)

LEMMA Lasts == ASSUME waiting \in Seq(Call), waiting # <<>>
  PROVE  /\ Innermost \in Call /\ Innermost \in InFlight
         /\ Outer \in Seq(Call)
         /\ \A i \in 1..Len(Outer) : Outer[i] \in InFlight
<1>1. /\ Len(waiting) \in Nat \ {0} /\ Len(waiting) \in 1..Len(waiting)
      /\ \A i \in 1..Len(waiting) - 1 : waiting[i] \in Call /\ i \in 1..Len(waiting)
      /\ Len(waiting) - 1 - 1 + 1 = Len(waiting) - 1
  OBVIOUS
<1>2. 1 \in Int /\ Len(waiting) - 1 \in Int
  BY <1>1
<1>3. /\ SubSeq(waiting, 1, Len(waiting) - 1) \in Seq(Call)
      /\ Len(SubSeq(waiting, 1, Len(waiting) - 1)) =
           IF 1 <= Len(waiting) - 1 THEN Len(waiting) - 1 - 1 + 1 ELSE 0
      /\ \A i \in 1..(Len(waiting) - 1 - 1 + 1) :
           SubSeq(waiting, 1, Len(waiting) - 1)[i] = waiting[1 + i - 1]
  BY <1>1, <1>2, SubSeqProperties
<1>4. Outer \in Seq(Call) /\ Len(Outer) = Len(waiting) - 1
      /\ \A i \in 1..Len(Outer) : Outer[i] = waiting[i]
  BY <1>1, <1>3 DEF Outer
<1> QED
  BY <1>1, <1>4 DEF Innermost, InFlight

\* The three things a step can do with the calls in flight.
LEMMA Flying ==
  ASSUME waiting \in Seq(Call)
  PROVE  /\ waiting' = <<>> => InFlight' = {}
         /\ UNCHANGED waiting => InFlight' = InFlight
         /\ waiting # <<>> /\ waiting' = Outer => InFlight' \subseteq InFlight
         /\ \A call \in Call : waiting' = Append(waiting, call) => InFlight' = InFlight \cup {call}
<1>1. waiting' = <<>> => InFlight' = {}
  BY DEF InFlight
<1>2. UNCHANGED waiting => InFlight' = InFlight
  BY DEF InFlight
<1>3. waiting # <<>> /\ waiting' = Outer => InFlight' \subseteq InFlight
  BY Lasts DEF InFlight
<1>4. ASSUME NEW call \in Call, waiting' = Append(waiting, call)
      PROVE  InFlight' = InFlight \cup {call}
  <2>1. Len(waiting') = Len(waiting) + 1 /\ waiting'[Len(waiting) + 1] = call
        /\ Len(waiting) \in Nat /\ \A i \in 1..Len(waiting) : waiting'[i] = waiting[i]
    BY <1>4
  <2> QED
    BY <2>1 DEF InFlight
<1> QED
  BY <1>1, <1>2, <1>3, <1>4

LEMMA Keys == ASSUME NEW e \in Effects
  PROVE Key(e) \in Channels \X {f.selector : f \in Effects}
BY ReplayAssumption DEF Key, Effect

LEMMA EventsAreNat == ASSUME plan \in Plans, NEW e, NEW n PROVE EventAt(e, n) \in Nat
<1>1. Selectable \subseteq Nat
  BY PositionsAreNat
<1>2. PICK event : event = EventAt(e, n)
  OBVIOUS
<1>3. event = 0 \/ event \in Selectable
  BY <1>2, EventsAnswer
<1>4. event \in Nat
  <2>1. CASE event = 0
    BY <2>1
  <2>2. CASE event \in Selectable
    BY <1>1, <2>2
  <2> QED
    BY <1>3, <2>1, <2>2
<1> QED
  BY <1>2, <1>4

\* The call a passthrough leaves in flight.
Calling(e) == [step |-> step + 1, effect |-> e, ordinal |-> Ordinal(e),
               event |-> EventAt(e, Ordinal(e))]

LEMMA Taking ==
  ASSUME Types, NEW e \in Effects, TakeStep(e)
  PROVE  /\ step' = step + 1 /\ step' \in Nat /\ Ordinal(e) \in Nat
         /\ cursors' = [cursors EXCEPT ![Key(e)] = @ + 1]
         /\ cursors' \in [Channels \X {f.selector : f \in Effects} -> Nat]
         /\ cursors'[Key(e)] = Ordinal(e) + 1
         /\ \A f \in Effects : Key(f) # Key(e) => cursors'[Key(f)] = cursors[Key(f)]
         /\ Calling(e) \in Call
<1>1. Key(e) \in Channels \X {f.selector : f \in Effects}
  BY Keys
<1>2. Ordinal(e) \in Nat
  BY <1>1 DEF Ordinal, Types
<1>3. Calling(e) \in Call
  BY <1>2, EventsAreNat DEF Calling, Call, Types
<1>4. \A f \in Effects : Key(f) \in Channels \X {g.selector : g \in Effects}
  BY Keys
<1> QED
  BY <1>1, <1>2, <1>3, <1>4 DEF TakeStep, Types, Ordinal

\* Every lookup that is recorded is of an effect just asked for, or of one in flight.
LEMMA Recording_Step ==
  ASSUME Types, NEW e \in Effects, Resolve(e)
  PROVE  /\ TakeStep(e) /\ UNCHANGED plan
         /\ \/ /\ UNCHANGED lookups
               /\ waiting' = Append(waiting, Calling(e))
            \/ \E l \in Answer :
                 /\ lookups' = lookups \cup {l}
                 /\ l.step = step + 1 /\ l.effect = e /\ l.ordinal = Ordinal(e)
                 /\ l.event \in {0, EventAt(e, Ordinal(e))}
                 /\ waiting' = waiting \/ waiting' = <<>>
<1>0. TakeStep(e)
  BY DEF Resolve, Blocked, Hit, Simulate, Miss, NoPerformer, Perform
<1>1. step' = step + 1 /\ Ordinal(e) \in Nat /\ step + 1 \in Nat
  BY <1>0, Taking
<1>2. ASSUME NEW how \in Outcomes, NEW event \in Nat
      PROVE  /\ Answered(step', e, Ordinal(e), how, event) \in Answer
             /\ Answered(step', e, Ordinal(e), how, event).step = step + 1
             /\ Answered(step', e, Ordinal(e), how, event).effect = e
             /\ Answered(step', e, Ordinal(e), how, event).ordinal = Ordinal(e)
             /\ Answered(step', e, Ordinal(e), how, event).event = event
  BY <1>1 DEF Answered, Answer
<1>3. EventAt(e, Ordinal(e)) \in Nat
  BY EventsAreNat DEF Types
<1>4. \/ UNCHANGED lookups /\ waiting' = Append(waiting, Calling(e))
      \/ \E how \in Outcomes, event \in {0, EventAt(e, Ordinal(e))} :
           /\ lookups' = lookups \cup {Answered(step', e, Ordinal(e), how, event)}
           /\ waiting' = waiting \/ waiting' = <<>>
  BY <1>1 DEF Resolve, Blocked, Hit, Simulate, Miss, NoPerformer, Perform, Abort, Outcomes, Calling
<1>5. UNCHANGED plan
  BY DEF Resolve, Blocked, Hit, Simulate, Miss, NoPerformer, Perform
<1> QED
  BY <1>0, <1>2, <1>3, <1>4, <1>5

LEMMA Return_Step ==
  ASSUME Types,
         PerformerFails \/ \E same, contradicts \in BOOLEAN : PerformerReturns(same, contradicts)
  PROVE  /\ UNCHANGED <<plan, step, cursors>> /\ waiting # <<>>
         /\ \E l \in Answer :
              /\ lookups' = lookups \cup {l}
              /\ l.step = Innermost.step /\ l.effect = Innermost.effect
              /\ l.ordinal = Innermost.ordinal /\ l.event \in {0, Innermost.event}
              /\ waiting' = Outer \/ waiting' = <<>>
<1>1. waiting # <<>> /\ Innermost \in Call /\ UNCHANGED <<plan, step, cursors>>
  BY Lasts DEF PerformerFails, PerformerReturns, Types
<1>2. PICK call \in Call : call = Innermost
  BY <1>1
<1>3. ASSUME NEW how \in Outcomes, NEW event \in {0, call.event}
      PROVE  /\ Answered(call.step, call.effect, call.ordinal, how, event) \in Answer
             /\ Answered(call.step, call.effect, call.ordinal, how, event).step = call.step
             /\ Answered(call.step, call.effect, call.ordinal, how, event).effect = call.effect
             /\ Answered(call.step, call.effect, call.ordinal, how, event).ordinal = call.ordinal
             /\ Answered(call.step, call.effect, call.ordinal, how, event).event = event
  BY DEF Answered, Answer, Call
<1>4. \E how \in Outcomes, event \in {0, call.event} :
        /\ lookups' = lookups \cup {Answered(call.step, call.effect, call.ordinal, how, event)}
        /\ waiting' = Outer \/ waiting' = <<>>
  BY <1>2 DEF PerformerFails, PerformerReturns, Abort, Outcomes
<1> QED
  BY <1>1, <1>2, <1>3, <1>4

\* The other steps leave the lookups alone.
Quiet ==
  /\ UNCHANGED <<plan, step, cursors, lookups, consumed>>
  /\ UNCHANGED waiting \/ waiting' = <<>>

LEMMA Quiet_Step ==
  ASSUME Types, [Next]_vars
  PROVE  \/ Quiet
         \/ \E e \in Effects : Resolve(e)
         \/ PerformerFails
         \/ \E same, contradicts \in BOOLEAN : PerformerReturns(same, contradicts)
BY DEF Next, vars, session, BootOrdinary, BootRefused, BootReplay, PerformReal, ScriptEnds,
       Settle, NothingToSettle, Exit, Quiet

---------------------------------------------------------------------------
(* Types and places *)

LEMMA Stacks ==
  ASSUME waiting \in Seq(Call)
  PROVE  /\ UNCHANGED waiting => waiting' \in Seq(Call)
         /\ waiting' = <<>> => waiting' \in Seq(Call)
         /\ waiting # <<>> /\ waiting' = Outer => waiting' \in Seq(Call)
<1>1. ASSUME UNCHANGED waiting PROVE waiting' \in Seq(Call)
  BY <1>1
<1>2. ASSUME waiting' = <<>> PROVE waiting' \in Seq(Call)
  BY <1>2
<1>3. ASSUME waiting # <<>>, waiting' = Outer PROVE waiting' \in Seq(Call)
  <2>1. Outer \in Seq(Call)
    BY <1>3, Lasts
  <2> QED
    BY <1>3, <2>1
<1> QED
  BY <1>1, <1>2, <1>3

LEMMA Types_Step == ASSUME Types, [Next]_vars PROVE Types'
<1>1. CASE Quiet
  <2>1. waiting' \in Seq(Call)
    BY <1>1, Stacks DEF Quiet, Types
  <2>2. aborted' \in BOOLEAN /\ finished' \in BOOLEAN
    BY ZenonT(60)
       DEF Types, Next, vars, session, BootOrdinary, BootRefused, BootReplay, PerformReal,
           Resolve, Blocked, Hit, Simulate, Miss, NoPerformer, Perform, PerformerReturns,
           PerformerFails, ScriptEnds, Settle, NothingToSettle, Exit, Abort, Finish
  <2> QED
    BY <1>1, <2>1, <2>2 DEF Quiet, Types
<1>2. ASSUME NEW e \in Effects, Resolve(e) PROVE Types'
  <2>1. TakeStep(e) /\ UNCHANGED plan
    BY <1>2, Recording_Step
  <2>2. step' \in Nat /\ cursors' \in [Channels \X {f.selector : f \in Effects} -> Nat]
        /\ Calling(e) \in Call
    BY <2>1, Taking
  <2>3. waiting' \in Seq(Call) /\ lookups' \subseteq Answer
    <3>1. CASE UNCHANGED lookups /\ waiting' = Append(waiting, Calling(e))
      BY <2>2, <3>1 DEF Types
    <3>2. ASSUME NEW l \in Answer, lookups' = lookups \cup {l}, waiting' = waiting \/ waiting' = <<>>
          PROVE  waiting' \in Seq(Call) /\ lookups' \subseteq Answer
      BY <3>2, Stacks DEF Types
    <3> QED
      BY <1>2, <3>1, <3>2, Recording_Step
  <2>4. aborted' \in BOOLEAN /\ finished' \in BOOLEAN
    BY <1>2 DEF Types, Resolve, Blocked, Hit, Simulate, Miss, NoPerformer, Perform, Abort, Finish
  <2> QED
    BY <2>1, <2>2, <2>3, <2>4 DEF Types
<1>3. CASE PerformerFails \/ \E same, contradicts \in BOOLEAN : PerformerReturns(same, contradicts)
  <2>1. /\ UNCHANGED <<plan, step, cursors>> /\ lookups' \subseteq Answer
        /\ waiting # <<>> /\ (waiting' = Outer \/ waiting' = <<>>)
    BY <1>3, Return_Step DEF Types
  <2>2. waiting' \in Seq(Call)
    BY <2>1, Stacks DEF Types
  <2>3. aborted' \in BOOLEAN /\ finished' \in BOOLEAN
    BY <1>3 DEF Types, PerformerReturns, PerformerFails, Abort, Finish
  <2> QED
    BY <2>1, <2>2, <2>3 DEF Types
<1> QED
  BY <1>1, <1>2, <1>3, Quiet_Step

\* What was asked for keeps its place, wherever it is kept.
LEMMA Places_Kept ==
  ASSUME Places, UNCHANGED <<plan, step, cursors>>,
         \A z \in lookups' \cup InFlight' : \E x \in lookups \cup InFlight :
           /\ z.step = x.step /\ z.effect = x.effect /\ z.ordinal = x.ordinal
           /\ z.event \in {0, x.event}
  PROVE  Places'
<1>1. \A e, n : EventAt(e, n)' = EventAt(e, n)
  BY RecordingIsFixed
<1>2. \A z \in lookups' \cup InFlight' : z.event \in {0, EventAt(z.effect, z.ordinal)}
  BY DEF Places
<1> QED
  BY <1>1, <1>2 DEF Places, Key

LEMMA Places_Taken ==
  ASSUME Types, Places, NEW e \in Effects, TakeStep(e), UNCHANGED plan,
         \A x \in lookups \cup InFlight : x.effect \in Effects /\ x.step \in Nat /\ x.ordinal \in Nat,
         \A z \in lookups' \cup InFlight' :
           \/ z \in lookups \cup InFlight
           \/ /\ z.step = step + 1 /\ z.effect = e /\ z.ordinal = Ordinal(e)
              /\ z.event \in {0, EventAt(e, Ordinal(e))}
  PROVE  Places'
<1>1. /\ step' = step + 1 /\ step \in Nat /\ Ordinal(e) \in Nat
      /\ Ordinal(e) = cursors[Key(e)] /\ cursors'[Key(e)] = Ordinal(e) + 1
      /\ \A f \in Effects : Key(f) # Key(e) => cursors'[Key(f)] = cursors[Key(f)]
  BY Taking DEF Types, Ordinal
<1>2. \A g, n : EventAt(g, n)' = EventAt(g, n)
  BY RecordingIsFixed
<1>3. ASSUME NEW f \in Effects
      PROVE  cursors[Key(f)] \in Nat /\ cursors[Key(f)] <= cursors'[Key(f)]
  <2>1. cursors[Key(f)] \in Nat
    BY Keys DEF Types
  <2>2. CASE Key(f) = Key(e)
    BY <1>1, <2>1, <2>2
  <2>3. CASE Key(f) # Key(e)
    BY <1>1, <2>1, <2>3
  <2> QED
    BY <2>1, <2>2, <2>3
<1>4. ASSUME NEW z \in lookups' \cup InFlight'
      PROVE  /\ z.step <= step' /\ z.ordinal < cursors'[Key(z.effect)]
             /\ z.event \in {0, EventAt(z.effect, z.ordinal)}
  BY <1>1, <1>3 DEF Places
<1>5. ASSUME NEW y \in lookups' \cup InFlight', NEW z \in lookups' \cup InFlight',
             y.step < z.step, Key(y.effect) = Key(z.effect)
      PROVE  y.ordinal < z.ordinal
  <2>1. CASE y \in lookups \cup InFlight /\ z \in lookups \cup InFlight
    BY <1>5, <2>1 DEF Places
  <2>2. CASE y \in lookups \cup InFlight /\ z \notin lookups \cup InFlight
    BY <1>1, <1>5, <2>2 DEF Places
  <2>3. CASE y \notin lookups \cup InFlight
    <3>1. y.step = step + 1 /\ z.step <= step + 1 /\ z.step \in Nat
      BY <1>1, <1>4, <2>3
    <3> QED
      BY <1>1, <1>5, <3>1
  <2> QED
    BY <2>1, <2>2, <2>3
<1> QED
  BY <1>2, <1>4, <1>5 DEF Places, Key

LEMMA Places_Step == ASSUME Types, Places, [Next]_vars PROVE Places'
<1>0. \A x \in lookups \cup InFlight : x.effect \in Effects /\ x.step \in Nat /\ x.ordinal \in Nat
  <2>1. \A x \in InFlight : x \in Call
    BY DEF Types, InFlight
  <2> QED
    BY <2>1 DEF Types, Answer, Call
<1>f. waiting \in Seq(Call)
  BY DEF Types
<1>1. CASE Quiet
  <2>1. lookups' \cup InFlight' \subseteq lookups \cup InFlight
    BY <1>1, <1>f, Flying DEF Quiet
  <2> QED
    BY <1>1, <2>1, Places_Kept DEF Quiet
<1>2. ASSUME NEW e \in Effects, Resolve(e) PROVE Places'
  <2>1. TakeStep(e) /\ UNCHANGED plan /\ Calling(e) \in Call
    BY <1>2, Recording_Step, Taking
  <2>2. CASE UNCHANGED lookups /\ waiting' = Append(waiting, Calling(e))
    <3>1. PICK call \in Call : call = Calling(e)
      BY <2>1
    <3>2. InFlight' = InFlight \cup {call}
      BY <1>f, <2>2, <3>1, Flying
    <3>3. /\ call.step = step + 1 /\ call.effect = e /\ call.ordinal = Ordinal(e)
          /\ call.event = EventAt(e, Ordinal(e))
      BY <3>1 DEF Calling
    <3> QED
      BY <1>0, <2>1, <2>2, <3>2, <3>3, Places_Taken
  <2>3. ASSUME NEW l \in Answer, lookups' = lookups \cup {l},
               l.step = step + 1, l.effect = e, l.ordinal = Ordinal(e),
               l.event \in {0, EventAt(e, Ordinal(e))}, waiting' = waiting \/ waiting' = <<>>
        PROVE  Places'
    <3>1. InFlight' \subseteq InFlight
      BY <1>f, <2>3, Flying
    <3> QED
      BY <1>0, <2>1, <2>3, <3>1, Places_Taken
  <2> QED
    BY <1>2, <2>2, <2>3, Recording_Step
<1>3. CASE PerformerFails \/ \E same, contradicts \in BOOLEAN : PerformerReturns(same, contradicts)
  <2>1. UNCHANGED <<plan, step, cursors>> /\ waiting # <<>>
    BY <1>3, Return_Step
  <2>2. PICK l : /\ lookups' = lookups \cup {l}
                 /\ l.step = Innermost.step /\ l.effect = Innermost.effect
                 /\ l.ordinal = Innermost.ordinal /\ l.event \in {0, Innermost.event}
                 /\ waiting' = Outer \/ waiting' = <<>>
    BY <1>3, Return_Step
  <2>3. InFlight' \subseteq InFlight
    BY <1>f, <2>1, <2>2, Flying
  <2>4. Innermost \in InFlight
    BY <1>f, <2>1, Lasts
  <2> QED
    BY <2>1, <2>2, <2>3, <2>4, Places_Kept
<1> QED
  BY <1>1, <1>2, <1>3, Quiet_Step

---------------------------------------------------------------------------
(* Phases, answers and findings *)

LEMMA Resolving ==
  ASSUME Types, Phases, NEW e \in Effects, Resolve(e)
  PROVE  /\ phase = "running" /\ plan.mount = "good" /\ ~finished /\ ~aborted /\ Asked
         /\ TakeStep(e) /\ UNCHANGED plan
BY Recording_Step DEF TakeStep, IsRunning, Asked

LEMMA Returning ==
  ASSUME Types, Phases,
         PerformerFails \/ \E same, contradicts \in BOOLEAN : PerformerReturns(same, contradicts)
  PROVE  /\ phase = "running" /\ plan.mount = "good" /\ ~finished /\ ~aborted /\ Asked
         /\ waiting # <<>> /\ UNCHANGED plan
BY Return_Step DEF Phases, Asked

LEMMA Aborting ==
  ASSUME NEW answer, NEW type, Abort(answer, type)
  PROVE  /\ phase' = "shutdown" /\ waiting' = <<>> /\ aborted' /\ finished'
         /\ outcome' = "aborted" /\ divergences \subseteq divergences'
         /\ lookups' = lookups \cup {answer}
BY DEF Abort, Finish, Verdict

LEMMA Phases_Step == ASSUME Types, Phases, [Next]_vars PROVE Phases'
<1>0. Asked' = Asked /\ plan' = plan
  BY PlanIsFixed, RecordingIsFixed
<1>1. ASSUME NEW e \in Effects, Resolve(e) PROVE Phases'
  <2>0. phase = "running" /\ plan.mount = "good" /\ ~finished /\ ~aborted /\ Asked
        /\ plan.mount \notin Refusals
    BY <1>1, Resolving DEF Refusals
  <2>1. CASE Miss(e) \/ NoPerformer(e)
    <3>1. phase' = "shutdown" /\ waiting' = <<>> /\ finished' /\ outcome' = "aborted"
      BY <2>1, Aborting DEF Miss, NoPerformer
    <3> QED
      BY <1>0, <2>0, <3>1 DEF Phases
  <2>2. CASE ~(Miss(e) \/ NoPerformer(e))
    <3>1. UNCHANGED <<phase, finished, aborted, outcome>>
      BY <1>1, <2>2 DEF Resolve, Blocked, Hit, Simulate, Perform
    <3> QED
      BY <1>0, <2>0, <3>1 DEF Phases
  <2> QED
    BY <2>1, <2>2
<1>2. CASE PerformerFails \/ \E same, contradicts \in BOOLEAN : PerformerReturns(same, contradicts)
  <2>0. phase = "running" /\ plan.mount = "good" /\ ~finished /\ ~aborted /\ Asked
        /\ plan.mount \notin Refusals
    BY <1>2, Returning DEF Refusals
  <2>1. CASE PerformerFails
    <3>1. phase' = "shutdown" /\ waiting' = <<>> /\ finished' /\ outcome' = "aborted"
      BY <2>1, Aborting DEF PerformerFails
    <3> QED
      BY <1>0, <2>0, <3>1 DEF Phases
  <2>2. ASSUME NEW same \in BOOLEAN, NEW contradicts \in BOOLEAN,
               PerformerReturns(same, contradicts)
        PROVE  Phases'
    <3>1. UNCHANGED <<phase, finished, aborted, outcome>>
      BY <2>2 DEF PerformerReturns
    <3> QED
      BY <1>0, <2>0, <3>1 DEF Phases
  <2> QED
    BY <1>2, <2>1, <2>2
<1>3. CASE BootOrdinary \/ BootReplay
  <2>1. /\ phase = "boot" /\ phase' = "running" /\ UNCHANGED <<finished, aborted, outcome, waiting>>
        /\ plan.mount \notin Refusals
    BY <1>3 DEF BootOrdinary, BootReplay, session, Asked, Refusals
  <2> QED
    BY <1>0, <2>1 DEF Phases
<1>4. CASE BootRefused
  <2>1. /\ phase = "boot" /\ phase' = "running" /\ UNCHANGED <<aborted, waiting>>
        /\ finished' /\ outcome' = "precondition_failed" /\ plan.mount # "good"
    BY <1>4 DEF BootRefused, Refusals
  <2> QED
    BY <1>0, <2>1 DEF Phases
<1>5. ASSUME NEW code \in {0, 1}, ScriptEnds(code) PROVE Phases'
  <2>1. /\ phase = "running" /\ phase' = "shutdown" /\ waiting' = <<>>
        /\ UNCHANGED <<finished, aborted, outcome>>
    BY <1>5 DEF ScriptEnds, session
  <2> QED
    BY <1>0, <2>1 DEF Phases
<1>6. CASE Settle
  <2>0. /\ phase = "shutdown" /\ phase' = "after" /\ UNCHANGED <<aborted, waiting>> /\ Asked
        /\ status' = IF outcome' = "conformant" THEN status ELSE ExitCode(outcome')
    BY <1>6 DEF Settle
  <2>f. finished' /\ (outcome' = outcome \/ (~finished /\ outcome' \in {"conformant", "diverged", "aborted"}))
    <3>1. CASE finished
      <4>1. outcome' = outcome
        BY <1>6, <3>1 DEF Settle
      <4>2. finished' = finished
        BY <1>6, <3>1 DEF Settle
      <4>3. finished'
        BY <3>1, <4>2, Zenon
      <4> QED
        BY <4>1, <4>3, Zenon
    <3>2. CASE ~finished
      <4>1. Finish(lookups, divergences, aborted)
        BY <1>6, <3>2 DEF Settle
      <4>2. finished' /\ outcome' = Verdict(divergences', aborted)
        BY <4>1 DEF Finish
      <4> QED
        BY <3>2, <4>2 DEF Verdict
    <3> QED
      BY <3>1, <3>2 DEF Types
  <2>1. /\ phase = "shutdown" /\ phase' = "after" /\ UNCHANGED <<aborted, waiting>>
        /\ Asked /\ finished'
        /\ outcome' = outcome \/ (~finished /\ outcome' \in {"conformant", "diverged", "aborted"})
        /\ status' = IF outcome' = "conformant" THEN status ELSE ExitCode(outcome')
    BY <2>0, <2>f
  <2>2. outcome' \in {"conformant", "diverged", "precondition_failed", "aborted"}
    BY <2>1 DEF Phases
  <2>3. outcome' # "conformant" => status' \notin {0, 1}
    BY <2>1, <2>2 DEF ExitCode
  <2> QED
    BY <1>0, <2>1, <2>2, <2>3 DEF Phases
<1>7. CASE NothingToSettle \/ Exit
  <2>1. /\ phase \in {"shutdown", "after"} /\ phase' \in {"after", "exited"}
        /\ (Asked => phase = "after")
        /\ UNCHANGED <<finished, aborted, outcome, waiting, status>>
    BY <1>7 DEF NothingToSettle, Exit, session
  <2> QED
    BY <1>0, <2>1 DEF Phases
<1>8. CASE UNCHANGED vars \/ \E e \in Effects : PerformReal(e)
  <2>1. UNCHANGED <<phase, finished, aborted, outcome, waiting, status, divergences>>
    BY <1>8 DEF vars, session, PerformReal
  <2> QED
    BY <1>0, <2>1 DEF Phases
<1> QED
  BY <1>1, <1>2, <1>3, <1>4, <1>5, <1>6, <1>7, <1>8 DEF Next

\* The clock is read, and never invented.
LEMMA ClockIsReal ==
  ASSUME plan.mount = "good", NEW e \in Effects, ModeFor(e) = "simulated"
  PROVE  e.channel # "time"
<1> SUFFICES ASSUME e.channel = "time" PROVE FALSE
  OBVIOUS
<1>1. Slot(e.channel, e.intent) = Slot("time", "read")
  BY ReplayAssumption
<1> QED
  BY <1>1 DEF ModeFor, Downgraded

\* A lookup is answered, and what it consumed is the event it was answered by.
LEMMA Answers_Added ==
  ASSUME Types, Answers, UNCHANGED plan, divergences \subseteq divergences', aborted => aborted',
         NEW l, lookups' = lookups \cup {l}, Honest(l)', InFlight' \subseteq InFlight,
         consumed' = IF l.event = 0 THEN consumed ELSE consumed \cup WithAnswer(l.event)
  PROVE  Answers'
<1>1. Selectable' = Selectable /\ 0 \notin Selectable
  BY RecordingIsFixed, PositionsAreNat DEF Types
<1>2. \A m \in lookups : Honest(m)'
  BY <1>1 DEF Answers, Honest
<1>3. l.event \in Selectable \cup {0}
  BY <1>1 DEF Honest
<1>4. \A i \in Selectable : i \in consumed' <=> i \in consumed \/ i = l.event
  BY <1>1, <1>3, AnswersApart
<1>5. \A i \in Selectable : i \in consumed' <=> \E m \in lookups' : m.event = i
  BY <1>4 DEF Answers
<1> QED
  BY <1>1, <1>2, <1>5 DEF Answers

LEMMA Answers_Kept ==
  ASSUME Answers, UNCHANGED <<plan, lookups, consumed>>, divergences \subseteq divergences',
         aborted => aborted',
         \A c \in InFlight' : c \in InFlight \/ c.event \in Selectable \cup {0}
  PROVE  Answers'
<1>1. Selectable' = Selectable
  BY RecordingIsFixed
<1> QED
  BY <1>1 DEF Answers, Honest

LEMMA Fields ==
  ASSUME NEW at, NEW e, NEW n, NEW how, NEW event
  PROVE  \E l : /\ l = Answered(at, e, n, how, event)
                /\ l.step = at /\ l.effect = e /\ l.ordinal = n /\ l.outcome = how /\ l.event = event
<1> WITNESS Answered(at, e, n, how, event)
<1> QED
  BY DEF Answered

LEMMA Answers_Resolve ==
  ASSUME Types, Phases, Answers, NEW e \in Effects, Resolve(e)
  PROVE  Answers'
<1> DEFINE at == EventAt(e, Ordinal(e))
<1>0. /\ ~finished /\ ~aborted /\ plan.mount = "good" /\ UNCHANGED plan
      /\ TakeStep(e) /\ waiting \in Seq(Call)
  BY Resolving DEF Types
<1>1. Selectable' = Selectable
  BY <1>0, RecordingIsFixed
<1>2. PICK event : event = at
  OBVIOUS
<1>3. event \in Selectable \cup {0}
  BY <1>2, EventsAnswer
<1>4. CASE Blocked(e)
  <2>1. PICK l : /\ l = Answered(step', e, Ordinal(e), "blocked", 0)
                 /\ l.outcome = "blocked" /\ l.event = 0
    BY Fields
  <2>2. /\ lookups' = lookups \cup {l} /\ UNCHANGED <<consumed, aborted, waiting>>
        /\ divergences' = divergences \cup {Raised(step', "effect_blocked", 0)}
    BY <1>4, <2>1 DEF Blocked
  <2>3. \E d \in divergences' : d.type = "effect_blocked"
    <3>1. Raised(step', "effect_blocked", 0).type = "effect_blocked"
      BY DEF Raised
    <3> QED
      BY <2>2, <3>1
  <2>4. Honest(l)'
    BY <1>1, <2>1, <2>3 DEF Honest
  <2>5. InFlight' \subseteq InFlight
    BY <1>0, <2>2, Flying
  <2> QED
    BY <1>0, <2>1, <2>2, <2>4, <2>5, Answers_Added
<1>5. ASSUME NEW contradicts \in BOOLEAN, Hit(e, contradicts) PROVE Answers'
  <2>1. PICK l : /\ l = Answered(step', e, Ordinal(e), "hit", event)
                 /\ l.outcome = "hit" /\ l.event = event
    BY Fields
  <2>2. /\ lookups' = lookups \cup {l} /\ UNCHANGED <<aborted, waiting>>
        /\ divergences \subseteq divergences' /\ event # 0
        /\ consumed' = consumed \cup WithAnswer(event)
    BY <1>2, <1>5, <2>1 DEF Hit
  <2>3. Honest(l)'
    BY <1>1, <1>3, <2>1 DEF Honest
  <2>4. InFlight' \subseteq InFlight
    BY <1>0, <2>2, Flying
  <2> QED
    BY <1>0, <2>1, <2>2, <2>3, <2>4, Answers_Added
<1>6. CASE Simulate(e)
  <2>1. PICK l : /\ l = Answered(step', e, Ordinal(e), "simulated", 0)
                 /\ l.step = step' /\ l.effect = e /\ l.outcome = "simulated" /\ l.event = 0
    BY Fields
  <2>2. /\ lookups' = lookups \cup {l} /\ UNCHANGED <<consumed, aborted, waiting>>
        /\ divergences' = divergences \cup {Raised(step', "simulated_substitution", 0)}
    BY <1>6, <2>1 DEF Simulate
  <2>3. e.channel # "time"
    BY <1>0, <1>6, ClockIsReal DEF Simulate
  <2>4. Honest(l)'
    BY <1>1, <2>1, <2>2, <2>3 DEF Honest
  <2>5. InFlight' \subseteq InFlight
    BY <1>0, <2>2, Flying
  <2> QED
    BY <1>0, <2>1, <2>2, <2>4, <2>5, Answers_Added
<1>7. CASE Miss(e) \/ NoPerformer(e)
  <2>1. PICK l : /\ l = Answered(step', e, Ordinal(e), "miss", 0)
                 /\ l.outcome = "miss" /\ l.event = 0
    BY Fields
  <2>2. PICK type : Abort(l, type) /\ UNCHANGED consumed
    BY <1>7, <2>1 DEF Miss, NoPerformer
  <2>3. /\ lookups' = lookups \cup {l} /\ waiting' = <<>> /\ aborted'
        /\ divergences \subseteq divergences'
    BY <2>2, Aborting
  <2>4. Honest(l)'
    BY <1>1, <2>1, <2>3 DEF Honest
  <2>5. InFlight' \subseteq InFlight
    BY <1>0, <2>3, Flying
  <2> QED
    BY <1>0, <2>1, <2>2, <2>3, <2>4, <2>5, Answers_Added
<1>8. CASE Perform(e)
  <2>1. PICK call : call = Calling(e) /\ call \in Call
    BY <1>0, Taking
  <2>2. call.event = event
    BY <1>2, <2>1 DEF Calling
  <2>3. step' = step + 1
    BY <1>0, Taking
  <2>4. /\ waiting' = Append(waiting, call)
        /\ UNCHANGED <<plan, lookups, consumed, divergences, aborted>>
    BY <1>8, <2>1, <2>3 DEF Perform, Calling
  <2>5. InFlight' = InFlight \cup {call}
    BY <1>0, <2>1, <2>4, Flying
  <2> QED
    BY <1>3, <2>2, <2>4, <2>5, Answers_Kept
<1> QED
  BY <1>4, <1>5, <1>6, <1>7, <1>8 DEF Resolve

LEMMA Answers_Return ==
  ASSUME Types, Phases, Answers,
         PerformerFails \/ \E same, contradicts \in BOOLEAN : PerformerReturns(same, contradicts)
  PROVE  Answers'
<1>0. /\ ~finished /\ ~aborted /\ UNCHANGED plan /\ waiting # <<>> /\ waiting \in Seq(Call)
  BY Returning DEF Types
<1>1. Selectable' = Selectable
  BY <1>0, RecordingIsFixed
<1>2. Innermost \in InFlight
  BY <1>0, Lasts
<1>3. PICK call : call = Innermost
  OBVIOUS
<1>4. call.event \in Selectable \cup {0}
  BY <1>2, <1>3 DEF Answers
<1>5. CASE PerformerFails
  <2>1. PICK l : /\ l = Answered(call.step, call.effect, call.ordinal, "miss", 0)
                 /\ l.outcome = "miss" /\ l.event = 0
    BY Fields
  <2>2. Abort(l, "effect_unavailable") /\ UNCHANGED consumed
    BY <1>3, <1>5, <2>1 DEF PerformerFails
  <2>3. /\ lookups' = lookups \cup {l} /\ waiting' = <<>> /\ aborted'
        /\ divergences \subseteq divergences'
    BY <2>2, Aborting
  <2>4. Honest(l)'
    BY <1>1, <2>1, <2>3 DEF Honest
  <2>5. InFlight' \subseteq InFlight
    BY <1>0, <2>3, Flying
  <2> QED
    BY <1>0, <2>1, <2>2, <2>3, <2>4, <2>5, Answers_Added
<1>6. ASSUME NEW same \in BOOLEAN, NEW contradicts \in BOOLEAN, PerformerReturns(same, contradicts)
      PROVE  Answers'
  <2>1. PICK l : /\ l = Answered(call.step, call.effect, call.ordinal, "passthrough", call.event)
                 /\ l.step = call.step /\ l.outcome = "passthrough" /\ l.event = call.event
    BY Fields
  <2>2. /\ lookups' = lookups \cup {l} /\ waiting' = Outer /\ UNCHANGED aborted
        /\ consumed' = IF l.event = 0 THEN consumed ELSE consumed \cup WithAnswer(l.event)
        /\ divergences \subseteq divergences'
    BY <1>3, <1>6, <2>1 DEF PerformerReturns
  <2>3. l.event = 0 => Raised(l.step, "passthrough_performed", 0) \in divergences'
    BY <1>3, <1>6, <2>1 DEF PerformerReturns
  <2>4. Honest(l)'
    BY <1>1, <1>4, <2>1, <2>3 DEF Honest
  <2>5. InFlight' \subseteq InFlight
    BY <1>0, <2>2, Flying
  <2> QED
    BY <1>0, <2>2, <2>4, <2>5, Answers_Added
<1> QED
  BY <1>5, <1>6

LEMMA Answers_Step == ASSUME Types, Phases, Answers, [Next]_vars PROVE Answers'
<1>0. waiting \in Seq(Call)
  BY DEF Types
<1>1. CASE Quiet
  <2>1. InFlight' \subseteq InFlight
    BY <1>0, <1>1, Flying DEF Quiet
  <2>2. UNCHANGED <<plan, lookups, consumed>>
    BY <1>1 DEF Quiet
  <2>3. CASE \E e \in Effects : Resolve(e)
    BY <2>3, Answers_Resolve
  <2>4. CASE PerformerFails \/ \E same, contradicts \in BOOLEAN : PerformerReturns(same, contradicts)
    BY <2>4, Answers_Return
  <2>5. CASE BootOrdinary \/ BootReplay \/ BootRefused
    <3>1. divergences \subseteq divergences' /\ UNCHANGED aborted
      BY <2>5 DEF BootOrdinary, BootReplay, BootRefused, session, Phases
    <3> QED
      BY <2>1, <2>2, <3>1, Answers_Kept
  <2>6. CASE Settle
    <3>1. divergences \subseteq divergences' /\ UNCHANGED aborted
      BY <2>6 DEF Settle, Finish
    <3> QED
      BY <2>1, <2>2, <3>1, Answers_Kept
  <2>7. CASE \/ UNCHANGED vars \/ \E e \in Effects : PerformReal(e)
             \/ \E code \in {0, 1} : ScriptEnds(code)
             \/ NothingToSettle \/ Exit
    <3>1. UNCHANGED <<divergences, aborted>>
      BY <2>7 DEF vars, session, PerformReal, ScriptEnds, NothingToSettle, Exit
    <3> QED
      BY <2>1, <2>2, <3>1, Answers_Kept
  <2> QED
    BY <2>3, <2>4, <2>5, <2>6, <2>7 DEF Next
<1> QED
  BY <1>1, Answers_Resolve, Answers_Return, Quiet_Step

---------------------------------------------------------------------------
(* Findings *)

Fresh(found) == \A d \in found : d.type # "unconsumed_event"

\* While the session is open, whatever is found is not yet what was never consumed.
LEMMA Findings_Open ==
  ASSUME Findings, ~finished, ~finished', UNCHANGED reports,
         NEW found, divergences' = divergences \cup found, Fresh(found)
  PROVE  Findings'
BY DEF Findings, Fresh

LEMMA Findings_Kept ==
  ASSUME Findings, UNCHANGED <<plan, finished, divergences, outcome, reports, aborted, consumed>>
  PROVE  Findings'
<1>1. Selectable' = Selectable /\ \A found, cut : Verdict(found, cut)' = Verdict(found, cut)
  <2>1. Informational' = Informational /\ Selectable' = Selectable
    BY RecordingIsFixed
  <2> QED
    BY <2>1 DEF Verdict
<1>2. Unconsumed' = Unconsumed
  BY DEF Unconsumed
<1>3. Verdict(divergences, aborted)' = Verdict(divergences, aborted)
  BY <1>1 DEF Verdict
<1> QED
  BY <1>1, <1>2, <1>3 DEF Findings

\* The session is finished: what was never consumed is found, and the verdict drawn.
LEMMA Findings_Finished ==
  ASSUME Findings, ~finished, UNCHANGED <<plan, consumed>>,
         NEW asked, NEW found, Fresh(found), NEW cut \in BOOLEAN, aborted' = cut,
         Finish(asked, found, cut)
  PROVE  Findings'
<1> DEFINE left == IF cut THEN {} ELSE Selectable \ consumed
           all  == found \cup {Raised(0, "unconsumed_event", i) : i \in left}
<1>1. /\ finished' /\ divergences' = all /\ outcome' = Verdict(all, cut)
      /\ reports' = Append(reports, Written(Verdict(all, cut), asked, all, Cardinality(left)))
      /\ reports = <<>>
  BY DEF Finish, Findings
<1>2. outcome' = Verdict(divergences, aborted)'
  <2>1. Informational' = Informational
    BY RecordingIsFixed
  <2> QED
    BY <1>1, <2>1 DEF Verdict
<1>3. ASSUME ~cut
      PROVE  /\ Unconsumed' = (Selectable \ consumed)'
             /\ \A r \in Range(reports)' : r.unconsumed = Cardinality(Unconsumed)'
  <2>1. Selectable' = Selectable
    BY RecordingIsFixed
  <2>2. Unconsumed' = left
    <3>1. \A i : /\ Raised(0, "unconsumed_event", i).event = i
                 /\ Raised(0, "unconsumed_event", i).type = "unconsumed_event"
      BY DEF Raised
    <3>2. {d \in divergences' : d.type = "unconsumed_event"}
            = {Raised(0, "unconsumed_event", i) : i \in left}
      BY <1>1, <3>1 DEF Fresh
    <3> QED
      BY <3>1, <3>2 DEF Unconsumed
  <2>3. PICK r : r = Written(Verdict(all, cut), asked, all, Cardinality(left))
    OBVIOUS
  <2>4. r.unconsumed = Cardinality(left)
    BY <2>3 DEF Written
  <2>5. Range(reports)' = {r}
    <3>1. reports' = <<r>>
      BY <1>1, <2>3
    <3> QED
      BY <3>1 DEF Range
  <2> QED
    BY <1>3, <2>1, <2>2, <2>4, <2>5
<1> QED
  BY <1>1, <1>2, <1>3 DEF Findings

LEMMA Findings_Aborted ==
  ASSUME Findings, ~finished, UNCHANGED <<plan, consumed>>,
         NEW answer, NEW type, type # "unconsumed_event", Abort(answer, type)
  PROVE  Findings'
<1>1. PICK found : found = divergences \cup {Raised(answer.step, type, answer.event)}
  OBVIOUS
<1>2. Fresh(found)
  BY <1>1 DEF Fresh, Raised, Findings
<1>3. aborted' = TRUE /\ Finish(lookups \cup {answer}, found, TRUE)
  BY <1>1 DEF Abort
<1> QED
  BY <1>2, <1>3, Findings_Finished

LEMMA Findings_Step == ASSUME Types, Phases, Findings, [Next]_vars PROVE Findings'
<1>0. UNCHANGED plan
  BY PlanIsFixed
<1>1. ASSUME NEW e \in Effects, Resolve(e) PROVE Findings'
  <2>1. ~finished
    BY <1>1, Resolving
  <2>2. CASE Blocked(e) \/ Simulate(e) \/ Perform(e) \/ \E contradicts \in BOOLEAN : Hit(e, contradicts)
    <3>1. UNCHANGED <<finished, reports>>
      BY <2>2 DEF Blocked, Simulate, Perform, Hit
    <3>2. \E found : divergences' = divergences \cup found /\ Fresh(found)
      <4>1. divergences = divergences \cup {} /\ Fresh({})
        BY DEF Fresh
      <4>2. \A at : Fresh({Raised(at, "effect_blocked", 0)}) /\ Fresh({Raised(at, "simulated_substitution", 0)})
        BY DEF Fresh, Raised
      <4>3. \A at : Fresh(Contradicted(at, TRUE)) /\ Fresh(Contradicted(at, FALSE))
        BY DEF Fresh, Raised, Contradicted
      <4>4. CASE Blocked(e) \/ Simulate(e)
        BY <4>2, <4>4 DEF Blocked, Simulate
      <4>5. CASE Perform(e)
        BY <4>1, <4>5 DEF Perform
      <4>6. ASSUME NEW contradicts \in BOOLEAN, Hit(e, contradicts)
            PROVE  \E found : divergences' = divergences \cup found /\ Fresh(found)
        <5>1. divergences' = divergences \cup Contradicted(step', contradicts)
          BY <4>6 DEF Hit
        <5>2. Fresh(Contradicted(step', contradicts))
          BY DEF Fresh, Raised, Contradicted
        <5> QED
          BY <5>1, <5>2
      <4> QED
        BY <2>2, <4>4, <4>5, <4>6
    <3> QED
      BY <2>1, <3>1, <3>2, Findings_Open
  <2>3. CASE Miss(e) \/ NoPerformer(e)
    <3>1. \E answer, type : type # "unconsumed_event" /\ Abort(answer, type)
      BY <2>3 DEF Miss, NoPerformer
    <3>2. UNCHANGED consumed
      BY <2>3 DEF Miss, NoPerformer
    <3> QED
      BY <1>0, <2>1, <3>1, <3>2, Findings_Aborted
  <2> QED
    BY <1>1, <2>2, <2>3 DEF Resolve
<1>2. CASE PerformerFails
  <2>1. ~finished
    BY <1>2, Returning
  <2>2. \E answer : Abort(answer, "effect_unavailable") /\ UNCHANGED consumed
    BY <1>2 DEF PerformerFails
  <2> QED
    BY <1>0, <2>1, <2>2, Findings_Aborted
<1>3. ASSUME NEW same \in BOOLEAN, NEW contradicts \in BOOLEAN, PerformerReturns(same, contradicts)
      PROVE  Findings'
  <2>1. ~finished
    BY <1>3, Returning
  <2>2. UNCHANGED <<finished, reports>>
    BY <1>3 DEF PerformerReturns
  <2>3. PICK call : call = Innermost
    OBVIOUS
  <2>4. PICK live : /\ divergences' = divergences \cup live \cup Contradicted(call.step, contradicts)
                    /\ \/ live = {Raised(call.step, "passthrough_performed", 0)}
                       \/ live = {Raised(call.step, "passthrough_mismatch", call.event)}
                       \/ live = {}
    BY <1>3, <2>3 DEF PerformerReturns
  <2>5. Fresh(live) /\ Fresh(Contradicted(call.step, contradicts))
    BY <2>4 DEF Fresh, Raised, Contradicted
  <2>6. PICK found : found = live \cup Contradicted(call.step, contradicts)
    OBVIOUS
  <2>7. Fresh(found)
    BY <2>5, <2>6 DEF Fresh
  <2>8. divergences' = divergences \cup found
    BY <2>4, <2>6
  <2> QED
    BY <2>1, <2>2, <2>7, <2>8, Findings_Open
<1>4. CASE BootReplay
  <2>1. ~finished /\ divergences = {} /\ UNCHANGED <<finished, reports>>
    BY <1>4 DEF BootReplay, Phases
  <2>2. Fresh(divergences')
    BY <1>4 DEF BootReplay, Fresh, Raised
  <2> QED
    BY <2>1, <2>2, Findings_Open
<1>5. CASE BootRefused
  <2>1. finished' /\ plan'.mount # "good"
    BY <1>5 DEF BootRefused, Refusals
  <2> QED
    BY <2>1 DEF Findings
<1>6. CASE Settle
  <2>1. UNCHANGED <<plan, consumed, aborted>>
    BY <1>6 DEF Settle
  <2>2. CASE finished
    <3>1. UNCHANGED <<divergences, finished, outcome, reports>>
      BY <1>6, <2>2 DEF Settle
    <3> QED
      BY <2>1, <3>1, Findings_Kept
  <2>3. CASE ~finished
    <3>1. Finish(lookups, divergences, aborted)
      BY <1>6, <2>3 DEF Settle
    <3>2. Fresh(divergences) /\ aborted \in BOOLEAN
      BY <2>3 DEF Findings, Fresh, Types
    <3> QED
      BY <2>1, <2>3, <3>1, <3>2, Findings_Finished
  <2> QED
    BY <2>2, <2>3
<1>7. CASE \/ UNCHANGED vars \/ \E e \in Effects : PerformReal(e)
           \/ \E code \in {0, 1} : ScriptEnds(code)
           \/ BootOrdinary \/ NothingToSettle \/ Exit
  <2>1. UNCHANGED <<plan, finished, divergences, outcome, reports, aborted, consumed>>
    BY <1>7 DEF vars, session, PerformReal, ScriptEnds, BootOrdinary, NothingToSettle, Exit
  <2> QED
    BY <2>1, Findings_Kept
<1> QED
  BY <1>1, <1>2, <1>3, <1>4, <1>5, <1>6, <1>7 DEF Next

---------------------------------------------------------------------------
(* The theorems *)

LEMMA SessionStarts == ASSUME Init PROVE SessionInv
<1>1. Types
  <2>1. cursors \in [Channels \X {e.selector : e \in Effects} -> Nat]
    BY DEF Init
  <2>2. waiting \in Seq(Call) /\ lookups \subseteq Answer /\ step \in Nat
    BY DEF Init
  <2>3. plan \in Plans /\ aborted \in BOOLEAN /\ finished \in BOOLEAN
    BY DEF Init
  <2> QED
    BY <2>1, <2>2, <2>3 DEF Types
<1>2. Phases
  BY DEF Init, Phases, Refusals
<1>3. InFlight = {}
  BY DEF Init, InFlight
<1>4. Answers /\ Findings /\ Places
  BY <1>3 DEF Init, Answers, Findings, Places
<1> QED
  BY <1>1, <1>2, <1>4 DEF SessionInv

LEMMA SessionContinues == ASSUME SessionInv, [Next]_vars PROVE SessionInv'
BY Types_Step, Phases_Step, Answers_Step, Findings_Step, Places_Step DEF SessionInv

LEMMA SessionHolds == Spec => []SessionInv
BY SessionStarts, SessionContinues, PTL DEF Spec

\* Whatever the recording and however performers nest, the lookups of one
\* channel and selector are answered in the order in which they were made, so
\* no recorded event answers two of them (ReplaySession::lookup, ::consume).
THEOREM AnswersComeInOrder == Spec => []AnsweredInOrder
<1>1. SessionInv => AnsweredInOrder
  BY InOrder DEF SessionInv
<1> QED
  BY <1>1, SessionHolds, PTL

\* Whatever the recording, an answer is bound to one request, requests that were made first
\* have theirs first and none goes without while an answer is left (Recording::bind); and no
\* recorded event answers two lookups.
THEOREM EventsAnswerOnce == Spec => []EachEventAnswersOnce
<1>1. SessionInv => PairsAsRecorded
  BY Pairing DEF SessionInv, Types
<1>2. SessionInv => AnsweredInOrder
  BY InOrder DEF SessionInv
<1>3. SessionInv => EachEventAnswersOnce
  BY <1>1, <1>2 DEF EachEventAnswersOnce
<1> QED
  BY <1>3, SessionHolds, PTL

\* A replay that was not cut short accounts for every event that could answer:
\* consumed by a lookup or reported as never performed, never both and never
\* neither, and the report counts the latter (ReplaySession::finish).
THEOREM NothingIsEverForgotten == Spec => []NothingIsForgotten
<1>1. SessionInv => NothingIsForgotten
  BY Accounted DEF SessionInv
<1> QED
  BY <1>1, SessionHolds, PTL

\* An answer the recording did not give is announced by a finding of its step,
\* and the clock is never simulated (ReplaySession::simulate, EffectPolicy).
THEOREM InventionsAreAnnounced == Spec => []InventionsAnnounced
<1>1. SessionInv => InventionsAnnounced
  BY Announced DEF SessionInv
<1> QED
  BY <1>1, SessionHolds, PTL

\* An exit status that is the application's own was earned: the recording was
\* good, every lookup was answered by it or confirmed live, and under full
\* strictness nothing recorded was left over (ReplaySession::settle and the
\* shutdown handler of ReplayRuntime).
THEOREM GreenIsConformant == Spec => []GreenMeansConformant
<1>1. SessionInv => GreenMeansConformant
  BY Green DEF SessionInv
<1> QED
  BY <1>1, SessionHolds, PTL
===========================================================================
