--------------------------- MODULE SamplerProofs ---------------------------
(***************************************************************************)
(* What a profile says of its request holds for any requests, functions,   *)
(* periods, limits and lengths of the waits: nothing is charged twice, the *)
(* windows of the wall clock tile, no wait is missed and I/O is exact.     *)
(***************************************************************************)
EXTENDS SamplerChecks, FiniteSetTheorems, FunctionTheorems, SequenceTheorems, TLAPS

\* What is assumed of the constants.
LEMMA Constants ==
  /\ Period \in Nat /\ Period >= 1 /\ MaxSamples \in Nat /\ MaxSamples >= 1
  /\ MaxDepth \in Nat /\ MaxDepth >= 1 /\ MinIo \in Nat
  /\ None \notin Requests /\ None \notin Nat
BY SamplerAssumption

---------------------------------------------------------------------------
(* Sums *)

\* Which squares there are.
LEMMA SquaresAre ==
    ASSUME NEW S, NEW f
    PROVE  \A x : x \in Squares(S, f) <=> \E s \in S : x \in {s} \X (1 .. f[s])
  BY DEF Squares

\* A column of k squares.
LEMMA ColumnIs ==
    ASSUME NEW s, NEW k \in Nat
    PROVE  IsFiniteSet({s} \X (1 .. k)) /\ Cardinality({s} \X (1 .. k)) = k
<1>1. IsFiniteSet({s}) /\ Cardinality({s}) = 1
  BY FS_Singleton
<1>2. IsFiniteSet(1 .. k) /\ Cardinality(1 .. k) = k
  BY FS_Interval
<1>3. /\ IsFiniteSet({s} \X (1 .. k))
      /\ Cardinality({s} \X (1 .. k)) = Cardinality({s}) * Cardinality(1 .. k)
  BY <1>1, <1>2, FS_Product
<1>4. QED
  BY <1>1, <1>2, <1>3

\* Finitely many columns have finitely many squares.
LEMMA SumIsNat ==
    ASSUME NEW S, IsFiniteSet(S), NEW f, \A s \in S : f[s] \in Nat
    PROVE  IsFiniteSet(Squares(S, f)) /\ SumOver(S, f) \in Nat
<1> DEFINE Columns == {{s} \X (1 .. f[s]) : s \in S}
<1>1. IsFiniteSet(Columns)
  <2> DEFINE column == [s \in S |-> {s} \X (1 .. f[s])]
  <2>1. column \in Surjection(S, Columns)
    BY DEF Surjection
  <2>2. QED
    BY <2>1, FS_Surjection
<1>2. \A C \in Columns : IsFiniteSet(C)
  <2>1. \A s \in S : IsFiniteSet({s} \X (1 .. f[s]))
    BY ColumnIs
  <2>2. QED
    BY <2>1
<1> HIDE DEF Columns
<1>3. IsFiniteSet(UNION Columns)
  BY <1>1, <1>2, FS_UNION
<1>4. QED
  BY <1>3, FS_CardinalityType DEF Columns, Squares, SumOver

\* Sets with nothing in common.
LEMMA Apart ==
    ASSUME NEW A, NEW B, IsFiniteSet(A), IsFiniteSet(B), \A y \in A : y \notin B
    PROVE  Cardinality(A \cup B) = Cardinality(A) + Cardinality(B)
<1>1. A \cap B = {}
  OBVIOUS
<1>2. Cardinality(A \cap B) = 0
  BY <1>1, FS_EmptySet
<1>3. Cardinality(A) \in Nat /\ Cardinality(B) \in Nat
  BY FS_CardinalityType
<1>4. Cardinality(A \cup B) = Cardinality(A) + Cardinality(B) - Cardinality(A \cap B)
  BY FS_Union
<1>5. QED
  BY <1>2, <1>3, <1>4

\* One column more.
LEMMA SumMore ==
    ASSUME NEW S, IsFiniteSet(S), NEW x, x \notin S, NEW f, \A s \in S \cup {x} : f[s] \in Nat
    PROVE  SumOver(S \cup {x}, f) = SumOver(S, f) + f[x]
<1>1. IsFiniteSet(Squares(S, f)) /\ SumOver(S, f) \in Nat
  BY SumIsNat
<1>2. f[x] \in Nat /\ IsFiniteSet({x} \X (1 .. f[x])) /\ Cardinality({x} \X (1 .. f[x])) = f[x]
  BY ColumnIs
<1>3. \A y : y \in Squares(S \cup {x}, f) <=> y \in Squares(S, f) \/ y \in {x} \X (1 .. f[x])
  BY SquaresAre
<1>4. Squares(S \cup {x}, f) = Squares(S, f) \cup ({x} \X (1 .. f[x]))
  BY <1>3
<1>5. \A y \in Squares(S, f) : y \notin {x} \X (1 .. f[x])
  BY SquaresAre
<1>6. Cardinality(Squares(S, f) \cup ({x} \X (1 .. f[x])))
        = Cardinality(Squares(S, f)) + Cardinality({x} \X (1 .. f[x]))
  BY <1>1, <1>2, <1>5, Apart
<1>7. QED
  BY <1>2, <1>4, <1>6 DEF SumOver

\* The sum looks at f in S only.
LEMMA SumSame ==
    ASSUME NEW S, NEW f, NEW g, \A s \in S : f[s] = g[s]
    PROVE  SumOver(S, f) = SumOver(S, g)
<1>1. \A y : y \in Squares(S, f) <=> y \in Squares(S, g)
  BY SquaresAre
<1>2. Squares(S, f) = Squares(S, g)
  BY <1>1
<1>3. QED
  BY <1>2 DEF SumOver

\* Nothing to add.
LEMMA SumOfNothing ==
    ASSUME NEW f
    PROVE  SumOver({}, f) = 0
  BY FS_EmptySet DEF SumOver, Squares

---------------------------------------------------------------------------
(* What is told of a request, in a sequence T of samples *)

\* A sample; one of I/O has the call that waited as its leaf.
Recorded ==
  {x \in [kind : Kind, value : Nat, stack : Seq(Functions), trace : Requests] :
     x.kind = "io" => Last(x.stack) \in Waits}

\* The samples of a request, those of one kind, their values, and what these add up to.
Of(T, r) == {i \in DOMAIN T : T[i].trace = r}
Share(T, r, kind) == {i \in Of(T, r) : T[i].kind = kind}
ValuesOf(T) == [i \in DOMAIN T |-> T[i].value]
Sum(T, r, kind) == SumOver(Share(T, r, kind), ValuesOf(T))

\* The checks speak of the sequence of all that was told.
LEMMA TotalIsSum ==
  /\ \A r : SamplesOf(r) = Of(Told, r)
  /\ \A r, kind : Total(r, kind) = Sum(Told, r, kind)
BY DEF SamplesOf, Of, Total, Share, ValuesOf, Sum

\* T2 is T and the first n samples of more.
Grown(T, T2, more, n) ==
  /\ T \in Seq(Recorded) /\ T2 \in Seq(Recorded) /\ more \in Seq(Recorded)
  /\ n \in 0..Len(more) /\ Len(T2) = Len(T) + n
  /\ \A i \in 1..Len(T) : T2[i] = T[i]
  /\ \A j \in 1..n : T2[Len(T) + j] = more[j]

\* What there is to add up.
LEMMA Shares ==
  ASSUME NEW T \in Seq(Recorded), NEW r, NEW kind
  PROVE  /\ IsFiniteSet(Of(T, r)) /\ Cardinality(Of(T, r)) \in Nat
         /\ IsFiniteSet(Share(T, r, kind))
         /\ \A i \in Share(T, r, kind) : ValuesOf(T)[i] \in Nat
         /\ Sum(T, r, kind) \in Nat
<1>1. Len(T) \in Nat /\ DOMAIN T = 1..Len(T)
  OBVIOUS
<1>2. IsFiniteSet(1..Len(T))
  BY <1>1, FS_Interval
<1>3. IsFiniteSet(Of(T, r)) /\ Share(T, r, kind) \subseteq Of(T, r)
  BY <1>1, <1>2, FS_Subset DEF Of, Share
<1>4. IsFiniteSet(Share(T, r, kind))
  BY <1>3, FS_Subset
<1>5. \A i \in Share(T, r, kind) : ValuesOf(T)[i] \in Nat
  <2>1. \A i \in DOMAIN T : T[i].value \in Nat
    BY DEF Recorded
  <2> QED
    BY <2>1 DEF Share, Of, ValuesOf
<1> QED
  BY <1>3, <1>4, <1>5, FS_CardinalityType, SumIsNat DEF Sum

\* The samples of another request, or of another kind, change nothing.
LEMMA NothingMore ==
  ASSUME NEW T, NEW T2, NEW more, NEW n, Grown(T, T2, more, n), NEW r, NEW kind,
         \A j \in 1..n : more[j].trace # r \/ more[j].kind # kind
  PROVE  Sum(T2, r, kind) = Sum(T, r, kind)
<1>1. /\ Len(T) \in Nat /\ n \in Nat /\ DOMAIN T = 1..Len(T) /\ DOMAIN T2 = 1..(Len(T) + n)
      /\ \A i \in 1..Len(T) : T2[i] = T[i]
  BY DEF Grown
<1>2. ASSUME NEW i \in 1..(Len(T) + n), i \notin 1..Len(T)
      PROVE  T2[i].trace # r \/ T2[i].kind # kind
  <2>1. PICK j \in 1..n : i = Len(T) + j
    <3>1. i - Len(T) \in 1..n /\ i = Len(T) + (i - Len(T))
      BY <1>1, <1>2
    <3> QED
      BY <3>1
  <2> QED
    BY <2>1 DEF Grown
<1>3. \A i : i \in Share(T2, r, kind) <=> i \in Share(T, r, kind)
  BY <1>1, <1>2 DEF Share, Of
<1>4. Share(T2, r, kind) = Share(T, r, kind)
  BY <1>3
<1>5. \A i \in Share(T, r, kind) : ValuesOf(T)[i] = ValuesOf(T2)[i]
  BY <1>1 DEF Share, Of, ValuesOf
<1>6. SumOver(Share(T, r, kind), ValuesOf(T)) = SumOver(Share(T, r, kind), ValuesOf(T2))
  BY <1>5, SumSame
<1> QED
  BY <1>4, <1>6 DEF Sum

\* One sample of its kind adds its value.
LEMMA OneMore ==
  ASSUME NEW T, NEW T2, NEW more, NEW n, Grown(T, T2, more, n), NEW r, NEW kind,
         NEW j \in 1..n, more[j].trace = r, more[j].kind = kind,
         \A l \in 1..n : l # j => more[l].kind # kind
  PROVE  Sum(T2, r, kind) = Sum(T, r, kind) + more[j].value
<1>1. /\ Len(T) \in Nat /\ n \in Nat /\ DOMAIN T = 1..Len(T) /\ DOMAIN T2 = 1..(Len(T) + n)
      /\ \A i \in 1..Len(T) : T2[i] = T[i]
  BY DEF Grown
<1>2. PICK p : p = Len(T) + j
  OBVIOUS
<1>3. p \in 1..(Len(T) + n) /\ p \notin 1..Len(T) /\ T2[p] = more[j]
  BY <1>1, <1>2 DEF Grown
<1>4. ASSUME NEW i \in 1..(Len(T) + n), i \notin 1..Len(T), i # p PROVE T2[i].kind # kind
  <2>1. PICK l \in 1..n : i = Len(T) + l
    <3>1. i - Len(T) \in 1..n /\ i = Len(T) + (i - Len(T))
      BY <1>1, <1>4
    <3> QED
      BY <3>1
  <2>2. l # j
    BY <1>2, <1>4, <2>1
  <2> QED
    BY <2>1, <2>2 DEF Grown
<1>5. \A i : i \in Share(T2, r, kind) <=> i \in Share(T, r, kind) \/ i = p
  BY <1>1, <1>3, <1>4 DEF Share, Of
<1>6. Share(T2, r, kind) = Share(T, r, kind) \cup {p}
  BY <1>5
<1>7. \A i \in Share(T, r, kind) : ValuesOf(T)[i] = ValuesOf(T2)[i]
  BY <1>1 DEF Share, Of, ValuesOf
<1>8. SumOver(Share(T, r, kind), ValuesOf(T)) = SumOver(Share(T, r, kind), ValuesOf(T2))
  BY <1>7, SumSame
<1>9. /\ IsFiniteSet(Share(T, r, kind))
      /\ \A i \in Share(T2, r, kind) : ValuesOf(T2)[i] \in Nat
  BY Shares DEF Grown
<1>10. p \notin Share(T, r, kind)
  BY <1>1, <1>3 DEF Share, Of
<1>11. SumOver(Share(T, r, kind) \cup {p}, ValuesOf(T2))
         = SumOver(Share(T, r, kind), ValuesOf(T2)) + ValuesOf(T2)[p]
  BY <1>6, <1>9, <1>10, SumMore
<1>12. ValuesOf(T2)[p] = more[j].value
  BY <1>1, <1>3 DEF ValuesOf
<1> QED
  BY <1>6, <1>8, <1>11, <1>12 DEF Sum

\* A request has no fewer samples than before, and another request has the same.
LEMMA NoFewer ==
  ASSUME NEW T, NEW T2, NEW more, NEW n, Grown(T, T2, more, n), NEW r
  PROVE  /\ Cardinality(Of(T, r)) <= Cardinality(Of(T2, r))
         /\ (\A j \in 1..n : more[j].trace # r) => Of(T2, r) = Of(T, r)
<1>1. /\ Len(T) \in Nat /\ n \in Nat /\ DOMAIN T = 1..Len(T) /\ DOMAIN T2 = 1..(Len(T) + n)
      /\ \A i \in 1..Len(T) : T2[i] = T[i]
  BY DEF Grown
<1>2. IsFiniteSet(Of(T2, r)) /\ IsFiniteSet(Of(T, r)) /\ Of(T, r) \subseteq Of(T2, r)
  <2>1. T \in Seq(Recorded) /\ T2 \in Seq(Recorded)
    BY DEF Grown
  <2>2. IsFiniteSet(Of(T2, r)) /\ IsFiniteSet(Of(T, r))
    BY <2>1, Shares
  <2>3. Of(T, r) \subseteq Of(T2, r)
    BY <1>1 DEF Of
  <2> QED
    BY <2>2, <2>3
<1>3. ASSUME \A j \in 1..n : more[j].trace # r PROVE Of(T2, r) = Of(T, r)
  <2>1. ASSUME NEW i \in 1..(Len(T) + n), i \notin 1..Len(T) PROVE T2[i].trace # r
    <3>1. PICK j \in 1..n : i = Len(T) + j
      <4>1. i - Len(T) \in 1..n /\ i = Len(T) + (i - Len(T))
        BY <1>1, <2>1
      <4> QED
        BY <4>1
    <3> QED
      BY <1>3, <3>1 DEF Grown
  <2>2. \A i : i \in Of(T2, r) <=> i \in Of(T, r)
    BY <1>1, <2>1 DEF Of
  <2> QED
    BY <2>2
<1> QED
  BY <1>2, <1>3, FS_Subset

---------------------------------------------------------------------------
(* Types *)

\* What the history keeps of a request.
Life == [ran : Nat, baseline : Nat \cup {None}, early : Nat, waited : Nat, blocked : Nat,
         io : Nat]

\* The types of the variables.
TypeInv ==
  /\ now \in Nat /\ timer \in Nat /\ ticks \in Nat /\ sequence \in Nat
  /\ active \in Requests \cup {None}
  /\ clock \in [last : Nat \cup {None}, wall : Nat, cpu : Nat]
  /\ samples \in Seq(Recorded)
  /\ stack \in Seq([of : Functions, since : Nat])
  /\ spooled \in Seq([sample : Recorded, sequence : Nat])
  /\ truth \in [Requests -> Life]

\* Samples wait for the end of their request, no more of them than there is room for, and
\* no call began later than now.
StoreInv ==
  /\ active = None => samples = <<>>
  /\ Len(samples) <= MaxSamples
  /\ \A i \in 1..Len(samples) : samples[i].trace = active
  /\ \A i \in 1..Len(stack) : stack[i].since <= now

\* What the entries of a spool hold.
LEMMA EntriesAre ==
  ASSUME NEW S, NEW s \in Seq([sample : S, sequence : Nat])
  PROVE  \A i \in 1..Len(s) : s[i].sample \in S
<1> DEFINE R == [sample : S, sequence : Nat]
<1>1. s \in Seq(R)
  OBVIOUS
<1>2. \A x \in R : x.sample \in S
  OBVIOUS
<1> HIDE DEF R
<1>3. \A i \in 1..Len(s) : s[i] \in R
  BY <1>1, ElementOfSeq
<1> QED
  BY <1>2, <1>3

\* The samples of the spool.
LEMMA SpooledIs ==
  ASSUME TypeInv
  PROVE  /\ Len(spooled) \in Nat /\ DOMAIN spooled = 1..Len(spooled)
         /\ \A i \in 1..Len(spooled) : spooled[i].sample \in Recorded
<1>1. spooled \in Seq([sample : Recorded, sequence : Nat])
  BY DEF TypeInv
<1>2. Len(spooled) \in Nat /\ DOMAIN spooled = 1..Len(spooled)
  BY <1>1
<1>3. \A i \in 1..Len(spooled) : spooled[i].sample \in Recorded
  BY <1>1, EntriesAre
<1> QED
  BY <1>2, <1>3

\* The frames of the stack.
LEMMA StackIs ==
  ASSUME TypeInv
  PROVE  /\ Len(stack) \in Nat
         /\ \A i \in 1..Len(stack) : stack[i].of \in Functions /\ stack[i].since \in Nat
<1> DEFINE R == [of : Functions, since : Nat]
<1>1. stack \in Seq(R)
  BY DEF TypeInv
<1>2. \A x \in R : x.of \in Functions /\ x.since \in Nat
  OBVIOUS
<1> HIDE DEF R
<1>3. Len(stack) \in Nat /\ \A i \in 1..Len(stack) : stack[i] \in R
  BY <1>1, ElementOfSeq
<1> QED
  BY <1>2, <1>3

\* Two sequences in a row.
LEMMA InARow ==
  ASSUME NEW S, NEW a \in Seq(S), NEW b \in Seq(S)
  PROVE  /\ a \o b \in Seq(S) /\ Len(a \o b) = Len(a) + Len(b)
         /\ \A i \in 1..Len(a) : (a \o b)[i] = a[i]
         /\ \A j \in 1..Len(b) : (a \o b)[Len(a) + j] = b[j]
<1>1. Len(a) \in Nat /\ Len(b) \in Nat
  OBVIOUS
<1>2. a \o b \in Seq(S) /\ Len(a \o b) = Len(a) + Len(b)
  OBVIOUS
<1>3. \A i \in 1..Len(a) : (a \o b)[i] = a[i]
  OBVIOUS
<1>4. \A j \in 1..Len(b) : (a \o b)[Len(a) + j] = b[j]
  OBVIOUS
<1> QED
  BY <1>2, <1>3, <1>4

\* What was told is what the spool holds, then what waits.
LEMMA ToldIs ==
  ASSUME TypeInv
  PROVE  /\ Told \in Seq(Recorded) /\ Len(Told) = Len(spooled) + Len(samples)
         /\ Len(spooled) \in Nat /\ Len(samples) \in Nat
         /\ \A i \in 1..Len(spooled) : Told[i] = spooled[i].sample
         /\ \A j \in 1..Len(samples) : Told[Len(spooled) + j] = samples[j]
<1>1. PICK written : written = [i \in DOMAIN spooled |-> spooled[i].sample]
  OBVIOUS
<1>2. spooled \in Seq([sample : Recorded, sequence : Nat]) /\ samples \in Seq(Recorded)
  BY DEF TypeInv
<1>3. /\ written \in Seq(Recorded) /\ Len(written) = Len(spooled) /\ Len(spooled) \in Nat
      /\ \A i \in 1..Len(spooled) : written[i] = spooled[i].sample
  <2>1. Len(spooled) \in Nat /\ DOMAIN spooled = 1..Len(spooled)
    BY <1>2
  <2>2. \A i \in 1..Len(spooled) : spooled[i].sample \in Recorded
    BY SpooledIs
  <2>3. written \in [1..Len(spooled) -> Recorded]
    BY <1>1, <2>1, <2>2
  <2> QED
    BY <1>1, <2>1, <2>3
<1>4. Told = written \o samples
  BY <1>1 DEF Told
<1>5. /\ written \o samples \in Seq(Recorded)
      /\ Len(written \o samples) = Len(written) + Len(samples)
      /\ \A i \in 1..Len(written) : (written \o samples)[i] = written[i]
      /\ \A j \in 1..Len(samples) : (written \o samples)[Len(written) + j] = samples[j]
  <2>1. written \in Seq(Recorded) /\ samples \in Seq(Recorded)
    BY <1>2, <1>3
  <2> QED
    BY <2>1, InARow
<1>6. Len(samples) \in Nat
  BY <1>2
<1> QED
  BY <1>3, <1>4, <1>5, <1>6

\* The lesser of two integers.
LEMMA LeastOfTwo ==
  ASSUME NEW a \in Int, NEW b \in Int
  PROVE  Min({a, b}) = IF a <= b THEN a ELSE b
<1>1. CASE a <= b
  <2>1. a \in {a, b} /\ \A y \in {a, b} : a <= y
    BY <1>1
  <2>2. \A x \in {a, b} : (\A y \in {a, b} : x <= y) => x = a
    BY <1>1
  <2> QED
    BY <1>1, <2>1, <2>2 DEF Min
<1>2. CASE ~(a <= b)
  <2>1. b \in {a, b} /\ \A y \in {a, b} : b <= y
    BY <1>2
  <2>2. \A x \in {a, b} : (\A y \in {a, b} : x <= y) => x = b
    BY <1>2
  <2> QED
    BY <1>2, <2>1, <2>2 DEF Min
<1> QED
  BY <1>1, <1>2

\* The greater of two integers.
LEMMA MostOfTwo ==
  ASSUME NEW a \in Int, NEW b \in Int
  PROVE  Max({a, b}) = IF a >= b THEN a ELSE b
<1>1. CASE a >= b
  <2>1. a \in {a, b} /\ \A y \in {a, b} : a >= y
    BY <1>1
  <2>2. \A x \in {a, b} : (\A y \in {a, b} : x >= y) => x = a
    BY <1>1
  <2> QED
    BY <1>1, <2>1, <2>2 DEF Max
<1>2. CASE ~(a >= b)
  <2>1. b \in {a, b} /\ \A y \in {a, b} : b >= y
    BY <1>2
  <2>2. \A x \in {a, b} : (\A y \in {a, b} : x >= y) => x = b
    BY <1>2
  <2> QED
    BY <1>2, <2>1, <2>2 DEF Max
<1> QED
  BY <1>1, <1>2

\* What is pushed: as much as there is room for.
LEMMA PushedIs ==
  ASSUME TypeInv, StoreInv, NEW more \in Seq(Recorded)
  PROVE  \E n \in 0..Len(more) :
           /\ Pushed(more) \in Seq(Recorded) /\ Len(Pushed(more)) = Len(samples) + n
           /\ Len(samples) + n <= MaxSamples
           /\ n < Len(more) => Len(samples) + n = MaxSamples
           /\ \A i \in 1..Len(samples) : Pushed(more)[i] = samples[i]
           /\ \A j \in 1..n : Pushed(more)[Len(samples) + j] = more[j]
<1>1. /\ samples \in Seq(Recorded) /\ Len(samples) \in Nat /\ Len(more) \in Nat
      /\ Len(samples) <= MaxSamples /\ MaxSamples \in Nat
  BY Constants DEF TypeInv, StoreInv
<1>2. PICK n : n = Min({Len(more), MaxSamples - Len(samples)})
  OBVIOUS
<1>3. n \in 0..Len(more) /\ Len(samples) + n <= MaxSamples
      /\ (n < Len(more) => Len(samples) + n = MaxSamples)
  BY <1>1, <1>2, LeastOfTwo
<1>4. PICK all : all = samples \o more
  OBVIOUS
<1>5. /\ all \in Seq(Recorded) /\ Len(all) = Len(samples) + Len(more)
      /\ \A i \in 1..Len(samples) : all[i] = samples[i]
      /\ \A j \in 1..Len(more) : all[Len(samples) + j] = more[j]
  BY <1>1, <1>4
<1>6. PICK m \in Nat : m = Len(samples) + n /\ m <= Len(all)
  BY <1>1, <1>3, <1>5
<1>7. /\ SubSeq(all, 1, m) \in Seq(Recorded) /\ Len(SubSeq(all, 1, m)) = m
      /\ \A i \in 1..m : SubSeq(all, 1, m)[i] = all[i]
  <2>1. \A i \in 1..m : all[i] \in Recorded
    BY <1>5, <1>6
  <2>2. 1 \in Int /\ m \in Int /\ m - 1 + 1 = m
    BY <1>6
  <2>3. /\ SubSeq(all, 1, m) \in Seq(Recorded)
        /\ Len(SubSeq(all, 1, m)) = IF 1 <= m THEN m - 1 + 1 ELSE 0
        /\ \A i \in 1..(m - 1 + 1) : SubSeq(all, 1, m)[i] = all[1 + i - 1]
    BY <2>1, <2>2, SubSeqProperties
  <2>4. \A i \in 1..m : 1 + i - 1 = i
    OBVIOUS
  <2> QED
    BY <1>6, <2>2, <2>3, <2>4
<1>8. Pushed(more) = SubSeq(all, 1, m)
  BY <1>2, <1>4, <1>6 DEF Pushed
<1>9. \A i \in 1..Len(samples) : i \in 1..m
  BY <1>1, <1>3, <1>6
<1>10. \A j \in 1..n : Len(samples) + j \in 1..m /\ j \in 1..Len(more)
  BY <1>1, <1>3, <1>6
<1>11. /\ Pushed(more) \in Seq(Recorded) /\ Len(Pushed(more)) = Len(samples) + n
       /\ \A i \in 1..Len(samples) : Pushed(more)[i] = samples[i]
       /\ \A j \in 1..n : Pushed(more)[Len(samples) + j] = more[j]
  BY <1>5, <1>6, <1>7, <1>8, <1>9, <1>10
<1> QED
  BY <1>3, <1>11

\* A request with no room left is not complete.
LEMMA FullIsIncomplete ==
  ASSUME NEW T \in Seq(Recorded), NEW r, NEW m \in Nat, Len(T) = m + MaxSamples,
         \A j \in 1..MaxSamples : T[m + j].trace = r
  PROVE  ~(Cardinality(Of(T, r)) < MaxSamples)
<1>1. MaxSamples \in Nat
  BY Constants
<1>2. PICK a \in Int : a = m + 1
  OBVIOUS
<1>3. PICK b \in Int : b = m + MaxSamples
  BY <1>1
<1>4. IsFiniteSet(a..b) /\ Cardinality(a..b) = MaxSamples
  <2>1. IsFiniteSet(a..b) /\ Cardinality(a..b) = IF a > b THEN 0 ELSE b - a + 1
    BY FS_Interval
  <2> QED
    BY <1>1, <1>2, <1>3, <2>1, Constants
<1>5. ASSUME NEW i \in a..b PROVE i \in Of(T, r)
  <2>1. PICK j \in 1..MaxSamples : i = m + j
    <3>1. i - m \in 1..MaxSamples /\ i = m + (i - m)
      BY <1>1, <1>2, <1>3
    <3> QED
      BY <3>1
  <2>2. i \in DOMAIN T /\ T[i].trace = r
    BY <1>1, <2>1
  <2> QED
    BY <2>2 DEF Of
<1>6. a..b \subseteq Of(T, r)
  BY <1>5
<1>7. IsFiniteSet(Of(T, r)) /\ Cardinality(Of(T, r)) \in Nat
  BY Shares
<1>8. Cardinality(a..b) <= Cardinality(Of(T, r))
  BY <1>6, <1>7, FS_Subset
<1> QED
  BY <1>1, <1>4, <1>7, <1>8

\* Samples of the open request are pushed, and told of as T2.
Pushes(T2, more, n) ==
  /\ Grown(Told, T2, more, n)
  /\ samples' \in Seq(Recorded) /\ Len(samples') <= MaxSamples
  /\ \A i \in 1..Len(samples') : samples'[i].trace = active
  /\ n < Len(more) => ~(Cardinality(Of(T2, active)) < MaxSamples)

\* Pushed does so, of some of the samples it is given and of all if there is room.
LEMMA Pushing ==
  ASSUME TypeInv, StoreInv, NEW more \in Seq(Recorded),
         \A j \in 1..Len(more) : more[j].trace = active,
         samples' = Pushed(more), UNCHANGED spooled
  PROVE  \E n \in 0..Len(more), T2 \in Seq(Recorded) : T2 = Told' /\ Pushes(T2, more, n)
<1>1. PICK n \in 0..Len(more) :
        /\ samples' \in Seq(Recorded) /\ Len(samples') = Len(samples) + n
        /\ Len(samples) + n <= MaxSamples
        /\ n < Len(more) => Len(samples) + n = MaxSamples
        /\ \A i \in 1..Len(samples) : samples'[i] = samples[i]
        /\ \A j \in 1..n : samples'[Len(samples) + j] = more[j]
  BY PushedIs
<1>2. /\ Told \in Seq(Recorded) /\ Len(Told) = Len(spooled) + Len(samples)
      /\ Len(spooled) \in Nat /\ Len(samples) \in Nat
      /\ \A i \in 1..Len(spooled) : Told[i] = spooled[i].sample
      /\ \A j \in 1..Len(samples) : Told[Len(spooled) + j] = samples[j]
  BY ToldIs
<1>3. PICK written : written = [i \in DOMAIN spooled |-> spooled[i].sample]
  OBVIOUS
<1>4. Told' = written \o samples'
  BY <1>3 DEF Told
<1>5. /\ written \in Seq(Recorded) /\ Len(written) = Len(spooled)
      /\ \A i \in 1..Len(spooled) : written[i] = spooled[i].sample
  <2>1. /\ Len(spooled) \in Nat /\ DOMAIN spooled = 1..Len(spooled)
        /\ \A i \in 1..Len(spooled) : spooled[i].sample \in Recorded
    BY SpooledIs
  <2>2. written \in [1..Len(spooled) -> Recorded]
    BY <1>3, <2>1
  <2> QED
    BY <1>3, <2>1, <2>2
<1>6. PICK T2 : T2 = written \o samples'
  OBVIOUS
<1>7. /\ T2 \in Seq(Recorded) /\ Len(T2) = Len(spooled) + Len(samples')
      /\ \A i \in 1..Len(spooled) : T2[i] = written[i]
      /\ \A j \in 1..Len(samples') : T2[Len(spooled) + j] = samples'[j]
  <2>1. PICK S2 \in Seq(Recorded) : S2 = samples'
    BY <1>1
  <2>2. written \in Seq(Recorded) /\ Len(written) = Len(spooled) /\ T2 = written \o S2
    BY <1>5, <1>6, <2>1
  <2>3. written \in Seq(Recorded) /\ S2 \in Seq(Recorded)
    BY <2>1, <2>2
  <2>4. /\ written \o S2 \in Seq(Recorded) /\ Len(written \o S2) = Len(written) + Len(S2)
        /\ \A i \in 1..Len(written) : (written \o S2)[i] = written[i]
        /\ \A j \in 1..Len(S2) : (written \o S2)[Len(written) + j] = S2[j]
    BY <2>3, InARow
  <2>5. T2 \in Seq(Recorded) /\ Len(T2) = Len(spooled) + Len(S2)
    BY <2>2, <2>4
  <2>6. \A i \in 1..Len(spooled) : T2[i] = written[i]
    BY <2>2, <2>4
  <2>7. \A j \in 1..Len(S2) : T2[Len(spooled) + j] = S2[j]
    BY <2>2, <2>4
  <2> QED
    BY <2>1, <2>5, <2>6, <2>7
<1>8. Len(T2) = Len(Told) + n /\ n \in Nat
  BY <1>1, <1>2, <1>7
<1>9. ASSUME NEW i \in 1..Len(Told) PROVE T2[i] = Told[i]
  <2>1. CASE i \in 1..Len(spooled)
    BY <1>2, <1>5, <1>7, <2>1
  <2>2. CASE i \notin 1..Len(spooled)
    <3>1. PICK j \in 1..Len(samples) : i = Len(spooled) + j
      <4>1. i - Len(spooled) \in 1..Len(samples) /\ i = Len(spooled) + (i - Len(spooled))
        BY <1>2, <2>2
      <4> QED
        BY <4>1
    <3>2. j \in 1..Len(samples')
      BY <1>1, <1>2
    <3> QED
      BY <1>1, <1>2, <1>7, <3>1, <3>2
  <2> QED
    BY <2>1, <2>2
<1>10. ASSUME NEW j \in 1..n PROVE T2[Len(Told) + j] = more[j]
  <2>1. /\ Len(samples) + j \in 1..Len(samples')
        /\ Len(Told) + j = Len(spooled) + (Len(samples) + j)
    BY <1>1, <1>2
  <2> QED
    BY <1>1, <1>7, <2>1
<1>11. Grown(Told, T2, more, n)
  BY <1>2, <1>7, <1>8, <1>9, <1>10 DEF Grown
<1>12. ASSUME NEW i \in 1..Len(samples') PROVE samples'[i].trace = active
  <2>1. CASE i \in 1..Len(samples)
    BY <1>1, <2>1 DEF StoreInv
  <2>2. CASE i \notin 1..Len(samples)
    <3>1. PICK j \in 1..n : i = Len(samples) + j
      <4>1. i - Len(samples) \in 1..n /\ i = Len(samples) + (i - Len(samples))
        BY <1>1, <1>2, <2>2
      <4> QED
        BY <4>1
    <3>2. j \in 1..Len(more)
      BY <1>1
    <3> QED
      BY <1>1, <3>1, <3>2
  <2> QED
    BY <2>1, <2>2
<1>13. ASSUME n < Len(more) PROVE ~(Cardinality(Of(T2, active)) < MaxSamples)
  <2>1. Len(samples') = MaxSamples /\ Len(spooled) \in Nat
    BY <1>1, <1>2, <1>13
  <2>2. Len(T2) = Len(spooled) + MaxSamples
    BY <1>7, <2>1
  <2>3. \A j \in 1..MaxSamples : T2[Len(spooled) + j].trace = active
    BY <1>7, <1>12, <2>1
  <2> QED
    BY <1>7, <2>1, <2>2, <2>3, FullIsIncomplete
<1> QED
  BY <1>1, <1>4, <1>6, <1>7, <1>11, <1>12, <1>13 DEF Pushes

\* What the tables T and T2 say alike of a request.
Same(T, T2, r) ==
  /\ \A kind : Sum(T2, r, kind) = Sum(T, r, kind)
  /\ Cardinality(Of(T2, r)) = Cardinality(Of(T, r))

\* No sample of the request has been dropped for want of room.
Room(T, r) == Cardinality(Of(T, r)) < MaxSamples

\* What is added to a request by samples of different kinds: each one's value or, if it
\* finds no room, nothing.
Added(T, T2, r, more) ==
  /\ Room(T2, r) => Room(T, r)
  /\ \A kind : (\A j \in 1..Len(more) : more[j].kind # kind) =>
       Sum(T2, r, kind) = Sum(T, r, kind)
  /\ \A j \in 1..Len(more) :
       /\ Sum(T2, r, more[j].kind) \in {Sum(T, r, more[j].kind),
                                       Sum(T, r, more[j].kind) + more[j].value}
       /\ Room(T2, r) => Sum(T2, r, more[j].kind) = Sum(T, r, more[j].kind) + more[j].value

\* A table that grew by samples of one request adds to it and leaves the others.
LEMMA PushAdds ==
  ASSUME NEW T, NEW T2, NEW more \in Seq(Recorded), NEW n \in 0..Len(more), NEW a,
         Grown(T, T2, more, n),
         \A j \in 1..Len(more) : more[j].trace = a,
         \A j, l \in 1..Len(more) : j # l => more[j].kind # more[l].kind,
         n < Len(more) => ~Room(T2, a)
  PROVE  Added(T, T2, a, more) /\ \A r : r # a => Same(T, T2, r)
<1>1. T \in Seq(Recorded) /\ T2 \in Seq(Recorded) /\ Len(more) \in Nat /\ n \in Nat
  BY DEF Grown
<1>2. \A j \in 1..n : j \in 1..Len(more) /\ more[j].trace = a
  BY <1>1
<1>3. ASSUME NEW r, r # a PROVE Same(T, T2, r)
  <2>1. ASSUME NEW kind PROVE Sum(T2, r, kind) = Sum(T, r, kind)
    BY <1>2, <1>3, NothingMore
  <2>2. Of(T2, r) = Of(T, r)
    BY <1>2, <1>3, NoFewer
  <2> QED
    BY <2>1, <2>2 DEF Same
<1>4. Room(T2, a) => Room(T, a)
  <2>1. Cardinality(Of(T, a)) <= Cardinality(Of(T2, a))
    BY NoFewer
  <2>2. Cardinality(Of(T, a)) \in Nat /\ Cardinality(Of(T2, a)) \in Nat /\ MaxSamples \in Nat
    BY <1>1, Shares, Constants
  <2> QED
    BY <2>1, <2>2 DEF Room
<1>5. ASSUME NEW kind, \A j \in 1..Len(more) : more[j].kind # kind
      PROVE  Sum(T2, a, kind) = Sum(T, a, kind)
  BY <1>2, <1>5, NothingMore
<1>6. ASSUME NEW j \in 1..Len(more)
      PROVE  /\ Sum(T2, a, more[j].kind) \in {Sum(T, a, more[j].kind),
                                             Sum(T, a, more[j].kind) + more[j].value}
             /\ Room(T2, a) =>
                  Sum(T2, a, more[j].kind) = Sum(T, a, more[j].kind) + more[j].value
  <2>1. PICK kind : kind = more[j].kind
    OBVIOUS
  <2>2. CASE j \in 1..n
    <3>1. more[j].trace = a /\ more[j].kind = kind
      BY <2>1
    <3>2. \A l \in 1..n : l # j => more[l].kind # kind
      BY <1>2, <2>1
    <3>3. Sum(T2, a, kind) = Sum(T, a, kind) + more[j].value
      BY <2>2, <3>1, <3>2, OneMore
    <3> QED
      BY <2>1, <3>3
  <2>3. CASE j \notin 1..n
    <3>1. n < Len(more)
      BY <1>1, <2>3
    <3>2. \A l \in 1..n : l # j
      BY <2>3
    <3>3. \A l \in 1..n : more[l].kind # kind
      BY <1>2, <2>1, <3>2
    <3>4. Sum(T2, a, kind) = Sum(T, a, kind)
      BY <3>3, NothingMore
    <3> QED
      BY <2>1, <3>1, <3>4
  <2> QED
    BY <2>2, <2>3
<1> QED
  BY <1>3, <1>4, <1>5, <1>6 DEF Added

---------------------------------------------------------------------------
(* What is pushed at a drain and at the end of a wait *)

\* A part of a drain: one sample or none.
Part(p, s) == IF p = 1 THEN <<s>> ELSE <<>>

\* The three parts of a drain: CPU, wall and off-CPU.
Parts(p, x, q, y, r, z) == Part(p, x) \o Part(q, y) \o Part(r, z)

\* A part is a sequence of no sample or one.
LEMMA PartIs ==
  ASSUME NEW S, NEW p \in 0..1, NEW s, p = 1 => s \in S
  PROVE  /\ Part(p, s) \in Seq(S) /\ Len(Part(p, s)) = p
         /\ p = 1 => Part(p, s)[1] = s
<1>1. CASE p = 1
  BY <1>1 DEF Part
<1>2. CASE p = 0
  BY <1>2 DEF Part
<1> QED
  BY <1>1, <1>2

\* How they lie in a sequence m.
Laid(m, p, x, q, y, r, z) ==
  /\ Len(m) = p + q + r
  /\ p = 1 => m[1] = x
  /\ q = 1 => m[p + 1] = y
  /\ r = 1 => m[p + q + 1] = z

\* The three parts lie one after the other.
LEMMA ThreeParts ==
  ASSUME NEW S, NEW p \in 0..1, NEW q \in 0..1, NEW r \in 0..1, NEW x, NEW y, NEW z,
         p = 1 => x \in S, q = 1 => y \in S, r = 1 => z \in S
  PROVE  Parts(p, x, q, y, r, z) \in Seq(S) /\ Laid(Parts(p, x, q, y, r, z), p, x, q, y, r, z)
<1>1. PICK k, l, o : k = Part(p, x) /\ l = Part(q, y) /\ o = Part(r, z)
  OBVIOUS
<1>2. k \in Seq(S) /\ Len(k) = p /\ (p = 1 => k[1] = x)
  BY ZenonT(60), <1>1, PartIs
<1>3. l \in Seq(S) /\ Len(l) = q /\ (q = 1 => l[1] = y)
  BY <1>1, PartIs
<1>4. o \in Seq(S) /\ Len(o) = r /\ (r = 1 => o[1] = z)
  BY ZenonT(60), <1>1, PartIs
<1>5. PICK kl : kl = k \o l
  OBVIOUS
<1>6. /\ kl \in Seq(S) /\ Len(kl) = Len(k) + Len(l)
      /\ \A i \in 1..Len(k) : kl[i] = k[i]
      /\ \A j \in 1..Len(l) : kl[Len(k) + j] = l[j]
  BY <1>2, <1>3, <1>5, InARow
<1>7. PICK m : m = kl \o o
  OBVIOUS
<1>8. /\ m \in Seq(S) /\ Len(m) = Len(kl) + Len(o)
      /\ \A i \in 1..Len(kl) : m[i] = kl[i]
      /\ \A j \in 1..Len(o) : m[Len(kl) + j] = o[j]
  BY <1>4, <1>6, <1>7, InARow
<1>9. Len(m) = p + q + r
  BY <1>2, <1>3, <1>4, <1>6, <1>8
<1>10. ASSUME p = 1 PROVE m[1] = x
  BY <1>2, <1>3, <1>6, <1>8, <1>10
<1>11. ASSUME q = 1 PROVE m[p + 1] = y
  BY <1>2, <1>3, <1>6, <1>8, <1>11
<1>12. ASSUME r = 1 PROVE m[p + q + 1] = z
  BY <1>2, <1>3, <1>4, <1>6, <1>8, <1>12
<1>13. m = Parts(p, x, q, y, r, z)
  BY <1>1, <1>5, <1>7 DEF Parts
<1>14. Laid(m, p, x, q, y, r, z)
  BY <1>9, <1>10, <1>11, <1>12 DEF Laid
<1> QED
  BY <1>8, <1>13, <1>14

\* What one sample that is due or not adds to the sum of its kind.
Gains(T, T2, a, kind, due, value) ==
  /\ due = 0 => Sum(T2, a, kind) = Sum(T, a, kind)
  /\ due = 1 => Sum(T2, a, kind) \in {Sum(T, a, kind), Sum(T, a, kind) + value}
  /\ due = 1 /\ Room(T2, a) => Sum(T2, a, kind) = Sum(T, a, kind) + value

\* Three samples of different kinds add each to its own.
ThreeGains(T, T2, act, p, x, q, y, r, z) ==
  /\ Room(T2, act) => Room(T, act)
  /\ Gains(T, T2, act, x.kind, p, x.value)
  /\ Gains(T, T2, act, y.kind, q, y.value)
  /\ Gains(T, T2, act, z.kind, r, z.value)
  /\ \A kind : kind \notin {x.kind, y.kind, z.kind} => Sum(T2, act, kind) = Sum(T, act, kind)

\* What is added by three parts is added to the kind of each.
LEMMA ThreeGain ==
  ASSUME NEW T, NEW T2, NEW act, NEW p \in 0..1, NEW q \in 0..1, NEW r \in 0..1,
         NEW x, NEW y, NEW z,
         x.kind # y.kind, x.kind # z.kind, y.kind # z.kind,
         NEW m, Laid(m, p, x, q, y, r, z),
         Added(T, T2, act, m)
  PROVE  ThreeGains(T, T2, act, p, x, q, y, r, z)
<1>1. \A j \in 1..Len(m) : \/ p = 1 /\ j = 1 /\ m[j] = x
                           \/ q = 1 /\ j = p + 1 /\ m[j] = y
                           \/ r = 1 /\ j = p + q + 1 /\ m[j] = z
  BY DEF Laid
<1>2. /\ p = 1 => 1 \in 1..Len(m)
      /\ q = 1 => p + 1 \in 1..Len(m)
      /\ r = 1 => p + q + 1 \in 1..Len(m)
  BY DEF Laid
<1>3. Gains(T, T2, act, x.kind, p, x.value)
  <2>1. CASE p = 1
    BY <1>2, <2>1 DEF Added, Gains, Laid
  <2>2. CASE p = 0
    <3>1. \A j \in 1..Len(m) : m[j].kind # x.kind
      BY <1>1, <2>2
    <3> QED
      BY <2>2, <3>1 DEF Added, Gains
  <2> QED
    BY <2>1, <2>2
<1>4. Gains(T, T2, act, y.kind, q, y.value)
  <2>1. CASE q = 1
    BY <1>2, <2>1 DEF Added, Gains, Laid
  <2>2. CASE q = 0
    <3>1. \A j \in 1..Len(m) : m[j].kind # y.kind
      BY <1>1, <2>2
    <3> QED
      BY <2>2, <3>1 DEF Added, Gains
  <2> QED
    BY <2>1, <2>2
<1>5. Gains(T, T2, act, z.kind, r, z.value)
  <2>1. CASE r = 1
    BY <1>2, <2>1 DEF Added, Gains, Laid
  <2>2. CASE r = 0
    <3>1. \A j \in 1..Len(m) : m[j].kind # z.kind
      BY <1>1, <2>2
    <3> QED
      BY <2>2, <3>1 DEF Added, Gains
  <2> QED
    BY <2>1, <2>2
<1>6. ASSUME NEW kind, kind \notin {x.kind, y.kind, z.kind}
      PROVE  Sum(T2, act, kind) = Sum(T, act, kind)
  <2>1. \A j \in 1..Len(m) : m[j].kind # kind
    BY <1>1, <1>6
  <2> QED
    BY <2>1 DEF Added
<1> QED
  BY <1>3, <1>4, <1>5, <1>6 DEF Added, ThreeGains

\* All but the last.
LEMMA FrontIs ==
  ASSUME NEW S, NEW s \in Seq(S), s # <<>>
  PROVE  /\ Front(s) \in Seq(S) /\ Len(Front(s)) = Len(s) - 1
         /\ \A i \in 1..(Len(s) - 1) : Front(s)[i] = s[i]
         /\ Len(s) \in Nat /\ Len(s) >= 1 /\ Last(s) = s[Len(s)] /\ Last(s) \in S
<1>1. Len(s) \in Nat /\ Len(s) >= 1
  OBVIOUS
<1>2. PICK m \in Nat : m = Len(s) - 1
  BY <1>1
<1>3. /\ SubSeq(s, 1, m) \in Seq(S)
      /\ Len(SubSeq(s, 1, m)) = IF 1 <= m THEN m - 1 + 1 ELSE 0
      /\ \A i \in 1..(m - 1 + 1) : SubSeq(s, 1, m)[i] = s[1 + i - 1]
  <2>1. \A i \in 1..m : s[i] \in S
    BY <1>1, <1>2, ElementOfSeq
  <2> QED
    BY <2>1, SubSeqProperties
<1>4. m - 1 + 1 = m /\ \A i \in 1..m : 1 + i - 1 = i
  OBVIOUS
<1>5. Front(s) = SubSeq(s, 1, m)
  BY <1>2 DEF Front
<1>6. Last(s) = s[Len(s)] /\ Last(s) \in S
  BY <1>1, ElementOfSeq DEF Last
<1> QED
  BY <1>1, <1>2, <1>3, <1>4, <1>5, <1>6

\* The walk keeps the innermost frames.
LEMMA WalkedIs ==
  ASSUME NEW s \in Seq([of : Functions, since : Nat])
  PROVE  Walked(s) \in Seq(Functions)
<1>1. PICK n : n = Names(s)
  OBVIOUS
<1>2. n \in Seq(Functions)
  <2>1. Len(s) \in Nat /\ DOMAIN s = 1..Len(s)
    OBVIOUS
  <2>2. \A i \in 1..Len(s) : s[i].of \in Functions
    <3> DEFINE R == [of : Functions, since : Nat]
    <3>1. s \in Seq(R) /\ \A x \in R : x.of \in Functions
      OBVIOUS
    <3> HIDE DEF R
    <3>2. \A i \in 1..Len(s) : s[i] \in R
      BY <3>1, ElementOfSeq
    <3> QED
      BY <3>1, <3>2
  <2>3. n \in [1..Len(s) -> Functions]
    BY <1>1, <2>1, <2>2 DEF Names
  <2> QED
    BY <2>1, <2>3
<1>3. PICK m \in Int : m = Max({1, Len(n) - MaxDepth + 1}) /\ m >= 1
  <2>1. Len(n) \in Nat /\ Len(n) - MaxDepth + 1 \in Int
    BY <1>2, Constants
  <2> QED
    BY <2>1, MostOfTwo
<1>4. SubSeq(n, m, Len(n)) \in Seq(Functions)
  <2>1. Len(n) \in Int /\ \A i \in m..Len(n) : i \in 1..Len(n)
    BY <1>2, <1>3
  <2>2. \A i \in m..Len(n) : n[i] \in Functions
    BY <1>2, <2>1, ElementOfSeq
  <2> QED
    BY <1>3, <2>1, <2>2, SubSeqProperties
<1> QED
  BY <1>1, <1>3, <1>4 DEF Walked

\* The leaf of an I/O sample is the call that waited.
LEMMA IoStackIs ==
  ASSUME NEW frames \in Seq(Functions), NEW f \in Functions
  PROVE  IoStack(frames, f) \in Seq(Functions) /\ Last(IoStack(frames, f)) = f
<1>1. /\ Append(frames, f) \in Seq(Functions) /\ Len(Append(frames, f)) = Len(frames) + 1
      /\ Append(frames, f)[Len(frames) + 1] = f
  OBVIOUS
<1>2. Last(Append(frames, f)) = f
  BY <1>1 DEF Last
<1> QED
  BY <1>1, <1>2 DEF IoStack

---------------------------------------------------------------------------
(* The invariant *)

\* The CPU of the ticks a request has drained.  The ticks raised so far are the periods in
\* what it ran, and those still queued are not drained.
Drained(r) == truth[r].ran + timer - Period - Period * ticks

\* The timer of the open request has raised whole periods, and the clock starts with the
\* first drain: until then no tick has been taken.
ClockInv ==
  active # None =>
    /\ timer \in 1..Period
    /\ \E k \in Nat : truth[active].ran + timer = Period * (k + 1)
    /\ clock.last = None <=> truth[active].baseline = None
    /\ clock.last = None => clock = Idle /\ Drained(active) = 0
    /\ clock.last # None => clock.last <= now

\* Before the first drain nothing is told of windows and nothing is known of waits.
FreshInv ==
  \A r \in Requests : truth[r].baseline = None =>
    /\ truth[r].waited = 0 /\ truth[r].blocked = 0
    /\ Total(r, "wall") = 0 /\ Total(r, "off_cpu") = 0

\* The ticks told of are the ticks drained.
CpuInv ==
  /\ \A r \in Requests : Total(r, "cpu") <= truth[r].ran
  /\ active # None =>
       /\ Total(active, "cpu") <= Drained(active)
       /\ "cpu" \in Kinds /\ Complete(active) => Total(active, "cpu") = Drained(active)

\* Since the first drain the process ran or was off the CPU: (1) what it ran before is less
\* than the ticks found there and one more; (2) the ticks not yet banked are within what ran
\* in the window; (3) the off-CPU samples make up for the windows less the ticks in them.
OffInv ==
  active # None /\ clock.last # None =>
    /\ truth[active].ran + truth[active].waited + truth[active].blocked
         - (now - truth[active].baseline) <= Period * truth[active].early + Period - 1
    /\ Drained(active) - clock.cpu
         <= truth[active].ran + truth[active].blocked - now + clock.last - clock.wall
    /\ "off_cpu" \in Kinds /\ Complete(active) =>
         Total(active, "off_cpu")
           >= clock.last - truth[active].baseline - clock.wall - Drained(active) + clock.cpu

\* I/O is exact while there is room.
IoInv ==
  \A r \in Requests : "io" \in Kinds /\ Complete(r) => Total(r, "io") = truth[r].io

\* What a request that is over leaves of its waits.
Counted(r) ==
  "off_cpu" \in Kinds /\ Complete(r) /\ truth[r].baseline # None =>
    Total(r, "off_cpu") + Period * truth[r].early + Period - 1 >= truth[r].waited

\* Every request that is over is counted.
PastInv == \A r \in Requests : r # active => Counted(r)

\* The inductive invariant.
IInv ==
  /\ TypeInv /\ StoreInv /\ ClockInv /\ FreshInv /\ CpuInv
  /\ WindowsTile /\ OffInv /\ PastInv /\ IoInv

\* The types of what the proofs compute with.
LEMMA TypeFacts ==
  ASSUME TypeInv
  PROVE  /\ now \in Nat /\ timer \in Nat /\ ticks \in Nat /\ Period * ticks \in Nat
         /\ clock.last \in Nat \cup {None} /\ clock.wall \in Nat /\ clock.cpu \in Nat
         /\ \A r \in Requests :
              /\ truth[r] \in Life
              /\ truth[r].ran \in Nat /\ truth[r].baseline \in Nat \cup {None}
              /\ truth[r].early \in Nat /\ Period * truth[r].early \in Nat
              /\ truth[r].waited \in Nat /\ truth[r].blocked \in Nat /\ truth[r].io \in Nat
<1>1. now \in Nat /\ timer \in Nat /\ ticks \in Nat
  BY DEF TypeInv
<1>2. clock.last \in Nat \cup {None} /\ clock.wall \in Nat /\ clock.cpu \in Nat
  BY DEF TypeInv
<1>3. ASSUME NEW r \in Requests
      PROVE  /\ truth[r] \in Life
             /\ truth[r].ran \in Nat /\ truth[r].baseline \in Nat \cup {None}
             /\ truth[r].early \in Nat
             /\ truth[r].waited \in Nat /\ truth[r].blocked \in Nat /\ truth[r].io \in Nat
  BY DEF TypeInv, Life
<1>4. \A n \in Nat : Period * n \in Nat
  BY Constants
<1> QED
  BY <1>1, <1>2, <1>3, <1>4

\* The totals are naturals.
LEMMA TotalsAre ==
  ASSUME TypeInv
  PROVE  \A r, kind : Total(r, kind) \in Nat
BY ToldIs, TotalIsSum, Shares

\* The checks, in terms of the sequence told.
LEMMA Tells ==
  ASSUME NEW T, NEW T2, T = Told, T2 = Told'
  PROVE  /\ \A r, kind : Total(r, kind) = Sum(T, r, kind)
         /\ \A r : Complete(r) <=> Room(T, r)
         /\ \A r, kind : Total(r, kind)' = Sum(T2, r, kind)
         /\ \A r : Complete(r)' <=> Room(T2, r)
<1>1. \A r, kind : Total(r, kind) = Sum(T, r, kind)
  BY DEF SamplesOf, Of, Total, Share, ValuesOf, Sum
<1>2. \A r : Complete(r) <=> Room(T, r)
  BY DEF SamplesOf, Of, Complete, Room
<1>3. \A r, kind : Total(r, kind)' = Sum(T2, r, kind)
  BY DEF SamplesOf, Of, Total, Share, ValuesOf, Sum
<1>4. \A r : Complete(r)' <=> Room(T2, r)
  BY DEF SamplesOf, Of, Complete, Room
<1> QED
  BY <1>1, <1>2, <1>3, <1>4

\* A request of which no more is told.
Quiet(r) ==
  /\ \A kind : Total(r, kind)' = Total(r, kind)
  /\ Complete(r)' <=> Complete(r)

\* If nothing new was told, no more is told of any request.
LEMMA NothingTold ==
  ASSUME Told' = Told
  PROVE  \A r : Quiet(r)
<1>1. PICK T : T = Told
  OBVIOUS
<1>2. /\ \A r, kind : Total(r, kind) = Sum(T, r, kind)
      /\ \A r : Complete(r) <=> Room(T, r)
      /\ \A r, kind : Total(r, kind)' = Sum(T, r, kind)
      /\ \A r : Complete(r)' <=> Room(T, r)
  BY <1>1, Tells
<1> QED
  BY <1>2 DEF Quiet

\* A sample of one kind, due or not, is credited to a request.
Credits(r, kind, due, value) ==
  /\ due = 0 => Total(r, kind)' = Total(r, kind)
  /\ due = 1 => Total(r, kind)' \in {Total(r, kind), Total(r, kind) + value}
  /\ due = 1 /\ Complete(r)' => Total(r, kind)' = Total(r, kind) + value

\* The window is emptied.
LEMMA Emptied ==
  ASSUME NEW A, NEW t \in [last : A, wall : Nat, cpu : Nat],
         NEW c, c = [t EXCEPT !.wall = 0, !.cpu = 0]
  PROVE  c \in [last : A, wall : Nat, cpu : Nat] /\ c.last = t.last /\ c.wall = 0 /\ c.cpu = 0
OBVIOUS

\* Banking a stretch, and what is left in the clock.
LEMMA Advances ==
  ASSUME TypeInv, NEW cpu \in Nat, NEW c2, c2 = Advanced(clock, now, cpu),
         clock.last = None => clock = Idle, clock.last # None => clock.last <= now,
         NEW took, took = Bank(clock, now, cpu)
  PROVE  /\ c2 \in [last : Nat \cup {None}, wall : Nat, cpu : Nat] /\ c2.last = now
         /\ took.wall \in Nat /\ took.cpu = clock.cpu + cpu
         /\ clock.last = None => took.wall = 0 /\ ~WindowEnds(clock, now) /\ clock.cpu = 0
         /\ clock.last # None => took.wall = clock.wall + now - clock.last
         /\ WindowEnds(clock, now) => c2.wall = 0 /\ c2.cpu = 0
         /\ ~WindowEnds(clock, now) => c2.wall = took.wall /\ c2.cpu = took.cpu
<1>1. /\ now \in Nat /\ None \notin Nat /\ clock.last \in Nat \cup {None}
      /\ clock.wall \in Nat /\ clock.cpu \in Nat
  BY TypeFacts, Constants
<1>2. /\ took \in [last : Nat \cup {None}, wall : Nat, cpu : Nat]
      /\ took.last = now /\ took.cpu = clock.cpu + cpu
      /\ clock.last = None => took.wall = clock.wall
      /\ clock.last # None => took.wall = clock.wall + now - clock.last
  <2>1. CASE clock.last = None
    BY <1>1, <2>1 DEF Bank
  <2>2. CASE clock.last # None
    <3>1. clock.last \in Nat /\ clock.last <= now
      BY <1>1, <2>2
    <3> QED
      BY <1>1, <2>2, <3>1 DEF Bank
  <2> QED
    BY <2>1, <2>2
<1>3. clock.last = None => clock.wall = 0 /\ clock.cpu = 0 /\ ~WindowEnds(clock, now)
  BY DEF Idle, WindowEnds
<1>4. CASE WindowEnds(clock, now)
  <2>1. c2 = [took EXCEPT !.wall = 0, !.cpu = 0]
    BY <1>4 DEF Advanced
  <2>2. took \in [last : Nat \cup {None}, wall : Nat, cpu : Nat]
    BY <1>2
  <2>3. /\ c2 \in [last : Nat \cup {None}, wall : Nat, cpu : Nat]
        /\ c2.last = took.last /\ c2.wall = 0 /\ c2.cpu = 0
    BY <2>1, <2>2, Emptied
  <2>4. took.wall \in Nat
    BY <1>2
  <2> QED
    BY <1>2, <1>3, <1>4, <2>3, <2>4
<1>5. CASE ~WindowEnds(clock, now)
  <2>1. c2 = took
    BY <1>5 DEF Advanced
  <2> QED
    BY <1>1, <1>2, <1>3, <1>5, <2>1
<1> QED
  BY <1>4, <1>5

\* A sample of the open request is one that may be told.
LEMMA SampleIs ==
  ASSUME NEW kind \in Kind, NEW value, NEW frames \in Seq(Functions), active \in Requests,
         NEW x, x = Sample(kind, value, frames)
  PROVE  /\ x.kind = kind /\ x.value = value /\ x.trace = active /\ x.stack = frames
         /\ value \in Nat /\ (kind = "io" => Last(frames) \in Waits) => x \in Recorded
<1>1. x.kind = kind /\ x.value = value /\ x.trace = active /\ x.stack = frames
  BY DEF Sample
<1>2. ASSUME value \in Nat, kind = "io" => Last(frames) \in Waits PROVE x \in Recorded
  <2>1. x \in [kind : Kind, value : Nat, stack : Seq(Functions), trace : Requests]
    BY <1>2 DEF Sample
  <2>2. x.kind = "io" => Last(x.stack) \in Waits
    BY <1>1, <1>2
  <2> QED
    BY <2>1, <2>2 DEF Recorded
<1> QED
  BY <1>1, <1>2

\* Three parts are pushed.
LEMMA PartsPushed ==
  ASSUME TypeInv, StoreInv, NEW a \in Requests, a = active,
         NEW p \in 0..1, NEW q \in 0..1, NEW o \in 0..1, NEW x, NEW y, NEW z,
         p = 1 => x \in Recorded, q = 1 => y \in Recorded, o = 1 => z \in Recorded,
         x.trace = a, y.trace = a, z.trace = a,
         x.kind # y.kind, x.kind # z.kind, y.kind # z.kind,
         samples' = Pushed(Parts(p, x, q, y, o, z)), UNCHANGED spooled
  PROVE  /\ samples' \in Seq(Recorded) /\ Len(samples') <= MaxSamples
         /\ \A i \in 1..Len(samples') : samples'[i].trace = a
         /\ \A r : r # a => Quiet(r)
         /\ Complete(a)' => Complete(a)
         /\ Credits(a, x.kind, p, x.value)
         /\ Credits(a, y.kind, q, y.value)
         /\ Credits(a, z.kind, o, z.value)
         /\ \A kind : kind \notin {x.kind, y.kind, z.kind} => Total(a, kind)' = Total(a, kind)
<1>1. PICK m \in Seq(Recorded) :
        /\ m = Parts(p, x, q, y, o, z)
        /\ Laid(m, p, x, q, y, o, z)
  BY ThreeParts
<1>2. \A j \in 1..Len(m) : \/ p = 1 /\ j = 1 /\ m[j] = x
                           \/ q = 1 /\ j = p + 1 /\ m[j] = y
                           \/ o = 1 /\ j = p + q + 1 /\ m[j] = z
  BY <1>1 DEF Laid
<1>3. \A j \in 1..Len(m) : m[j].trace = a
  BY <1>2
<1>4. \A j, l \in 1..Len(m) : j # l => m[j].kind # m[l].kind
  BY <1>2
<1>5. samples' = Pushed(m)
  BY <1>1
<1>6. PICK n \in 0..Len(m), T2 \in Seq(Recorded) : T2 = Told' /\ Pushes(T2, m, n)
  BY <1>3, <1>5, Pushing
<1>7. PICK T : T = Told
  OBVIOUS
<1>8. Grown(T, T2, m, n) /\ (n < Len(m) => ~Room(T2, a))
  BY <1>6, <1>7 DEF Pushes, Room
<1>9. Added(T, T2, a, m) /\ \A r : r # a => Same(T, T2, r)
  BY <1>3, <1>4, <1>8, PushAdds
<1>10. /\ Room(T2, a) => Room(T, a)
       /\ Gains(T, T2, a, x.kind, p, x.value)
       /\ Gains(T, T2, a, y.kind, q, y.value)
       /\ Gains(T, T2, a, z.kind, o, z.value)
       /\ \A kind : kind \notin {x.kind, y.kind, z.kind} => Sum(T2, a, kind) = Sum(T, a, kind)
  <2>1. Laid(m, p, x, q, y, o, z) /\ Added(T, T2, a, m)
    BY <1>1, <1>9
  <2>2. ThreeGains(T, T2, a, p, x, q, y, o, z)
    BY <2>1, ThreeGain
  <2> QED
    BY <2>2 DEF ThreeGains
<1>11. /\ \A r, kind : Total(r, kind) = Sum(T, r, kind)
       /\ \A r : Complete(r) <=> Room(T, r)
       /\ \A r, kind : Total(r, kind)' = Sum(T2, r, kind)
       /\ \A r : Complete(r)' <=> Room(T2, r)
  BY <1>6, <1>7, Tells
<1>12. \A r : r # a => Quiet(r)
  BY <1>9, <1>11 DEF Same, Quiet, Room
<1>13. Complete(a)' => Complete(a)
  BY <1>10, <1>11
<1>14. Credits(a, x.kind, p, x.value)
  BY <1>10, <1>11 DEF Gains, Credits
<1>15. Credits(a, y.kind, q, y.value)
  BY <1>10, <1>11 DEF Gains, Credits
<1>16. Credits(a, z.kind, o, z.value)
  BY <1>10, <1>11 DEF Gains, Credits
<1>17. \A kind : kind \notin {x.kind, y.kind, z.kind} => Total(a, kind)' = Total(a, kind)
  BY <1>10, <1>11
<1>18. /\ samples' \in Seq(Recorded) /\ Len(samples') <= MaxSamples
       /\ \A i \in 1..Len(samples') : samples'[i].trace = a
  BY <1>6 DEF Pushes
<1> QED
  BY <1>12, <1>13, <1>14, <1>15, <1>16, <1>17, <1>18

\* What a drain tells: the CPU of the ticks, and at the end of a window its wall time and
\* what is left of it without the CPU.
LEMMA DrainPushes ==
  ASSUME TypeInv, StoreInv, NEW a \in Requests, a = active,
         NEW s \in Seq([of : Functions, since : Nat]),
         samples' = Pushed(DrainSamples(s)), UNCHANGED spooled,
         NEW cpu \in Nat, cpu = Period * ticks,
         NEW took, took = Bank(clock, now, cpu), NEW wall \in Nat, wall = took.wall,
         NEW off \in Int, off = wall - took.cpu
  PROVE  /\ samples' \in Seq(Recorded) /\ Len(samples') <= MaxSamples
         /\ \A i \in 1..Len(samples') : samples'[i].trace = a
         /\ \A r : r # a => Quiet(r)
         /\ Complete(a)' => Complete(a)
         /\ \E p \in 0..1 : /\ p = 1 <=> "cpu" \in Kinds /\ ticks > 0
                           /\ Credits(a, "cpu", p, cpu)
         /\ \E q \in 0..1 : /\ q = 1 <=> WindowEnds(clock, now) /\ "wall" \in Kinds
                           /\ Credits(a, "wall", q, wall)
         /\ \E o \in 0..1 : /\ o = 1 <=> /\ WindowEnds(clock, now)
                                       /\ "off_cpu" \in Kinds /\ off > 0
                           /\ Credits(a, "off_cpu", o, off)
         /\ Total(a, "io")' = Total(a, "io")
<1>1. PICK p \in 0..1 : p = 1 <=> "cpu" \in Kinds /\ ticks > 0
  OBVIOUS
<1>2. PICK q \in 0..1 : q = 1 <=> WindowEnds(clock, now) /\ "wall" \in Kinds
  OBVIOUS
<1>3. PICK o \in 0..1 : o = 1 <=> WindowEnds(clock, now) /\ "off_cpu" \in Kinds /\ off > 0
  OBVIOUS
<1>4. PICK x : x = Sample("cpu", cpu, Walked(s))
  OBVIOUS
<1>5. PICK y : y = Sample("wall", wall, Walked(s))
  OBVIOUS
<1>6. PICK z : z = Sample("off_cpu", off, Walked(s))
  OBVIOUS
<1>7. Walked(s) \in Seq(Functions) /\ "cpu" \in Kind /\ "wall" \in Kind /\ "off_cpu" \in Kind
  BY WalkedIs DEF Kind
<1>8. x \in Recorded /\ x.kind = "cpu" /\ x.value = cpu /\ x.trace = a
  BY <1>4, <1>7, SampleIs
<1>9. y \in Recorded /\ y.kind = "wall" /\ y.value = wall /\ y.trace = a
  BY <1>5, <1>7, SampleIs
<1>10. /\ z.kind = "off_cpu" /\ z.value = off /\ z.trace = a
       /\ off \in Nat => z \in Recorded
  BY <1>6, <1>7, SampleIs
<1>11. o = 1 => z \in Recorded
  BY <1>3, <1>10
<1>12. DrainSamples(s) = Parts(p, x, q, y, o, z)
  BY <1>1, <1>2, <1>3, <1>4, <1>5, <1>6 DEF DrainSamples, When, Part, Parts
<1>13. x.kind # y.kind /\ x.kind # z.kind /\ y.kind # z.kind
  BY <1>8, <1>9, <1>10
<1>14. samples' = Pushed(Parts(p, x, q, y, o, z))
  BY <1>12
<1>15. /\ samples' \in Seq(Recorded) /\ Len(samples') <= MaxSamples
       /\ \A i \in 1..Len(samples') : samples'[i].trace = a
       /\ \A r : r # a => Quiet(r)
       /\ Complete(a)' => Complete(a)
       /\ Credits(a, x.kind, p, x.value)
       /\ Credits(a, y.kind, q, y.value)
       /\ Credits(a, z.kind, o, z.value)
       /\ \A kind : kind \notin {x.kind, y.kind, z.kind} => Total(a, kind)' = Total(a, kind)
  BY <1>8, <1>9, <1>10, <1>11, <1>13, <1>14, PartsPushed
<1>16. /\ Credits(a, "cpu", p, cpu) /\ Credits(a, "wall", q, wall)
       /\ Credits(a, "off_cpu", o, off)
  BY <1>8, <1>9, <1>10, <1>15
<1>17. Total(a, "io")' = Total(a, "io")
  <2>1. "io" \notin {x.kind, y.kind, z.kind}
    BY <1>8, <1>9, <1>10
  <2> QED
    BY <1>15, <2>1
<1> QED
  BY <1>1, <1>2, <1>3, <1>15, <1>16, <1>17

\* What is told when a wait ends.
LEMMA IoPushes ==
  ASSUME TypeInv, StoreInv, NEW a \in Requests, a = active,
         NEW x \in Recorded, x.kind = "io", x.trace = a,
         samples' = Pushed(<<x>>), UNCHANGED spooled
  PROVE  /\ samples' \in Seq(Recorded) /\ Len(samples') <= MaxSamples
         /\ \A i \in 1..Len(samples') : samples'[i].trace = a
         /\ \A r : r # a => Quiet(r)
         /\ Complete(a)' => Complete(a) /\ Total(a, "io")' = Total(a, "io") + x.value
         /\ \A kind : kind # "io" => Total(a, kind)' = Total(a, kind)
<1>1. PICK m : m = <<x>>
  OBVIOUS
<1>2. m \in Seq(Recorded) /\ Len(m) = 1 /\ m[1] = x /\ samples' = Pushed(m)
  BY <1>1
<1>3. \A j \in 1..Len(m) : m[j].trace = a
  BY <1>2
<1>4. \A j, l \in 1..Len(m) : j # l => m[j].kind # m[l].kind
  BY <1>2
<1>5. PICK n \in 0..Len(m), T2 \in Seq(Recorded) : T2 = Told' /\ Pushes(T2, m, n)
  BY <1>2, <1>3, Pushing
<1>6. PICK T : T = Told
  OBVIOUS
<1>7. Grown(T, T2, m, n) /\ (n < Len(m) => ~Room(T2, a))
  BY <1>5, <1>6 DEF Pushes, Room
<1>8. Added(T, T2, a, m) /\ \A r : r # a => Same(T, T2, r)
  BY <1>2, <1>3, <1>4, <1>7, PushAdds
<1>9. /\ \A r, kind : Total(r, kind) = Sum(T, r, kind)
      /\ \A r : Complete(r) <=> Room(T, r)
      /\ \A r, kind : Total(r, kind)' = Sum(T2, r, kind)
      /\ \A r : Complete(r)' <=> Room(T2, r)
  BY <1>5, <1>6, Tells
<1>10. \A r : r # a => Quiet(r)
  BY <1>8, <1>9 DEF Same, Quiet, Room
<1>11. Room(T2, a) => Room(T, a) /\ Sum(T2, a, "io") = Sum(T, a, "io") + x.value
  <2>1. 1 \in 1..Len(m) /\ m[1].kind = "io" /\ m[1].value = x.value
    BY <1>2
  <2> QED
    BY <1>8, <2>1 DEF Added
<1>12. \A kind : kind # "io" => Sum(T2, a, kind) = Sum(T, a, kind)
  <2>1. \A kind : kind # "io" => \A j \in 1..Len(m) : m[j].kind # kind
    BY <1>2
  <2> QED
    BY <1>8, <2>1 DEF Added
<1>13. Complete(a)' => Complete(a) /\ Total(a, "io")' = Total(a, "io") + x.value
  BY <1>9, <1>11
<1>14. \A kind : kind # "io" => Total(a, kind)' = Total(a, kind)
  BY <1>9, <1>12
<1>15. /\ samples' \in Seq(Recorded) /\ Len(samples') <= MaxSamples
       /\ \A i \in 1..Len(samples') : samples'[i].trace = a
  BY <1>5 DEF Pushes
<1> QED
  BY <1>10, <1>13, <1>14, <1>15

\* Writing the samples down tells nothing new.
LEMMA EndTells ==
  ASSUME TypeInv, samples' = <<>>, spooled' = spooled \o Numbered(samples)
  PROVE  Told' = Told /\ spooled' \in Seq([sample : Recorded, sequence : Nat])
<1>1. PICK n \in Nat, k \in Nat : n = Len(spooled) /\ k = Len(samples)
  BY ToldIs
<1>2. PICK b : b = Numbered(samples)
  OBVIOUS
<1>3. /\ samples \in Seq(Recorded) /\ DOMAIN samples = 1..k
      /\ spooled \in Seq([sample : Recorded, sequence : Nat]) /\ sequence \in Nat
  BY <1>1 DEF TypeInv
<1>4. /\ b \in Seq([sample : Recorded, sequence : Nat]) /\ Len(b) = k
      /\ \A j \in 1..k : b[j].sample = samples[j]
  <2>1. \A j \in 1..k : samples[j] \in Recorded
    BY <1>1, <1>3, ElementOfSeq
  <2>2. \A j \in 1..k : sequence + j - 1 \in Nat
    BY <1>1, <1>3
  <2>3. b = [j \in 1..k |-> [sample |-> samples[j], sequence |-> sequence + j - 1]]
    BY <1>2, <1>3 DEF Numbered
  <2>4. \A j \in 1..k : b[j].sample = samples[j]
    BY <2>3
  <2> DEFINE R == [sample : Recorded, sequence : Nat]
  <2>5. \A j \in 1..k : [sample |-> samples[j], sequence |-> sequence + j - 1] \in R
    BY <2>1, <2>2
  <2> HIDE DEF R
  <2>6. b \in [1..k -> R]
    BY <2>3, <2>5
  <2>7. b \in Seq(R) /\ Len(b) = k
    BY <1>1, <2>6
  <2> QED
    BY <2>4, <2>7 DEF R
<1>5. PICK s2 : s2 = spooled \o b
  OBVIOUS
<1>6. /\ s2 \in Seq([sample : Recorded, sequence : Nat]) /\ Len(s2) = n + k
      /\ \A i \in 1..n : s2[i] = spooled[i]
      /\ \A j \in 1..k : s2[n + j] = b[j]
  <2> DEFINE R == [sample : Recorded, sequence : Nat]
  <2>1. spooled \in Seq(R) /\ b \in Seq(R)
    BY <1>3, <1>4
  <2> HIDE DEF R
  <2>2. /\ spooled \o b \in Seq(R) /\ Len(spooled \o b) = Len(spooled) + Len(b)
        /\ \A i \in 1..Len(spooled) : (spooled \o b)[i] = spooled[i]
        /\ \A j \in 1..Len(b) : (spooled \o b)[Len(spooled) + j] = b[j]
    BY <2>1, InARow
  <2>3. s2 \in Seq(R)
    BY <1>5, <2>2
  <2> QED
    BY <1>1, <1>4, <1>5, <2>2, <2>3 DEF R
<1>7. PICK w2 : w2 = [i \in DOMAIN s2 |-> s2[i].sample]
  OBVIOUS
<1>8. DOMAIN s2 = 1..(n + k)
  BY <1>1, <1>6
<1>9. PICK T \in Seq(Recorded) :
        /\ T = Told /\ Len(T) = n + k
        /\ \A i \in 1..n : T[i] = spooled[i].sample
        /\ \A j \in 1..k : T[n + j] = samples[j]
  BY <1>1, ToldIs
<1>10. ASSUME NEW i \in 1..(n + k) PROVE w2[i] = T[i]
  <2>1. w2[i] = s2[i].sample
    BY <1>7, <1>8
  <2>2. CASE i \in 1..n
    BY <1>6, <1>9, <2>1, <2>2
  <2>3. CASE i \notin 1..n
    <3>1. PICK j \in 1..k : i = n + j
      <4>1. i - n \in 1..k /\ i = n + (i - n)
        BY <1>1, <2>3
      <4> QED
        BY <4>1
    <3> QED
      BY <1>4, <1>6, <1>9, <2>1, <3>1
  <2> QED
    BY <2>2, <2>3
<1>11. w2 = T
  <2>1. DOMAIN T = 1..(n + k) /\ T \in [1..(n + k) -> Recorded]
    BY <1>1, <1>9
  <2>2. w2 = [i \in 1..(n + k) |-> w2[i]]
    BY <1>7, <1>8
  <2> QED
    BY <1>10, <2>1, <2>2
<1>12. w2 \o <<>> = T
  BY <1>9, <1>11, ConcatEmptySeq
<1>13. spooled' = s2
  BY <1>2, <1>5
<1>14. Told' = w2 \o <<>>
  BY <1>7, <1>13 DEF Told
<1> QED
  BY <1>6, <1>9, <1>12, <1>13, <1>14

---------------------------------------------------------------------------
(* What the invariant gives *)

\* The open request: a quantum and the early ticks make up for the waits.
LEMMA WaitsFollow ==
  ASSUME IInv
  PROVE  NoWaitIsMissed
<1>1. TypeInv /\ ClockInv /\ OffInv /\ PastInv
  BY DEF IInv
<1>2. ASSUME NEW r \in Requests PROVE Counted(r)
  <2>1. CASE r # active
    BY <1>1, <2>1 DEF PastInv
  <2>2. CASE r = active
    <3>1. SUFFICES ASSUME "off_cpu" \in Kinds, Complete(r), truth[r].baseline # None
                   PROVE  Total(r, "off_cpu") + Period * truth[r].early + Period - 1
                            >= truth[r].waited
      BY DEF Counted
    <3>2. active # None /\ clock.last # None
      BY <1>1, <2>2, <3>1, Constants DEF ClockInv
    <3>3. PICK h \in Life : h = truth[r]
      BY <1>1, TypeFacts
    <3>4. PICK total \in Nat : total = Total(r, "off_cpu")
      BY <1>1, TotalsAre
    <3>5. PICK e \in Nat : e = Period * h.early
      BY <1>1, <3>3, TypeFacts
    <3>6. PICK d : d = Drained(r)
      OBVIOUS
    <3>7. d \in Int
      BY <1>1, <3>6, TypeFacts, Constants DEF Drained
    <3>8. /\ h.ran \in Nat /\ h.waited \in Nat /\ h.blocked \in Nat /\ h.baseline \in Nat
          /\ now \in Nat /\ clock.last \in Nat /\ clock.wall \in Nat /\ clock.cpu \in Nat
      BY <1>1, <3>1, <3>2, <3>3, TypeFacts
    <3>9. /\ h.ran + h.waited + h.blocked - (now - h.baseline) <= e + Period - 1
          /\ d - clock.cpu <= h.ran + h.blocked - now + clock.last - clock.wall
          /\ total >= clock.last - h.baseline - clock.wall - d + clock.cpu
      BY <1>1, <2>2, <3>1, <3>2, <3>3, <3>4, <3>5, <3>6 DEF OffInv
    <3>10. total + e + Period - 1 >= h.waited
      BY <3>7, <3>8, <3>9, Constants
    <3> QED
      BY <3>3, <3>4, <3>5, <3>10
  <2> QED
    BY <2>1, <2>2
<1> QED
  BY <1>2 DEF Counted, NoWaitIsMissed

\* The open request: the ticks drained and those queued are the whole periods it ran.
LEMMA ChargesFollow ==
  ASSUME IInv
  PROVE  TicksChargedOnce
<1>1. TypeInv /\ ClockInv /\ CpuInv
  BY DEF IInv
<1>2. ASSUME NEW r \in Requests, r = active, "cpu" \in Kinds, Complete(r)
      PROVE  Total(r, "cpu") + Period * ticks = Period * (truth[r].ran \div Period)
  <2>1. active # None
    BY <1>2, Constants
  <2>2. PICK k \in Nat : truth[r].ran + timer = Period * (k + 1)
    BY <1>1, <1>2, <2>1 DEF ClockInv
  <2>3. timer \in 1..Period /\ truth[r].ran \in Nat /\ Period \in Nat /\ Period >= 1
    BY <1>1, <1>2, <2>1, TypeFacts, Constants DEF ClockInv
  <2>4. PICK pk \in Nat : pk = Period * k
    BY Constants
  <2>5. Period * (k + 1) = pk + Period
    BY <2>3, <2>4
  <2>6. PICK e \in 0..(Period - 1) : truth[r].ran = pk + e
    <3>1. Period - timer \in 0..(Period - 1) /\ truth[r].ran = pk + (Period - timer)
      BY <2>2, <2>3, <2>4, <2>5
    <3> QED
      BY <3>1
  <2>7. (Period * k + e) \div Period = k
    BY <2>3
  <2>8. truth[r].ran \div Period = k
    BY <2>4, <2>6, <2>7
  <2>9. Total(r, "cpu") = truth[r].ran + timer - Period - Period * ticks
    BY <1>1, <1>2, <2>1 DEF CpuInv, Drained
  <2>10. Period * ticks \in Nat
    BY <1>1, TypeFacts
  <2> QED
    BY <2>2, <2>3, <2>4, <2>5, <2>8, <2>9, <2>10
<1> QED
  BY <1>1, <1>2 DEF TicksChargedOnce, CpuInv

\* The leaf of an I/O sample told of is a call that waits.
LEMMA LeavesFollow ==
  ASSUME IInv
  PROVE  IoIsExact
<1>1. TypeInv /\ IoInv
  BY DEF IInv
<1>2. Told \in Seq(Recorded)
  BY <1>1, ToldIs
<1>3. \A i \in DOMAIN Told : Told[i].kind = "io" => Last(Told[i].stack) \in Waits
  <2>1. \A i \in DOMAIN Told : Told[i] \in Recorded
    BY <1>2, ElementOfSeq
  <2> QED
    BY <2>1 DEF Recorded
<1> QED
  BY <1>1, <1>3 DEF IoIsExact, IoInv, SamplesOf

---------------------------------------------------------------------------
(* The steps *)

\* The types of what they compute with after a step.
LEMMA TypeFactsNext ==
  ASSUME TypeInv'
  PROVE  /\ now' \in Nat /\ timer' \in Nat /\ ticks' \in Nat
         /\ \A r \in Requests : truth'[r] \in Life
BY DEF TypeInv

\* A request of which no more is told than of its I/O.
Mute(r) ==
  /\ \A kind : kind # "io" => Total(r, kind)' = Total(r, kind)
  /\ Complete(r)' => Complete(r)

\* A request of which no more is told is one of which no more than I/O is.
LEMMA QuietIsMute ==
  ASSUME NEW r, Quiet(r)
  PROVE  Mute(r)
BY DEF Quiet, Mute

\* Such a request, if it did not change, is counted as before.
LEMMA CountedAsBefore ==
  ASSUME NEW r, Mute(r), truth'[r] = truth[r], Counted(r)
  PROVE  Counted(r)'
<1>1. Total(r, "off_cpu")' = Total(r, "off_cpu")
  BY DEF Mute
<1> QED
  BY <1>1 DEF Counted, Mute

\* Nothing is known of a request that is starting, and nothing has been told of it.
LEMMA StartStep ==
  ASSUME IInv, NEW r \in Requests, OnRequestStart(r)
  PROVE  IInv'
<1>1. TypeInv /\ StoreInv /\ ClockInv /\ FreshInv /\ CpuInv /\ PastInv /\ IoInv
  BY DEF IInv
<1>2. /\ active = None /\ truth[r] = Untouched /\ samples = <<>>
      /\ samples' = <<>> /\ clock' = Idle /\ ticks' = 0 /\ active' = r /\ timer' = Period
      /\ now' = now /\ stack' = stack /\ sequence' = sequence /\ spooled' = spooled
      /\ truth' = truth
  BY <1>1 DEF OnRequestStart, StoreInv
<1>3. \A q : Quiet(q)
  <2>1. Told' = Told
    BY <1>2 DEF Told
  <2> QED
    BY <2>1, NothingTold
<1>4. /\ truth[r].ran = 0 /\ truth[r].baseline = None /\ clock'.last = None
      /\ r # None /\ Period \in Nat /\ Period >= 1
  BY <1>2, Constants DEF Untouched, Idle
<1>5. TypeInv'
  <2>1. Idle \in [last : Nat \cup {None}, wall : Nat, cpu : Nat]
    BY DEF Idle
  <2> QED
    BY <1>1, <1>2, <1>4, <2>1 DEF TypeInv
<1>6. StoreInv'
  BY <1>1, <1>2, <1>4, Constants DEF StoreInv
<1>7. Period * 0 = 0 /\ Period * (0 + 1) = Period
  BY <1>4
<1>8. ClockInv'
  <2>1. truth'[r].ran + timer' = Period * (0 + 1)
    BY <1>2, <1>4, <1>7
  <2>2. Drained(r)' = 0
    BY <1>2, <1>4, <1>7 DEF Drained
  <2>3. timer' \in 1..Period
    BY <1>2, <1>4
  <2>4. \E k \in Nat : truth'[r].ran + timer' = Period * (k + 1)
    BY <2>1
  <2> QED
    BY <1>2, <1>4, <2>2, <2>3, <2>4 DEF ClockInv, Drained
<1>9. FreshInv'
  BY <1>1, <1>2, <1>3 DEF FreshInv, Quiet
<1>10. CpuInv'
  <2>1. Total(r, "cpu") <= 0 /\ Total(r, "cpu") \in Nat
    BY <1>1, <1>4, TotalsAre DEF CpuInv
  <2>2. Total(r, "cpu")' = 0
    BY <1>3, <2>1 DEF Quiet
  <2>3. Drained(r)' = 0
    BY <1>2, <1>4, <1>7 DEF Drained
  <2>4. \A q \in Requests : Total(q, "cpu")' <= truth'[q].ran
    BY <1>1, <1>2, <1>3 DEF CpuInv, Quiet
  <2>5. Total(active, "cpu")' = 0 /\ Drained(active)' = 0
    BY <1>2, <2>2, <2>3 DEF Drained, Total, SamplesOf
  <2> QED
    BY <2>4, <2>5 DEF CpuInv
<1>11. WindowsTile' /\ OffInv'
  BY <1>2, <1>4 DEF WindowsTile, OffInv
<1>12. PastInv'
  <2>1. \A q \in Requests : Counted(q)
    BY <1>1, <1>2, Constants DEF PastInv
  <2>2. \A q \in Requests : Counted(q)'
    BY <1>2, <1>3, <2>1, CountedAsBefore, QuietIsMute
  <2> QED
    BY <2>2 DEF PastInv
<1>13. IoInv'
  BY <1>1, <1>2, <1>3 DEF IoInv, Quiet
<1> QED
  BY <1>5, <1>6, <1>8, <1>9, <1>10, <1>11, <1>12, <1>13 DEF IInv

\* The samples are written, and the request keeps its count.
LEMMA EndStep ==
  ASSUME IInv, OnRequestEnd
  PROVE  IInv'
<1>1. TypeInv /\ StoreInv /\ ClockInv /\ FreshInv /\ CpuInv /\ PastInv /\ IoInv
  BY DEF IInv
<1>2. /\ active' = None /\ clock' = Idle /\ timer' = 0 /\ ticks' \in {0, 1}
      /\ samples' = <<>> /\ sequence' = sequence + Len(samples)
      /\ spooled' = spooled \o Numbered(samples)
      /\ now' = now /\ stack' = stack /\ truth' = truth
  BY DEF OnRequestEnd
<1>3. Told' = Told /\ spooled' \in Seq([sample : Recorded, sequence : Nat])
  BY <1>1, <1>2, EndTells
<1>4. \A q : Quiet(q)
  BY <1>3, NothingTold
<1>5. TypeInv'
  <2>1. Idle \in [last : Nat \cup {None}, wall : Nat, cpu : Nat]
    BY DEF Idle
  <2>2. sequence + Len(samples) \in Nat
    BY <1>1 DEF TypeInv
  <2>3. ticks' \in Nat /\ timer' \in Nat
    BY <1>2
  <2>4. samples' \in Seq(Recorded)
    BY <1>2
  <2> QED
    BY <1>1, <1>2, <1>3, <2>1, <2>2, <2>3, <2>4 DEF TypeInv
<1>6. StoreInv'
  BY <1>1, <1>2, Constants DEF StoreInv
<1>7. ClockInv' /\ WindowsTile' /\ OffInv'
  BY <1>2 DEF ClockInv, WindowsTile, OffInv
<1>8. FreshInv'
  BY <1>1, <1>2, <1>4 DEF FreshInv, Quiet
<1>9. CpuInv'
  BY <1>1, <1>2, <1>4 DEF CpuInv, Quiet
<1>10. PastInv'
  <2>1. \A q \in Requests : Counted(q)
    BY WaitsFollow DEF NoWaitIsMissed, Counted
  <2>2. \A q \in Requests : Counted(q)'
    BY <1>2, <1>4, <2>1, CountedAsBefore, QuietIsMute
  <2> QED
    BY <2>2 DEF PastInv
<1>11. IoInv'
  BY <1>1, <1>2, <1>4 DEF IoInv, Quiet
<1> QED
  BY <1>5, <1>6, <1>7, <1>8, <1>9, <1>10, <1>11 DEF IInv

\* One field of a life moves.
LEMMA LifeWith ==
  ASSUME NEW h \in Life, NEW n \in Nat, NEW h2
  PROVE  /\ h2 = [h EXCEPT !.ran = n] =>
              /\ h2 \in Life /\ h2.ran = n /\ h2.baseline = h.baseline /\ h2.early = h.early
              /\ h2.waited = h.waited /\ h2.blocked = h.blocked /\ h2.io = h.io
         /\ h2 = [h EXCEPT !.blocked = n] =>
              /\ h2 \in Life /\ h2.ran = h.ran /\ h2.baseline = h.baseline
              /\ h2.early = h.early
              /\ h2.waited = h.waited /\ h2.blocked = n /\ h2.io = h.io
         /\ h2 = [h EXCEPT !.io = n] =>
              /\ h2 \in Life /\ h2.ran = h.ran /\ h2.baseline = h.baseline
              /\ h2.early = h.early
              /\ h2.waited = h.waited /\ h2.blocked = h.blocked /\ h2.io = n
<1>1. h2 = [h EXCEPT !.ran = n] =>
        /\ h2 \in Life /\ h2.ran = n /\ h2.baseline = h.baseline /\ h2.early = h.early
        /\ h2.waited = h.waited /\ h2.blocked = h.blocked /\ h2.io = h.io
  BY DEF Life
<1>2. h2 = [h EXCEPT !.blocked = n] =>
        /\ h2 \in Life /\ h2.ran = h.ran /\ h2.baseline = h.baseline /\ h2.early = h.early
        /\ h2.waited = h.waited /\ h2.blocked = n /\ h2.io = h.io
  BY DEF Life
<1>3. h2 = [h EXCEPT !.io = n] =>
        /\ h2 \in Life /\ h2.ran = h.ran /\ h2.baseline = h.baseline /\ h2.early = h.early
        /\ h2.waited = h.waited /\ h2.blocked = h.blocked /\ h2.io = n
  BY DEF Life
<1> QED
  BY <1>1, <1>2, <1>3

\* A step that tells of I/O at most and moves no more of the lives than what the open request
\* ran, was off the CPU or waited for.
Still ==
  /\ \A r : Mute(r)
  /\ active' = active /\ clock' = clock /\ now' >= now
  /\ \A r \in Requests : r # active => truth'[r] = truth[r]
  /\ active # None =>
       /\ truth'[active].baseline = truth[active].baseline
       /\ truth'[active].early = truth[active].early
       /\ truth'[active].waited = truth[active].waited
       /\ truth[active].baseline = None => truth'[active].blocked = truth[active].blocked
       /\ truth'[active].ran >= truth[active].ran
       /\ Drained(active)' = Drained(active)
       /\ timer' \in 1..Period
       /\ \E k \in Nat : truth'[active].ran + timer' = Period * (k + 1)
       /\ clock.last # None =>
            truth'[active].ran + truth'[active].blocked - now'
              = truth[active].ran + truth[active].blocked - now

\* Such a step keeps what is known of the clock, the CPU, the windows and the waits.
LEMMA StillStep ==
  ASSUME IInv, TypeInv', Still
  PROVE  ClockInv' /\ FreshInv' /\ CpuInv' /\ WindowsTile' /\ OffInv' /\ PastInv'
<1>1. TypeInv /\ ClockInv /\ FreshInv /\ CpuInv /\ WindowsTile /\ OffInv /\ PastInv
  BY DEF IInv
<1>2. /\ \A r : Mute(r)
      /\ active' = active /\ clock' = clock /\ now' >= now
      /\ \A r \in Requests : r # active => truth'[r] = truth[r]
  BY DEF Still
<1>3. now \in Nat /\ now' \in Nat
  BY <1>1, TypeFacts, TypeFactsNext
<1>4. PastInv'
  BY <1>1, <1>2, CountedAsBefore DEF PastInv
<1>5. CASE active = None
  <2>1. ClockInv' /\ WindowsTile' /\ OffInv'
    BY <1>2, <1>5 DEF ClockInv, WindowsTile, OffInv
  <2>2. \A r \in Requests : truth'[r] = truth[r]
    BY <1>2, <1>5, Constants
  <2>3. FreshInv'
    BY <1>1, <1>2, <2>2 DEF FreshInv, Mute
  <2>4. CpuInv'
    BY <1>1, <1>2, <1>5, <2>2 DEF CpuInv, Mute
  <2> QED
    BY <1>4, <2>1, <2>3, <2>4
<1>6. CASE active # None
  <2>1. PICK a \in Requests : a = active
    BY <1>1, <1>6 DEF TypeInv
  <2>2. PICK h \in Life, h2 \in Life : h = truth[a] /\ h2 = truth'[a]
    BY <1>1, TypeFacts, TypeFactsNext
  <2>3. /\ h2.baseline = h.baseline /\ h2.early = h.early /\ h2.waited = h.waited
        /\ h.baseline = None => h2.blocked = h.blocked
        /\ h2.ran >= h.ran
        /\ Drained(a)' = Drained(a)
        /\ timer' \in 1..Period
        /\ \E k \in Nat : h2.ran + timer' = Period * (k + 1)
        /\ clock.last # None => h2.ran + h2.blocked - now' = h.ran + h.blocked - now
    BY <1>6, <1>2, <2>1, <2>2 DEF Still, Drained
  <2>4. /\ h.ran \in Nat /\ h.waited \in Nat /\ h.blocked \in Nat /\ h.early \in Nat
        /\ h2.ran \in Nat /\ h2.waited \in Nat /\ h2.blocked \in Nat /\ h2.early \in Nat
        /\ h.baseline \in Nat \cup {None}
    BY DEF Life
  <2>5. PICK d \in Int : d = Drained(a) /\ d = Drained(a)'
    BY <1>1, <2>1, <2>3, TypeFacts, Constants DEF Drained
  <2>6. ClockInv'
    <3>1. clock.last = None <=> h.baseline = None
      BY <1>1, <1>6, <2>1, <2>2 DEF ClockInv
    <3>2. clock.last = None => clock = Idle /\ d = 0
      BY <1>1, <1>6, <2>1, <2>5 DEF ClockInv
    <3>3. clock.last # None => clock.last <= now'
      BY <1>1, <1>2, <1>3, <1>6, TypeFacts DEF ClockInv
    <3>4. Drained(active)' = d
      BY <1>2, <2>1, <2>5 DEF Drained
    <3> QED
      BY <1>2, <2>1, <2>2, <2>3, <3>1, <3>2, <3>3, <3>4 DEF ClockInv
  <2>7. FreshInv'
    <3>1. ASSUME NEW r \in Requests, truth'[r].baseline = None
          PROVE  /\ truth'[r].waited = 0 /\ truth'[r].blocked = 0
                 /\ Total(r, "wall")' = 0 /\ Total(r, "off_cpu")' = 0
      <4>1. CASE r # a
        BY <1>1, <1>2, <2>1, <3>1, <4>1 DEF FreshInv, Mute
      <4>2. CASE r = a
        BY <1>1, <1>2, <2>2, <2>3, <3>1, <4>2 DEF FreshInv, Mute
      <4> QED
        BY <4>1, <4>2
    <3> QED
      BY <3>1 DEF FreshInv
  <2>8. CpuInv'
    <3>1. ASSUME NEW r \in Requests PROVE Total(r, "cpu")' <= truth'[r].ran
      <4>1. Total(r, "cpu") \in Nat /\ Total(r, "cpu")' = Total(r, "cpu")
        BY <1>1, <1>2, TotalsAre DEF Mute
      <4>2. CASE r # a
        BY <1>1, <1>2, <2>1, <4>1, <4>2 DEF CpuInv
      <4>3. CASE r = a
        BY <1>1, <2>2, <2>3, <2>4, <4>1, <4>3 DEF CpuInv
      <4> QED
        BY <4>2, <4>3
    <3>2. /\ Total(a, "cpu")' <= d
          /\ "cpu" \in Kinds /\ Complete(a)' => Total(a, "cpu")' = d
      BY <1>1, <1>2, <1>6, <2>1, <2>5 DEF CpuInv, Mute
    <3>3. /\ Total(active, "cpu")' = Total(a, "cpu")' /\ (Complete(active)' <=> Complete(a)')
          /\ Drained(active)' = d
      BY <1>2, <2>1, <2>5 DEF Drained, Total, SamplesOf, Complete
    <3> QED
      BY <3>1, <3>2, <3>3 DEF CpuInv
  <2>9. WindowsTile'
    <3>1. "wall" \in Kinds /\ Complete(a) /\ clock.last # None =>
            Total(a, "wall") + clock.wall = clock.last - h.baseline
      BY <1>1, <1>6, <2>1, <2>2 DEF WindowsTile
    <3>2. "wall" \in Kinds /\ Complete(a)' /\ clock.last # None =>
            Total(a, "wall")' + clock.wall = clock.last - h2.baseline
      BY <1>2, <2>3, <3>1 DEF Mute
    <3>3. Total(active, "wall")' = Total(a, "wall")' /\ (Complete(active)' <=> Complete(a)')
      BY <1>2, <2>1 DEF Total, SamplesOf, Complete
    <3> QED
      BY <1>2, <2>1, <2>2, <3>2, <3>3 DEF WindowsTile
  <2>10. OffInv'
    <3>1. SUFFICES ASSUME clock.last # None PROVE OffInv'
      BY <1>2 DEF OffInv
    <3>2. PICK e \in Nat : e = Period * h.early
      BY <2>4, Constants
    <3>3. PICK total \in Nat : total = Total(a, "off_cpu") /\ total = Total(a, "off_cpu")'
      BY <1>1, <1>2, TotalsAre DEF Mute
    <3>4. clock.last \in Nat /\ clock.wall \in Nat /\ clock.cpu \in Nat /\ h.baseline \in Nat
      BY <1>1, <1>6, <2>1, <2>2, <2>4, <3>1, TypeFacts DEF ClockInv
    <3>5. /\ h.ran + h.waited + h.blocked - (now - h.baseline) <= e + Period - 1
          /\ d - clock.cpu <= h.ran + h.blocked - now + clock.last - clock.wall
          /\ "off_cpu" \in Kinds /\ Complete(a) =>
               total >= clock.last - h.baseline - clock.wall - d + clock.cpu
      BY <1>1, <1>6, <2>1, <2>2, <2>5, <3>1, <3>2, <3>3 DEF OffInv
    <3>6. h2.ran + h2.waited + h2.blocked - (now' - h2.baseline) <= e + Period - 1
      BY <1>3, <2>3, <2>4, <3>1, <3>4, <3>5, Constants
    <3>7. d - clock.cpu <= h2.ran + h2.blocked - now' + clock.last - clock.wall
      BY <1>3, <2>3, <2>4, <2>5, <3>1, <3>4, <3>5
    <3>8. "off_cpu" \in Kinds /\ Complete(a)' =>
            total >= clock.last - h2.baseline - clock.wall - d + clock.cpu
      BY <1>2, <2>3, <3>5 DEF Mute
    <3>9. Total(active, "off_cpu")' = total /\ (Complete(active)' <=> Complete(a)')
      BY <1>2, <2>1, <3>3 DEF Total, SamplesOf, Complete
    <3>10. Drained(active)' = d
      BY <1>2, <2>1, <2>5 DEF Drained
    <3>11. Period * h2.early = e
      BY <2>3, <3>2
    <3> QED
      BY <1>2, <2>1, <2>2, <3>6, <3>7, <3>8, <3>9, <3>10, <3>11 DEF OffInv
  <2> QED
    BY <1>4, <2>6, <2>7, <2>8, <2>9, <2>10
<1> QED
  BY <1>5, <1>6

\* The timer raises a tick for every period that is run.
LEMMA ComputeStep ==
  ASSUME IInv, Compute
  PROVE  IInv'
<1>1. TypeInv /\ StoreInv /\ ClockInv /\ IoInv
  BY DEF IInv
<1>2. /\ now' = now + 1 /\ active' = active /\ clock' = clock /\ samples' = samples
      /\ stack' = stack /\ sequence' = sequence /\ spooled' = spooled
  BY DEF Compute
<1>3. now \in Nat /\ now' \in Nat /\ now' >= now
  BY <1>1, <1>2, TypeFacts
<1>4. \A q : Quiet(q)
  <2>1. Told' = Told
    BY <1>2 DEF Told
  <2> QED
    BY <2>1, NothingTold
<1>5. StoreInv'
  <2>1. \A i \in 1..Len(stack) : stack[i].since \in Nat /\ stack[i].since <= now
    BY <1>1, StackIs DEF StoreInv
  <2>2. \A i \in 1..Len(stack) : stack[i].since <= now'
    BY <1>3, <2>1
  <2> QED
    BY <1>1, <1>2, <2>2 DEF StoreInv
<1>6. CASE active = None
  <2>1. timer' = timer /\ ticks' = ticks /\ truth' = truth
    BY <1>6 DEF Compute
  <2>2. TypeInv'
    BY <1>1, <1>2, <1>3, <2>1 DEF TypeInv
  <2>3. Still
    BY <1>2, <1>3, <1>4, <1>6, <2>1, QuietIsMute DEF Still
  <2>4. IoInv'
    BY <1>1, <1>4, <2>1 DEF IoInv, Quiet
  <2> QED
    BY <1>5, <2>2, <2>3, <2>4, StillStep DEF IInv
<1>7. CASE active # None
  <2>1. PICK a \in Requests : a = active
    BY <1>1, <1>7 DEF TypeInv
  <2>2. PICK h \in Life : h = truth[a]
    BY <1>1, TypeFacts
  <2>3. /\ ticks' = NoteTick
        /\ timer' = IF timer = 1 THEN Period ELSE timer - 1
        /\ truth' = [truth EXCEPT ![a] = [h EXCEPT !.ran = h.ran + 1]]
    BY <1>7, <2>1, <2>2 DEF Compute
  <2>4. PICK h2 : h2 = [h EXCEPT !.ran = h.ran + 1]
    OBVIOUS
  <2>5. h.ran \in Nat /\ h.blocked \in Nat /\ h.ran + 1 \in Nat
    BY DEF Life
  <2>6. /\ h2 \in Life /\ h2.ran = h.ran + 1 /\ h2.baseline = h.baseline /\ h2.early = h.early
        /\ h2.waited = h.waited /\ h2.blocked = h.blocked /\ h2.io = h.io
    BY <2>4, <2>5, LifeWith
  <2>7. truth' \in [Requests -> Life] /\ truth'[a] = h2
        /\ \A r \in Requests : r # a => truth'[r] = truth[r]
    <3>1. truth \in [Requests -> Life] /\ truth' = [truth EXCEPT ![a] = h2]
      BY <1>1, <2>3, <2>4 DEF TypeInv
    <3> QED
      BY <2>6, <3>1
  <2>8. timer \in 1..Period /\ ticks \in Nat /\ Period \in Nat /\ Period >= 1
    BY <1>1, <1>7, TypeFacts, Constants DEF ClockInv
  <2>9. /\ timer' \in 1..Period /\ timer' \in Nat /\ ticks' \in Nat
        /\ \/ timer' = timer - 1 /\ ticks' = ticks
           \/ timer = 1 /\ timer' = Period /\ ticks' = ticks + 1
    BY <2>3, <2>8 DEF NoteTick
  <2>10. TypeInv'
    BY <1>1, <1>2, <1>3, <2>7, <2>9 DEF TypeInv
  <2>11. Period * (ticks + 1) = Period * ticks + Period /\ Period * ticks \in Nat
    BY <2>8
  <2>12. h2.ran + timer' - Period - Period * ticks' = h.ran + timer - Period - Period * ticks
    <3>1. PICK p \in Nat : p = Period * ticks
      BY <2>11
    <3>2. CASE timer' = timer - 1 /\ ticks' = ticks
      <4>1. Period * ticks' = p
        BY <3>1, <3>2
      <4> QED
        BY <2>5, <2>6, <2>8, <3>1, <3>2, <4>1
    <3>3. CASE timer = 1 /\ timer' = Period /\ ticks' = ticks + 1
      <4>1. Period * ticks' = p + Period
        BY <2>11, <3>1, <3>3
      <4> QED
        BY <2>5, <2>6, <2>8, <3>1, <3>3, <4>1
    <3> QED
      BY <2>9, <3>2, <3>3
  <2>13. Drained(a)' = Drained(a)
    BY <2>1, <2>2, <2>7, <2>12 DEF Drained
  <2>14. \E k \in Nat : h2.ran + timer' = Period * (k + 1)
    <3>1. PICK k \in Nat : h.ran + timer = Period * (k + 1)
      BY <1>1, <1>7, <2>1, <2>2 DEF ClockInv
    <3>2. CASE timer' = timer - 1
      BY <2>5, <2>6, <2>8, <3>1, <3>2
    <3>3. CASE timer = 1 /\ timer' = Period
      <4>1. Period * (k + 1 + 1) = Period * (k + 1) + Period /\ Period * (k + 1) \in Nat
        BY <2>8
      <4>2. h2.ran + timer' = Period * (k + 1 + 1)
        BY <2>5, <2>6, <2>8, <3>1, <3>3, <4>1
      <4>3. k + 1 \in Nat
        OBVIOUS
      <4> QED
        BY <4>2, <4>3
    <3> QED
      BY <2>9, <3>2, <3>3
  <2>15. h2.ran + h2.blocked - now' = h.ran + h.blocked - now
    BY <1>2, <1>3, <2>5, <2>6
  <2>16. Still
    <3>1. \A r : Mute(r)
      BY <1>4, QuietIsMute
    <3>2. h2.ran >= h.ran
      BY <2>5, <2>6
    <3>3. Drained(active)' = Drained(active)
      BY <1>2, <2>1, <2>13 DEF Drained
    <3> QED
      BY <1>2, <1>3, <2>1, <2>2, <2>6, <2>7, <2>9, <2>14, <2>15, <3>1, <3>2, <3>3
       DEF Still, Drained
  <2>17. IoInv'
    <3>1. \A r \in Requests : truth'[r].io = truth[r].io
      BY <2>2, <2>6, <2>7
    <3> QED
      BY <1>1, <1>4, <3>1 DEF IoInv, Quiet
  <2> QED
    BY <1>5, <2>10, <2>16, <2>17, StillStep DEF IInv
<1> QED
  BY <1>6, <1>7

\* Off the CPU the timer stands still.
LEMMA BlockStep ==
  ASSUME IInv, Block
  PROVE  IInv'
<1>1. TypeInv /\ StoreInv /\ ClockInv /\ IoInv
  BY DEF IInv
<1>2. /\ now' = now + 1 /\ active' = active /\ clock' = clock /\ samples' = samples
      /\ stack' = stack /\ sequence' = sequence /\ spooled' = spooled
      /\ timer' = timer /\ ticks' = ticks
      /\ truth' = [r \in Requests |->
                    IF r = active /\ truth[r].baseline # None
                      THEN [truth[r] EXCEPT !.blocked = @ + 1] ELSE truth[r]]
  BY DEF Block
<1>3. now \in Nat /\ now' \in Nat /\ now' >= now
  BY <1>1, <1>2, TypeFacts
<1>4. \A q : Quiet(q)
  <2>1. Told' = Told
    BY <1>2 DEF Told
  <2> QED
    BY <2>1, NothingTold
<1>5. StoreInv'
  <2>1. \A i \in 1..Len(stack) : stack[i].since \in Nat /\ stack[i].since <= now
    BY <1>1, StackIs DEF StoreInv
  <2>2. \A i \in 1..Len(stack) : stack[i].since <= now'
    BY <1>3, <2>1
  <2> QED
    BY <1>1, <1>2, <2>2 DEF StoreInv
<1>6. ASSUME NEW r \in Requests
      PROVE  /\ truth'[r] \in Life /\ truth'[r].ran = truth[r].ran
             /\ truth'[r].baseline = truth[r].baseline /\ truth'[r].early = truth[r].early
             /\ truth'[r].waited = truth[r].waited /\ truth'[r].io = truth[r].io
             /\ r # active => truth'[r] = truth[r]
             /\ truth[r].baseline = None => truth'[r] = truth[r]
             /\ r = active /\ truth[r].baseline # None =>
                  truth'[r].blocked = truth[r].blocked + 1
  <2>1. PICK h \in Life : h = truth[r]
    BY <1>1, TypeFacts
  <2>2. h.blocked + 1 \in Nat
    BY DEF Life
  <2>3. CASE r = active /\ truth[r].baseline # None
    <3>1. PICK h2 : h2 = [h EXCEPT !.blocked = h.blocked + 1]
      OBVIOUS
    <3>2. truth'[r] = h2
      BY <1>2, <2>1, <2>3, <3>1
    <3>3. /\ h2 \in Life /\ h2.ran = h.ran /\ h2.baseline = h.baseline /\ h2.early = h.early
          /\ h2.waited = h.waited /\ h2.blocked = h.blocked + 1 /\ h2.io = h.io
      BY <2>2, <3>1, LifeWith
    <3> QED
      BY <2>1, <2>3, <3>2, <3>3
  <2>4. CASE ~(r = active /\ truth[r].baseline # None)
    BY <1>2, <2>1, <2>4
  <2> QED
    BY <2>3, <2>4
<1>7. TypeInv'
  <2>1. truth' \in [Requests -> Life]
    BY <1>2, <1>6
  <2> QED
    BY <1>1, <1>2, <1>3, <2>1 DEF TypeInv
<1>8. Still
  <2>1. \A r : Mute(r)
    BY <1>4, QuietIsMute
  <2>2. CASE active = None
    BY <1>2, <1>3, <1>6, <2>1, <2>2 DEF Still
  <2>3. CASE active # None
    <3>1. PICK a \in Requests : a = active
      BY <1>1, <2>3 DEF TypeInv
    <3>2. truth[a].ran \in Nat /\ truth[a].blocked \in Nat
      BY <1>1, TypeFacts
    <3>3. clock.last # None =>
            truth'[a].ran + truth'[a].blocked - now' = truth[a].ran + truth[a].blocked - now
      BY <1>1, <1>2, <1>3, <1>6, <2>3, <3>1, <3>2 DEF ClockInv
    <3>4. timer' \in 1..Period /\ \E k \in Nat : truth'[a].ran + timer' = Period * (k + 1)
      BY <1>1, <1>2, <1>6, <2>3, <3>1 DEF ClockInv
    <3>5. Drained(active)' = Drained(active)
      BY <1>2, <1>6, <3>1 DEF Drained
    <3> QED
      BY <1>2, <1>3, <1>6, <2>1, <3>1, <3>2, <3>3, <3>4, <3>5 DEF Still, Drained
  <2> QED
    BY <2>2, <2>3
<1>9. IoInv'
  BY <1>1, <1>4, <1>6 DEF IoInv, Quiet
<1> QED
  BY <1>5, <1>7, <1>8, <1>9, StillStep DEF IInv

\* A call on the stack began no later than now.
LEMMA StackGrows ==
  ASSUME TypeInv, StoreInv, NEW f \in Functions,
         NEW s, s = Append(stack, [of |-> f, since |-> now])
  PROVE  s \in Seq([of : Functions, since : Nat]) /\ \A i \in 1..Len(s) : s[i].since <= now
<1> DEFINE R == [of : Functions, since : Nat]
<1>1. PICK x : x = [of |-> f, since |-> now]
  OBVIOUS
<1>2. x \in R /\ x.since = now /\ now \in Nat /\ stack \in Seq(R)
  BY <1>1 DEF TypeInv
<1> HIDE DEF R
<1>3. /\ Append(stack, x) \in Seq(R) /\ Len(Append(stack, x)) = Len(stack) + 1
      /\ \A i \in 1..Len(stack) : Append(stack, x)[i] = stack[i]
      /\ Append(stack, x)[Len(stack) + 1] = x
  BY <1>2, AppendProperties
<1>4. Len(stack) \in Nat /\ s = Append(stack, x)
  BY <1>1, StackIs
<1>5. ASSUME NEW i \in 1..Len(s) PROVE s[i].since <= now
  <2>1. i \in 1..Len(stack) \/ i = Len(stack) + 1
    BY <1>3, <1>4
  <2>2. CASE i \in 1..Len(stack)
    BY <1>3, <1>4, <2>2 DEF StoreInv
  <2>3. CASE i = Len(stack) + 1
    BY <1>2, <1>3, <1>4, <2>3
  <2> QED
    BY <2>1, <2>2, <2>3
<1> QED
  BY <1>3, <1>4, <1>5 DEF R

\* Without a profile a begin forgets the ticks.
LEMMA CallAside ==
  ASSUME IInv, NEW f \in Functions, Call(f), active = None
  PROVE  IInv'
<1>1. TypeInv /\ StoreInv /\ IoInv
  BY DEF IInv
<1>2. /\ ticks' = 0 /\ clock' = clock /\ samples' = samples /\ truth' = truth
      /\ now' = now /\ timer' = timer /\ active' = active /\ sequence' = sequence
      /\ spooled' = spooled /\ stack' = Append(stack, [of |-> f, since |-> now])
  BY DEF Call, ConsumePendingTicks
<1>3. /\ stack' \in Seq([of : Functions, since : Nat])
      /\ \A i \in 1..Len(stack') : stack'[i].since <= now
  <2>1. PICK s : s = stack'
    OBVIOUS
  <2> QED
    BY <1>1, <1>2, <2>1, StackGrows
<1>4. \A q : Quiet(q)
  <2>1. Told' = Told
    BY <1>2 DEF Told
  <2> QED
    BY <2>1, NothingTold
<1>5. TypeInv'
  BY <1>1, <1>2, <1>3 DEF TypeInv
<1>6. StoreInv'
  BY <1>1, <1>2, <1>3 DEF StoreInv
<1>7. Still
  <2>1. now' >= now
    BY <1>1, <1>2, TypeFacts
  <2> QED
    BY <1>2, <1>4, <2>1, QuietIsMute DEF Still
<1>8. IoInv'
  BY <1>1, <1>2, <1>4 DEF IoInv, Quiet
<1> QED
  BY <1>5, <1>6, <1>7, <1>8, StillStep DEF IInv

\* What the end of a call tells, if anything: how long it waited.
LEMMA ReturnTells ==
  ASSUME IInv, Return
  PROVE  /\ samples' \in Seq(Recorded) /\ Len(samples') <= MaxSamples
         /\ active = None => samples' = <<>>
         /\ \A i \in 1..Len(samples') : samples'[i].trace = active
         /\ \A r : Mute(r)
         /\ truth' \in [Requests -> Life]
         /\ \A r \in Requests :
              /\ r # active => truth'[r] = truth[r]
              /\ truth'[r].ran = truth[r].ran /\ truth'[r].baseline = truth[r].baseline
              /\ truth'[r].early = truth[r].early /\ truth'[r].waited = truth[r].waited
              /\ truth'[r].blocked = truth[r].blocked
         /\ IoInv'
<1>1. TypeInv /\ StoreInv /\ IoInv
  BY DEF IInv
<1>2. PICK f, waited : f = Last(stack).of /\ waited = now - Last(stack).since
  OBVIOUS
<1>3. /\ stack # <<>> /\ stack' = Front(stack) /\ active' = active /\ spooled' = spooled
      /\ \/ /\ f \in Waits
            /\ \E s \in {stack, stack'} : RecordIoWait(Walked(s), f, waited)
            /\ truth' = IF active = None \/ waited < MinIo THEN truth
                        ELSE [truth EXCEPT ![active].io = @ + waited]
         \/ f \notin Waits /\ samples' = samples /\ truth' = truth
  BY <1>2 DEF Return
<1>4. samples \in Seq(Recorded) /\ truth \in [Requests -> Life]
  BY <1>1 DEF TypeInv
<1>5. CASE samples' = samples /\ truth' = truth
  <2>1. \A q : Quiet(q)
    <3>1. Told' = Told
      BY <1>3, <1>5 DEF Told
    <3> QED
      BY <3>1, NothingTold
  <2>2. IoInv'
    BY <1>1, <1>5, <2>1 DEF IoInv, Quiet
  <2> QED
    BY <1>1, <1>4, <1>5, <2>1, <2>2, QuietIsMute DEF StoreInv
<1>6. CASE f \in Waits /\ active # None /\ ~(waited < MinIo)
  <2>1. PICK a \in Requests : a = active
    BY <1>1, <1>6 DEF TypeInv
  <2>2. PICK h \in Life : h = truth[a]
    BY <1>4
  <2>3. waited \in Nat /\ f \in Functions
    <3>1. /\ Len(stack) \in Nat /\ Len(stack) >= 1 /\ Last(stack) = stack[Len(stack)]
      <4>1. stack \in Seq([of : Functions, since : Nat])
        BY <1>1 DEF TypeInv
      <4> QED
        BY <1>3, <4>1, FrontIs
    <3>2. /\ stack[Len(stack)].of \in Functions /\ stack[Len(stack)].since \in Nat
          /\ stack[Len(stack)].since <= now /\ now \in Nat
      BY <1>1, <3>1, StackIs, TypeFacts DEF StoreInv
    <3> QED
      BY <1>2, <3>1, <3>2
  <2>4. h.io \in Nat /\ h.io + waited \in Nat
    BY <2>3 DEF Life
  <2>5. PICK h2 : h2 = [h EXCEPT !.io = h.io + waited]
    OBVIOUS
  <2>6. /\ h2 \in Life /\ h2.ran = h.ran /\ h2.baseline = h.baseline /\ h2.early = h.early
        /\ h2.waited = h.waited /\ h2.blocked = h.blocked /\ h2.io = h.io + waited
    BY <2>4, <2>5, LifeWith
  <2>7. truth' = [truth EXCEPT ![a] = h2]
    BY <1>3, <1>6, <2>1, <2>2, <2>5
  <2>8. /\ truth' \in [Requests -> Life] /\ truth'[a] = h2
        /\ \A r \in Requests : r # a => truth'[r] = truth[r]
    BY <1>4, <2>6, <2>7
  <2>9. \A r \in Requests :
          /\ r # active => truth'[r] = truth[r]
          /\ truth'[r].ran = truth[r].ran /\ truth'[r].baseline = truth[r].baseline
          /\ truth'[r].early = truth[r].early /\ truth'[r].waited = truth[r].waited
          /\ truth'[r].blocked = truth[r].blocked
    BY <2>1, <2>2, <2>6, <2>8
  <2>10. PICK s \in {stack, stack'} : RecordIoWait(Walked(s), f, waited)
    BY <1>3, <1>6
  <2>11. waited >= MinIo
    BY <1>6, <2>3, Constants
  <2>12. CASE "io" \in Kinds
    <3>1. PICK x : x = Sample("io", waited, IoStack(Walked(s), f))
      OBVIOUS
    <3>2. samples' = Pushed(<<x>>)
      BY <1>6, <2>10, <2>11, <2>12, <3>1 DEF RecordIoWait
    <3>3. s \in Seq([of : Functions, since : Nat])
      <4>1. stack \in Seq([of : Functions, since : Nat])
        BY <1>1 DEF TypeInv
      <4>2. Front(stack) \in Seq([of : Functions, since : Nat])
        BY <1>3, <4>1, FrontIs
      <4> QED
        BY <1>3, <2>10, <4>1, <4>2
    <3>4. /\ IoStack(Walked(s), f) \in Seq(Functions) /\ Last(IoStack(Walked(s), f)) = f
      <4>1. Walked(s) \in Seq(Functions)
        BY <3>3, WalkedIs
      <4> QED
        BY <2>3, <4>1, IoStackIs
    <3>5. x.kind = "io" /\ x.value = waited /\ x.trace = active /\ x \in Recorded
      <4>1. "io" \in Kind
        BY DEF Kind
      <4> QED
        BY <1>6, <2>1, <2>3, <3>1, <3>4, <4>1, SampleIs
    <3>6. /\ samples' \in Seq(Recorded) /\ Len(samples') <= MaxSamples
          /\ \A i \in 1..Len(samples') : samples'[i].trace = a
          /\ \A r : r # a => Quiet(r)
          /\ Complete(a)' => Complete(a) /\ Total(a, "io")' = Total(a, "io") + x.value
          /\ \A kind : kind # "io" => Total(a, kind)' = Total(a, kind)
      BY <1>1, <1>3, <2>1, <3>2, <3>5, IoPushes
    <3>7. \A r : Mute(r)
      BY <3>6, QuietIsMute DEF Mute
    <3>8. IoInv'
      <4>1. ASSUME NEW r \in Requests, Complete(r)' PROVE Total(r, "io")' = truth'[r].io
        <5>1. CASE r = a
          BY <1>1, <2>2, <2>6, <2>8, <2>12, <3>5, <3>6, <4>1, <5>1 DEF IoInv
        <5>2. CASE r # a
          BY <1>1, <2>8, <2>12, <3>6, <4>1, <5>2 DEF IoInv, Quiet
        <5> QED
          BY <5>1, <5>2
      <4> QED
        BY <4>1 DEF IoInv
    <3> QED
      BY <1>6, <2>1, <2>8, <2>9, <3>6, <3>7, <3>8
  <2>13. CASE "io" \notin Kinds
    <3>1. samples' = samples
      BY <2>10, <2>13 DEF RecordIoWait
    <3>2. \A q : Quiet(q)
      <4>1. Told' = Told
        BY <1>3, <3>1 DEF Told
      <4> QED
        BY <4>1, NothingTold
    <3>3. IoInv'
      BY <2>13 DEF IoInv
    <3> QED
      BY <1>1, <1>4, <1>6, <2>8, <2>9, <3>1, <3>2, <3>3, QuietIsMute DEF StoreInv
  <2> QED
    BY <2>12, <2>13
<1>7. CASE f \in Waits /\ ~(active # None /\ ~(waited < MinIo))
  <2>1. truth' = truth
    BY <1>3, <1>7
  <2>2. PICK s \in {stack, stack'} : RecordIoWait(Walked(s), f, waited)
    BY <1>3, <1>7
  <2>3. samples' = samples
    <3>1. CASE active = None
      BY <2>2, <3>1 DEF RecordIoWait
    <3>2. CASE waited < MinIo
      <4>1. waited \in Int /\ MinIo \in Int
        <5>1. stack \in Seq([of : Functions, since : Nat])
          BY <1>1 DEF TypeInv
        <5>2. Len(stack) \in Nat /\ Len(stack) >= 1 /\ Last(stack) = stack[Len(stack)]
          BY <1>3, <5>1, FrontIs
        <5>3. stack[Len(stack)].since \in Nat /\ now \in Nat
          BY <1>1, <5>2, StackIs, TypeFacts
        <5> QED
          BY <1>2, <5>2, <5>3, Constants
      <4>2. ~(waited >= MinIo)
        BY <3>2, <4>1
      <4> QED
        BY <2>2, <4>2 DEF RecordIoWait
    <3> QED
      BY <1>7, <3>1, <3>2
  <2> QED
    BY <1>5, <2>1, <2>3
<1> QED
  BY <1>3, <1>5, <1>6, <1>7

\* The end of a call keeps the invariant: it tells of I/O at most.
LEMMA ReturnStep ==
  ASSUME IInv, Return
  PROVE  IInv'
<1>1. TypeInv /\ StoreInv /\ ClockInv
  BY DEF IInv
<1>2. /\ stack # <<>> /\ stack' = Front(stack) /\ active' = active /\ clock' = clock
      /\ now' = now /\ timer' = timer /\ ticks' = ticks
      /\ sequence' = sequence /\ spooled' = spooled
  BY DEF Return
<1>3. /\ samples' \in Seq(Recorded) /\ Len(samples') <= MaxSamples
      /\ active = None => samples' = <<>>
      /\ \A i \in 1..Len(samples') : samples'[i].trace = active
      /\ \A r : Mute(r)
      /\ truth' \in [Requests -> Life]
      /\ \A r \in Requests :
           /\ r # active => truth'[r] = truth[r]
           /\ truth'[r].ran = truth[r].ran /\ truth'[r].baseline = truth[r].baseline
           /\ truth'[r].early = truth[r].early /\ truth'[r].waited = truth[r].waited
           /\ truth'[r].blocked = truth[r].blocked
      /\ IoInv'
  BY ReturnTells
<1>4. /\ stack' \in Seq([of : Functions, since : Nat])
      /\ \A i \in 1..Len(stack') : stack'[i].since <= now
  <2>1. stack \in Seq([of : Functions, since : Nat])
    BY <1>1 DEF TypeInv
  <2>2. /\ Front(stack) \in Seq([of : Functions, since : Nat]) /\ Len(stack) \in Nat
        /\ Len(Front(stack)) = Len(stack) - 1
        /\ \A i \in 1..(Len(stack) - 1) : Front(stack)[i] = stack[i]
    BY <1>2, <2>1, FrontIs
  <2>3. ASSUME NEW i \in 1..Len(Front(stack)) PROVE Front(stack)[i].since <= now
    <3>1. i \in 1..(Len(stack) - 1) /\ i \in 1..Len(stack)
      BY <2>2
    <3> QED
      BY <1>1, <2>2, <3>1 DEF StoreInv
  <2> QED
    BY <1>2, <2>2, <2>3
<1>5. TypeInv'
  BY <1>1, <1>2, <1>3, <1>4 DEF TypeInv
<1>6. StoreInv'
  BY <1>2, <1>3, <1>4 DEF StoreInv
<1>7. Still
  <2>1. now' >= now
    BY <1>1, <1>2, TypeFacts
  <2>2. CASE active = None
    BY <1>2, <1>3, <2>1, <2>2 DEF Still
  <2>3. CASE active # None
    <3>1. PICK a \in Requests : a = active
      BY <1>1, <2>3 DEF TypeInv
    <3>2. timer' \in 1..Period /\ \E k \in Nat : truth'[a].ran + timer' = Period * (k + 1)
      BY <1>1, <1>2, <1>3, <2>3, <3>1 DEF ClockInv
    <3>3. Drained(active)' = Drained(active)
      BY <1>2, <1>3, <3>1 DEF Drained
    <3>4. truth'[a].ran \in Nat /\ truth[a].ran \in Nat
      BY <1>1, <1>3, TypeFacts
    <3> QED
      BY <1>2, <1>3, <2>1, <2>3, <3>1, <3>2, <3>3, <3>4 DEF Still, Drained
  <2> QED
    BY <2>2, <2>3
<1> QED
  BY <1>3, <1>5, <1>6, <1>7, StillStep DEF IInv

\* The first drain and the end of a window, in a life.
AtBaseline(h, t, e) == [h EXCEPT !.baseline = t, !.early = e, !.blocked = 0]
AtWindow(h, w) == [h EXCEPT !.waited = w, !.blocked = 0]

\* What the first drain leaves of a life.
Begins(h, h2, t, e) ==
  /\ h2 \in Life /\ h2.ran = h.ran /\ h2.baseline = t /\ h2.early = e
  /\ h2.waited = h.waited /\ h2.blocked = 0 /\ h2.io = h.io

\* A life at its first drain.
LEMMA LifeAtBaseline ==
  ASSUME NEW h \in Life, NEW t \in Nat, NEW e \in Nat
  PROVE  Begins(h, AtBaseline(h, t, e), t, e)
<1> DEFINE h2 == AtBaseline(h, t, e)
<1> DEFINE B == Nat \cup {None}
<1>1. /\ h \in [ran : Nat, baseline : B, early : Nat, waited : Nat, blocked : Nat, io : Nat]
      /\ t \in B
  BY DEF Life
<1> HIDE DEF B
<1>2. /\ h2 \in [ran : Nat, baseline : B, early : Nat, waited : Nat, blocked : Nat, io : Nat]
      /\ h2.ran = h.ran /\ h2.baseline = t /\ h2.early = e
      /\ h2.waited = h.waited /\ h2.blocked = 0 /\ h2.io = h.io
  BY <1>1 DEF AtBaseline
<1> QED
  BY <1>2 DEF Life, B, Begins

\* A life at the end of a window.
LEMMA LifeAtWindow ==
  ASSUME NEW h \in Life, NEW w \in Nat, NEW h2, h2 = AtWindow(h, w)
  PROVE  /\ h2 \in Life /\ h2.ran = h.ran /\ h2.baseline = h.baseline
         /\ h2.early = h.early /\ h2.waited = w /\ h2.blocked = 0 /\ h2.io = h.io
<1> DEFINE B == Nat \cup {None}
<1>1. h \in [ran : Nat, baseline : B, early : Nat, waited : Nat, blocked : Nat, io : Nat]
  BY DEF Life
<1> HIDE DEF B
<1>2. /\ h2 \in [ran : Nat, baseline : B, early : Nat, waited : Nat, blocked : Nat, io : Nat]
      /\ h2.ran = h.ran /\ h2.baseline = h.baseline
      /\ h2.early = h.early /\ h2.waited = w /\ h2.blocked = 0 /\ h2.io = h.io
  BY <1>1 DEF AtWindow
<1> QED
  BY <1>2 DEF Life, B

\* What a drain keeps in the history.
LEMMA WitnessedIs ==
  ASSUME TypeInv, NEW h \in Life, NEW h2, h2 = Witnessed(h)
  PROVE  /\ h2 \in Life /\ h2.ran = h.ran /\ h2.io = h.io
         /\ h.baseline = None => /\ h2.baseline = now /\ h2.early = ticks
                                 /\ h2.waited = h.waited /\ h2.blocked = 0
         /\ h.baseline # None => h2.baseline = h.baseline /\ h2.early = h.early
         /\ h.baseline # None /\ WindowEnds(clock, now) =>
              h2.waited = h.waited + h.blocked /\ h2.blocked = 0
         /\ h.baseline # None /\ ~WindowEnds(clock, now) =>
              h2.waited = h.waited /\ h2.blocked = h.blocked
<1>1. now \in Nat /\ ticks \in Nat /\ h.waited \in Nat /\ h.blocked \in Nat
  BY TypeFacts DEF Life
<1>2. CASE h.baseline = None
  <2>1. h2 = AtBaseline(h, now, ticks)
    BY <1>2 DEF Witnessed, AtBaseline
  <2>2. Begins(h, h2, now, ticks)
    BY <1>1, <2>1, LifeAtBaseline
  <2> QED
    BY <1>2, <2>2 DEF Begins
<1>3. CASE h.baseline # None /\ WindowEnds(clock, now)
  <2>1. PICK w \in Nat : w = h.waited + h.blocked
    BY <1>1
  <2>2. h2 = AtWindow(h, w)
    BY <1>3, <2>1 DEF Witnessed, AtWindow
  <2>3. /\ h2 \in Life /\ h2.ran = h.ran /\ h2.baseline = h.baseline
        /\ h2.early = h.early /\ h2.waited = w /\ h2.blocked = 0 /\ h2.io = h.io
    BY <2>2, LifeAtWindow
  <2> QED
    BY <1>3, <2>1, <2>3
<1>4. CASE h.baseline # None /\ ~WindowEnds(clock, now)
  <2>1. h2 = h
    BY <1>4 DEF Witnessed
  <2> QED
    BY <1>1, <1>4, <2>1
<1> QED
  BY <1>2, <1>3, <1>4

\* A drain takes the ticks, and at the end of a window accounts for it.
LEMMA CallDrains ==
  ASSUME IInv, NEW f \in Functions, Call(f), active # None
  PROVE  IInv'
<1>1. /\ TypeInv /\ StoreInv /\ ClockInv /\ FreshInv /\ CpuInv /\ WindowsTile /\ OffInv
      /\ PastInv /\ IoInv
  BY DEF IInv
<1>2. PICK a \in Requests : a = active
  BY <1>1 DEF TypeInv
<1>3. PICK h \in Life : h = truth[a]
  BY <1>1, TypeFacts
<1>4. PICK h2 : h2 = Witnessed(h)
  OBVIOUS
<1>5. PICK s : s = stack'
  OBVIOUS
<1>6. PICK cpu \in Nat : cpu = Period * ticks
  BY <1>1, TypeFacts
<1>7. /\ s = Append(stack, [of |-> f, since |-> now])
      /\ ticks' = 0 /\ clock' = Advanced(clock, now, cpu) /\ samples' = Pushed(DrainSamples(s))
      /\ truth' = [truth EXCEPT ![a] = h2]
      /\ now' = now /\ timer' = timer /\ active' = active /\ sequence' = sequence
      /\ spooled' = spooled
  BY <1>2, <1>3, <1>4, <1>5, <1>6 DEF Call, ConsumePendingTicks
<1>8. s \in Seq([of : Functions, since : Nat]) /\ \A i \in 1..Len(s) : s[i].since <= now
  BY <1>1, <1>7, StackGrows
<1>9. /\ h2 \in Life /\ h2.ran = h.ran /\ h2.io = h.io
      /\ h.baseline = None => /\ h2.baseline = now /\ h2.early = ticks
                              /\ h2.waited = h.waited /\ h2.blocked = 0
      /\ h.baseline # None => h2.baseline = h.baseline /\ h2.early = h.early
      /\ h.baseline # None /\ WindowEnds(clock, now) =>
           h2.waited = h.waited + h.blocked /\ h2.blocked = 0
      /\ h.baseline # None /\ ~WindowEnds(clock, now) =>
           h2.waited = h.waited /\ h2.blocked = h.blocked
  BY <1>1, <1>4, WitnessedIs
<1>10. /\ truth' \in [Requests -> Life] /\ truth'[a] = h2
       /\ \A r \in Requests : r # a => truth'[r] = truth[r]
  <2>1. truth \in [Requests -> Life]
    BY <1>1 DEF TypeInv
  <2> QED
    BY <1>7, <1>9, <2>1
<1>11. PICK c2 : c2 = clock'
  OBVIOUS
<1>12. PICK took : took = Bank(clock, now, cpu)
  OBVIOUS
<1>13. /\ timer \in 1..Period /\ Period \in Nat /\ Period >= 1
       /\ clock.last = None <=> h.baseline = None
       /\ clock.last = None => clock = Idle /\ Drained(a) = 0
       /\ clock.last # None => clock.last <= now
  BY <1>1, <1>2, <1>3, Constants DEF ClockInv
<1>14. /\ c2 \in [last : Nat \cup {None}, wall : Nat, cpu : Nat] /\ c2.last = now
       /\ took.wall \in Nat /\ took.cpu = clock.cpu + cpu
       /\ clock.last = None => took.wall = 0 /\ ~WindowEnds(clock, now) /\ clock.cpu = 0
       /\ clock.last # None => took.wall = clock.wall + now - clock.last
       /\ WindowEnds(clock, now) => c2.wall = 0 /\ c2.cpu = 0
       /\ ~WindowEnds(clock, now) => c2.wall = took.wall /\ c2.cpu = took.cpu
  <2>1. /\ TypeInv /\ c2 = Advanced(clock, now, cpu)
        /\ clock.last = None => clock = Idle
        /\ clock.last # None => clock.last <= now
    BY <1>1, <1>7, <1>11, <1>13
  <2> QED
    BY <1>12, <2>1, Advances
<1>15. PICK wall \in Nat : wall = took.wall
  BY <1>14
<1>16. PICK off \in Int : off = wall - took.cpu
  BY <1>1, <1>14, TypeFacts
<1>17. /\ samples' \in Seq(Recorded) /\ Len(samples') <= MaxSamples
       /\ \A i \in 1..Len(samples') : samples'[i].trace = a
       /\ \A r : r # a => Quiet(r)
       /\ Complete(a)' => Complete(a)
       /\ \E p \in 0..1 : (p = 1 <=> "cpu" \in Kinds /\ ticks > 0) /\ Credits(a, "cpu", p, cpu)
       /\ \E q \in 0..1 : /\ q = 1 <=> WindowEnds(clock, now) /\ "wall" \in Kinds
                         /\ Credits(a, "wall", q, wall)
       /\ \E o \in 0..1 : /\ o = 1 <=> WindowEnds(clock, now) /\ "off_cpu" \in Kinds /\ off > 0
                         /\ Credits(a, "off_cpu", o, off)
       /\ Total(a, "io")' = Total(a, "io")
  BY ZenonT(60), <1>1, <1>2, <1>6, <1>7, <1>8, <1>12, <1>15, <1>16, DrainPushes
<1>18. PICK d \in Int : d = Drained(a) /\ d = h.ran + timer - Period - cpu
  BY <1>1, <1>2, <1>3, <1>6, TypeFacts, Constants DEF Drained
<1>19. h2.ran + timer - Period - Period * 0 = d + cpu /\ Period * 0 = 0
  BY <1>9, <1>13, <1>18 DEF Life
<1>20. Drained(a)' = d + cpu
  BY <1>2, <1>7, <1>10, <1>19 DEF Drained
<1>21. /\ now \in Nat /\ clock.wall \in Nat /\ clock.cpu \in Nat
       /\ clock.last # None => clock.last \in Nat
       /\ h.ran \in Nat /\ h.waited \in Nat /\ h.blocked \in Nat /\ h.early \in Nat
       /\ h.baseline # None => h.baseline \in Nat
  BY <1>1, <1>3, TypeFacts
<1>22. /\ \A kind : Total(active, kind)' = Total(a, kind)'
       /\ Complete(active)' <=> Complete(a)'
       /\ Drained(active)' = d + cpu
  <2>1. \A kind : Total(active, kind)' = Total(a, kind)'
    BY <1>2, <1>7 DEF Total, SamplesOf
  <2>2. Complete(active)' <=> Complete(a)'
    BY <1>2, <1>7 DEF Complete, SamplesOf
  <2>3. Drained(active)' = d + cpu
    BY <1>2, <1>7, <1>10, <1>19 DEF Drained
  <2> QED
    BY <2>1, <2>2, <2>3
<1>23. TypeInv'
  <2>1. ticks' \in Nat
    BY <1>7
  <2>2. c2 \in [last : Nat \cup {None}, wall : Nat, cpu : Nat]
    BY <1>14
  <2> QED
    BY <1>1, <1>5, <1>7, <1>8, <1>10, <1>11, <1>17, <2>1, <2>2 DEF TypeInv
<1>24. StoreInv'
  BY <1>2, <1>5, <1>7, <1>8, <1>17, Constants DEF StoreInv
<1>25. c2.last # None /\ h2.baseline # None /\ (h.baseline = None => h2.baseline = now)
  BY <1>9, <1>14, <1>21, Constants
<1>26. ClockInv'
  <2>1. \E k \in Nat : truth'[a].ran + timer' = Period * (k + 1)
    BY <1>1, <1>2, <1>3, <1>7, <1>9, <1>10 DEF ClockInv
  <2>2. now <= now'
    BY <1>7, <1>21
  <2> QED
    BY <1>2, <1>7, <1>10, <1>11, <1>13, <1>14, <1>25, <2>1, <2>2 DEF ClockInv
<1>27. FreshInv'
  <2>1. ASSUME NEW r \in Requests, truth'[r].baseline = None
        PROVE  /\ truth'[r].waited = 0 /\ truth'[r].blocked = 0
               /\ Total(r, "wall")' = 0 /\ Total(r, "off_cpu")' = 0
    <3>1. r # a
      BY <1>10, <1>25, <2>1
    <3> QED
      BY <1>1, <1>10, <1>17, <2>1, <3>1 DEF FreshInv, Quiet
  <2> QED
    BY <2>1 DEF FreshInv
<1>28. IoInv'
  <2>1. ASSUME NEW r \in Requests, "io" \in Kinds, Complete(r)'
        PROVE  Total(r, "io")' = truth'[r].io
    <3>1. CASE r = a
      BY <1>1, <1>3, <1>9, <1>10, <1>17, <2>1, <3>1 DEF IoInv
    <3>2. CASE r # a
      BY <1>1, <1>10, <1>17, <2>1, <3>2 DEF IoInv, Quiet
    <3> QED
      BY <3>1, <3>2
  <2> QED
    BY <2>1 DEF IoInv
<1>29. PastInv'
  <2>1. \A r \in Requests : r # a => Counted(r)'
    BY <1>1, <1>2, <1>10, <1>17, CountedAsBefore, QuietIsMute DEF PastInv
  <2> QED
    BY <1>2, <1>7, <2>1 DEF PastInv
<1>30. CpuInv'
  <2>1. PICK t \in Nat : t = Total(a, "cpu")
    BY <1>1, TotalsAre
  <2>2. PICK p \in 0..1 : (p = 1 <=> "cpu" \in Kinds /\ ticks > 0) /\ Credits(a, "cpu", p, cpu)
    BY <1>17
  <2>3. /\ t <= d /\ ("cpu" \in Kinds /\ Complete(a) => t = d)
    BY <1>1, <1>2, <1>18, <2>1 DEF CpuInv
  <2>4. Total(a, "cpu")' \in {t, t + cpu} /\ (p = 0 => Total(a, "cpu")' = t)
    BY <2>1, <2>2 DEF Credits
  <2>5. Total(a, "cpu")' <= d + cpu
    BY <1>18, <2>1, <2>3, <2>4
  <2>6. ASSUME "cpu" \in Kinds, Complete(a)' PROVE Total(a, "cpu")' = d + cpu
    <3>1. t = d
      BY <1>17, <2>3, <2>6
    <3>2. CASE ticks > 0
      <4>1. p = 1
        BY <2>2, <2>6, <3>2
      <4> QED
        BY <2>1, <2>2, <2>6, <3>1, <4>1 DEF Credits
    <3>3. CASE ~(ticks > 0)
      <4>1. ticks = 0 /\ cpu = 0
        BY <1>1, <1>6, <1>19, <3>3, TypeFacts
      <4> QED
        BY <1>18, <2>1, <2>4, <3>1, <4>1
    <3> QED
      BY <3>2, <3>3
  <2>7. ASSUME NEW r \in Requests PROVE Total(r, "cpu")' <= truth'[r].ran
    <3>1. CASE r = a
      <4>1. d + cpu <= h2.ran
        BY <1>9, <1>13, <1>18, <1>21
      <4>2. Total(a, "cpu")' \in Int
        BY <2>1, <2>4
      <4>3. Total(a, "cpu")' <= h2.ran
        BY <1>9, <1>18, <1>21, <2>5, <4>1, <4>2
      <4> QED
        BY <1>10, <3>1, <4>3
    <3>2. CASE r # a
      BY <1>1, <1>10, <1>17, <3>2 DEF CpuInv, Quiet
    <3> QED
      BY <3>1, <3>2
  <2> QED
    BY <1>22, <2>5, <2>6, <2>7 DEF CpuInv
<1>31. WindowsTile'
  <2>1. SUFFICES ASSUME "wall" \in Kinds, Complete(a)'
                 PROVE  Total(a, "wall")' + c2.wall = now - h2.baseline
    BY <1>2, <1>7, <1>10, <1>11, <1>14, <1>22 DEF WindowsTile
  <2>2. Complete(a)
    BY <1>17, <2>1
  <2>3. PICK t \in Nat : t = Total(a, "wall")
    BY <1>1, TotalsAre
  <2>4. PICK q \in 0..1 : /\ q = 1 <=> WindowEnds(clock, now) /\ "wall" \in Kinds
                          /\ Credits(a, "wall", q, wall)
    BY <1>17
  <2>5. CASE clock.last = None
    <3>1. Total(a, "wall")' = t /\ t = 0
      BY <1>1, <1>3, <1>13, <1>14, <2>3, <2>4, <2>5 DEF Credits, FreshInv
    <3> QED
      BY <1>9, <1>13, <1>14, <1>21, <2>5, <3>1
  <2>6. CASE clock.last # None
    <3>1. t + clock.wall = clock.last - h.baseline
      BY <1>1, <1>2, <1>3, <2>1, <2>2, <2>3, <2>6 DEF WindowsTile
    <3>2. CASE WindowEnds(clock, now)
      <4>1. Total(a, "wall")' = t + wall
        BY <2>1, <2>3, <2>4, <3>2 DEF Credits
      <4>2. wall = clock.wall + now - clock.last /\ c2.wall = 0
        BY <1>14, <1>15, <2>6, <3>2
      <4>3. h2.baseline = h.baseline /\ h.baseline \in Nat
        BY <1>9, <1>13, <1>21, <2>6
      <4> QED
        BY <1>21, <2>6, <3>1, <4>1, <4>2, <4>3
    <3>3. CASE ~WindowEnds(clock, now)
      <4>1. Total(a, "wall")' = t
        BY <2>3, <2>4, <3>3 DEF Credits
      <4> QED
        BY <1>9, <1>13, <1>14, <1>15, <1>21, <2>6, <3>1, <3>3, <4>1
    <3> QED
      BY <3>2, <3>3
  <2> QED
    BY <2>5, <2>6
<1>32. OffInv'
  <2>1. PICK e \in Nat, e2 \in Nat : e = Period * h.early /\ e2 = Period * h2.early
    BY <1>3, <1>9, Constants DEF Life
  <2>2. PICK t \in Nat : t = Total(a, "off_cpu")
    BY <1>1, TotalsAre
  <2>3. PICK o \in 0..1 : /\ o = 1 <=> WindowEnds(clock, now) /\ "off_cpu" \in Kinds /\ off > 0
                          /\ Credits(a, "off_cpu", o, off)
    BY <1>17
  <2>4. /\ clock.last # None =>
             /\ h.ran + h.waited + h.blocked - (now - h.baseline) <= e + Period - 1
             /\ d - clock.cpu <= h.ran + h.blocked - now + clock.last - clock.wall
             /\ "off_cpu" \in Kinds /\ Complete(a) =>
                  t >= clock.last - h.baseline - clock.wall - d + clock.cpu
    BY <1>1, <1>2, <1>3, <1>18, <2>1, <2>2 DEF OffInv
  <2>5. h.baseline = None => h.waited = 0 /\ t = 0 /\ e2 = cpu
    BY <1>1, <1>3, <1>6, <1>9, <2>1, <2>2 DEF FreshInv
  <2>6. h2.ran + h2.waited + h2.blocked - (now - h2.baseline) <= e2 + Period - 1
    <3>1. CASE clock.last = None
      BY <1>9, <1>13, <1>18, <1>21, <2>1, <2>5, <3>1
    <3>2. CASE clock.last # None
      <4>1. e2 = e
        BY <1>9, <1>13, <2>1, <3>2
      <4> QED
        BY <1>9, <1>13, <1>21, <2>1, <2>4, <3>2, <4>1
    <3> QED
      BY <3>1, <3>2
  <2>7. d + cpu - c2.cpu <= h2.ran + h2.blocked - now + now - c2.wall
    <3>1. CASE clock.last = None
      <4>1. c2.cpu = cpu /\ c2.wall = 0 /\ h2.blocked = 0 /\ d = 0
        BY <1>9, <1>13, <1>14, <1>18, <3>1
      <4> QED
        BY <1>9, <1>21, <4>1
    <3>2. CASE clock.last # None /\ WindowEnds(clock, now)
      BY <1>9, <1>13, <1>14, <1>18, <1>21, <3>2
    <3>3. CASE clock.last # None /\ ~WindowEnds(clock, now)
      BY <1>9, <1>13, <1>14, <1>18, <1>21, <2>4, <3>3
    <3> QED
      BY <3>1, <3>2, <3>3
  <2>8. ASSUME "off_cpu" \in Kinds, Complete(a)'
        PROVE  Total(a, "off_cpu")' >= now - h2.baseline - c2.wall - (d + cpu) + c2.cpu
    <3>1. Complete(a)
      BY <1>17, <2>8
    <3>2. CASE clock.last = None
      <4>1. /\ Total(a, "off_cpu")' = 0 /\ h2.baseline = now
            /\ c2.wall = 0 /\ c2.cpu = cpu /\ d = 0
        BY <1>9, <1>13, <1>14, <1>18, <2>2, <2>3, <2>5, <3>2 DEF Credits
      <4> QED
        BY <1>18, <1>21, <4>1
    <3>3. CASE clock.last # None /\ ~WindowEnds(clock, now)
      <4>1. Total(a, "off_cpu")' = t
        BY <2>2, <2>3, <3>3 DEF Credits
      <4> QED
        BY <1>9, <1>13, <1>14, <1>18, <1>21, <2>4, <2>8, <3>1, <3>3, <4>1
    <3>4. CASE clock.last # None /\ WindowEnds(clock, now)
      <4>1. Total(a, "off_cpu")' = IF off > 0 THEN t + off ELSE t
        BY <2>2, <2>3, <2>8, <3>4 DEF Credits
      <4>2. Total(a, "off_cpu")' \in Int /\ Total(a, "off_cpu")' >= t + off
        BY <1>16, <4>1
      <4>3. t + off >= now - h2.baseline - (d + cpu)
        BY <1>9, <1>13, <1>14, <1>15, <1>16, <1>18, <1>21, <2>4, <2>8, <3>1, <3>4
      <4> QED
        BY <1>9, <1>13, <1>14, <1>18, <1>21, <3>4, <4>2, <4>3
    <3> QED
      BY <3>2, <3>3, <3>4
  <2> QED
    BY <1>2, <1>7, <1>10, <1>11, <1>14, <1>22, <2>1, <2>6, <2>7, <2>8 DEF OffInv
<1> QED
  BY <1>23, <1>24, <1>26, <1>27, <1>28, <1>29, <1>30, <1>31, <1>32 DEF IInv

\* A step that changes nothing keeps the invariant.
LEMMA StutterStep ==
  ASSUME IInv, UNCHANGED vars
  PROVE  IInv'
<1>1. /\ now' = now /\ timer' = timer /\ ticks' = ticks /\ active' = active /\ clock' = clock
      /\ samples' = samples /\ stack' = stack /\ sequence' = sequence /\ spooled' = spooled
      /\ truth' = truth
  BY DEF vars
<1>2. TypeInv' /\ StoreInv' /\ ClockInv'
  BY <1>1 DEF IInv, TypeInv, StoreInv, ClockInv, Drained
<1>3. \A q : Quiet(q)
  <2>1. Told' = Told
    BY <1>1 DEF Told
  <2> QED
    BY <2>1, NothingTold
<1>4. FreshInv' /\ IoInv'
  BY <1>1, <1>3 DEF IInv, FreshInv, IoInv, Quiet
<1>5. PastInv'
  BY <1>1, <1>3, CountedAsBefore, QuietIsMute DEF IInv, PastInv
<1>6. CpuInv'
  BY <1>1, <1>3 DEF IInv, CpuInv, Drained, Quiet
<1>7. WindowsTile'
  BY <1>1, <1>3 DEF IInv, WindowsTile, Quiet
<1>8. OffInv'
  BY <1>1, <1>3 DEF IInv, OffInv, Drained, Quiet
<1> QED
  BY <1>2, <1>4, <1>5, <1>6, <1>7, <1>8 DEF IInv

\* At first nothing has been told and no request has been profiled.
LEMMA InitHolds ==
  ASSUME Init
  PROVE  IInv
<1>1. /\ now = 0 /\ timer = 0 /\ ticks = 0 /\ active = None /\ clock = Idle
      /\ samples = <<>> /\ stack = <<>> /\ sequence = 0 /\ spooled = <<>>
      /\ truth = [r \in Requests |-> Untouched]
  BY DEF Init
<1>2. TypeInv
  <2>1. Untouched \in Life /\ Idle \in [last : Nat \cup {None}, wall : Nat, cpu : Nat]
    BY DEF Untouched, Life, Idle
  <2>2. truth \in [Requests -> Life]
    BY <1>1, <2>1
  <2>3. /\ samples \in Seq(Recorded) /\ stack \in Seq([of : Functions, since : Nat])
        /\ spooled \in Seq([sample : Recorded, sequence : Nat])
    BY <1>1
  <2> QED
    BY <1>1, <2>1, <2>2, <2>3 DEF TypeInv
<1>3. StoreInv
  BY <1>1, Constants DEF StoreInv
<1>4. \A r, kind : Total(r, kind) = 0
  <2>1. Told \in Seq(Recorded) /\ Len(Told) = 0
    BY <1>1, <1>2, ToldIs
  <2>2. DOMAIN Told = {}
    BY <2>1
  <2>3. ASSUME NEW r, NEW kind PROVE Total(r, kind) = 0
    <3>1. {i \in SamplesOf(r) : Told[i].kind = kind} = {}
      BY <2>2 DEF SamplesOf
    <3> QED
      BY <3>1, SumOfNothing DEF Total
  <2> QED
    BY <2>3
<1>5. \A r \in Requests :
        /\ truth[r].ran = 0 /\ truth[r].baseline = None
        /\ truth[r].waited = 0 /\ truth[r].blocked = 0 /\ truth[r].io = 0
  BY <1>1 DEF Untouched
<1>6. ClockInv /\ WindowsTile /\ OffInv
  BY <1>1 DEF ClockInv, WindowsTile, OffInv
<1>7. FreshInv /\ IoInv
  BY <1>4, <1>5 DEF FreshInv, IoInv
<1>8. CpuInv
  BY <1>1, <1>4, <1>5 DEF CpuInv
<1>9. PastInv
  BY <1>5 DEF PastInv, Counted
<1> QED
  BY <1>2, <1>3, <1>6, <1>7, <1>8, <1>9 DEF IInv

---------------------------------------------------------------------------
(* The theorems *)

\* The invariant holds in every state the profiler can reach.
THEOREM Invariance == Spec => []IInv
<1>1. Init => IInv
  BY InitHolds
<1>2. IInv /\ [Next]_vars => IInv'
  <2> SUFFICES ASSUME IInv, [Next]_vars PROVE IInv'
    OBVIOUS
  <2>1. ASSUME NEW r \in Requests, OnRequestStart(r) PROVE IInv'
    BY <2>1, StartStep
  <2>2. CASE OnRequestEnd
    BY <2>2, EndStep
  <2>3. CASE Compute
    BY <2>3, ComputeStep
  <2>4. CASE Block
    BY <2>4, BlockStep
  <2>5. CASE Return
    BY <2>5, ReturnStep
  <2>6. ASSUME NEW f \in Functions, Call(f) PROVE IInv'
    BY <2>6, CallAside, CallDrains
  <2>7. CASE UNCHANGED vars
    BY <2>7, StutterStep
  <2> QED
    BY <2>1, <2>2, <2>3, <2>4, <2>5, <2>6, <2>7 DEF Next
<1> QED
  BY <1>1, <1>2, PTL DEF Spec

\* Every tick is charged once and to the request whose CPU raised it, for any period and any
\* way the ticks come between the drains and the boundaries of the requests.
THEOREM TicksAreChargedOnce == Spec => []TicksChargedOnce
<1>1. IInv => TicksChargedOnce
  BY ChargesFollow
<1> QED
  BY <1>1, Invariance, PTL

\* The wall samples of a request tile the time from its first drain to its last, for any
\* period: banking across drains that end no window loses and repeats nothing.
THEOREM WindowsTileTheRequest == Spec => []WindowsTile
<1>1. IInv => WindowsTile
  BY DEF IInv
<1> QED
  BY <1>1, Invariance, PTL

\* The off-CPU samples account for all the waiting up to the last window, short of a quantum
\* and of the ticks banked before the first drain, for any period and lengths of the waits.
THEOREM WaitsAreCounted == Spec => []NoWaitIsMissed
<1>1. IInv => NoWaitIsMissed
  BY WaitsFollow
<1> QED
  BY <1>1, Invariance, PTL

\* The I/O samples add up to what the instrumented calls of the request waited, and each has
\* such a call as its leaf, for any depth of the walk and any threshold.
THEOREM IoIsMeasured == Spec => []IoIsExact
<1>1. IInv => IoIsExact
  BY LeavesFollow
<1> QED
  BY <1>1, Invariance, PTL
===========================================================================
