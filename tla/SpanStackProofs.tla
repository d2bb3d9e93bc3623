-------------------------- MODULE SpanStackProofs --------------------------
(***************************************************************************)
(* The span stack stays in one trace, and every id that is announced is    *)
(* handed over once, for any number of requests, ids, spans and messages.  *)
(***************************************************************************)
EXTENDS SpanStackChecks, SequenceTheorems, TLAPS

\* The ids in use were handed out.
Numbered ==
  /\ \A r \in 1..Len(roots) : roots[r] <= minted
  /\ \A s \in open : s.id <= minted
  /\ \A m \in pending : m.header.id <= minted
  /\ \A r \in Requests : \A i \in batches[r] : i <= minted

InBatch(id) == \E r \in Requests : id \in batches[r]
IsRoot(id)  == \E r \in 1..Len(roots) : id = roots[r]

\* An id is a root's, an open span's, a reservation's or a recorded span's, and one only.
Distinct ==
  /\ \A q, r \in 1..Len(roots) : roots[q] = roots[r] => q = r
  /\ \A s, t \in open : s.id = t.id => s = t
  /\ \A s \in open : ~IsRoot(s.id) /\ ~InBatch(s.id)
  /\ \A m, n \in pending : m.reserved /\ n.reserved /\ m.header.id = n.header.id => m = n
  /\ \A m \in pending : m.reserved =>
       /\ ~IsRoot(m.header.id) /\ ~InBatch(m.header.id)
       /\ \A s \in open : s.id # m.header.id

\* A header without a reservation is a root's, or there is none.
OfRoot(header) == \E r \in 1..Len(roots) : header = Root(r)

Headers ==
  \A m \in pending : IF m.reserved THEN m.header # None ELSE m.header = None \/ OfRoot(m.header)

\* Where an announced id is.
Answered(id) ==
  IsRoot(id) \/ InBatch(id) \/ (\E s \in open : s.id = id) \/ id \in refused \cup unread

Announced == \A p \in wire : Answered(p.id)

Once ==
  /\ \A i \in again : IsRoot(i)
  /\ \A r \in 1..Len(roots) : roots[r] \notin batches[r]

Ledger == Numbered /\ Distinct /\ Headers /\ Announced /\ Once

\* Whose the entries of the stack are.
Standing(entry) == IsRoot(entry.id) \/ \E s \in open : ~s.detached /\ s.id = entry.id

Sound(where) ==
  /\ \A i \in 1..Len(where) : Standing(where[i])
  /\ \A i, j \in 1..Len(where) : where[i].id = where[j].id => i = j

Stacked == (told => request # 0) /\ Sound(stack)

IInv == TypeOK /\ Ledger /\ Stacked

\* What the invariant implies.
LEMMA IInvImplies ==
  ASSUME IInv
  PROVE  PromiseKept /\ OnlyOpenSpansAreParents
<1>1. \A id : /\ id \in RootIds <=> IsRoot(id)
              /\ id \in RecordedIds <=> InBatch(id)
              /\ id \in OpenIds <=> \E s \in open : s.id = id
  <2>1. roots \in Seq(Ids)
    BY DEF IInv, TypeOK
  <2>2. \A id : id \in RootIds <=> IsRoot(id)
    BY <2>1 DEF RootIds, Range, IsRoot
  <2> QED
    BY <2>2 DEF RecordedIds, InBatch, OpenIds
<1>2. PromiseKept
  BY <1>1 DEF IInv, Ledger, Announced, Answered, Once, PromiseKept, EveryIdOnce
<1>3. OnlyOpenSpansAreParents
  BY <1>1 DEF IInv, Stacked, Sound, Standing, OnlyOpenSpansAreParents, StackIds
<1> QED
  BY <1>2, <1>3
---------------------------------------------------------------------------
(* The operators *)

\* What the open request is called.
LEMMA RootTyped ==
  ASSUME TypeOK
  PROVE  /\ request # 0 => /\ Root(request) \in Entry /\ Root(request).of = request
                           /\ IsRoot(Root(request).id)
         /\ request # 0 => request \in Requests /\ request \in 1..Len(roots)
         /\ CanMint => minted + 1 \in Ids
  BY SpanStackAssumption DEF TypeOK, Root, Entry, Requests, Ids, IsRoot, CanMint

\* Seeding adds at most the root of the open request.
LEMMA SeededIs ==
  ASSUME TypeOK
  PROVE  /\ Seeded \in Seq(Entry)
         /\ \/ Seeded = stack
            \/ request # 0 /\ Seeded = <<Root(request)>> /\ Len(Seeded) = 1 /\ Seeded[1] = Root(request)
         /\ Seeded # <<>> => Top \in Entry /\ \E i \in 1..Len(Seeded) : Top = Seeded[i]
<1>1. CASE stack = <<>> /\ request # 0
  BY <1>1, RootTyped DEF Seeded, Top, Last
<1>2. CASE ~(stack = <<>> /\ request # 0)
  <2>1. Seeded = stack /\ stack \in Seq(Entry)
    BY <1>2 DEF Seeded, TypeOK
  <2>2. stack # <<>> => Len(stack) \in 1..Len(stack) /\ Top = stack[Len(stack)] /\ Top \in Entry
    BY <2>1 DEF Top, Last
  <2> QED
    BY <2>1, <2>2
<1> QED
  BY <1>1, <1>2

\* The seeded stack is as sound as the stack.
LEMMA SeededIsSound ==
  ASSUME TypeOK, Stacked
  PROVE  Sound(Seeded)
<1>1. request # 0 => Standing(Root(request))
  BY RootTyped DEF Standing
<1>2. CASE Seeded = stack
  BY <1>2 DEF Stacked
<1>3. CASE request # 0 /\ Len(Seeded) = 1 /\ Seeded[1] = Root(request)
  BY <1>1, <1>3 DEF Sound
<1> QED
  BY <1>2, <1>3, SeededIs

\* What is left of a sequence without its k-th element.
LEMMA RemoveAtIs ==
  ASSUME NEW S, NEW s \in Seq(S), NEW k \in 1..Len(s)
  PROVE  /\ RemoveAt(s, k) \in Seq(S) /\ Len(RemoveAt(s, k)) = Len(s) - 1
         /\ \A i \in 1..(Len(s) - 1) :
              RemoveAt(s, k)[i] = IF i < k THEN s[i] ELSE s[i + 1]
<1> DEFINE left == SubSeq(s, 1, k - 1)
           right == SubSeq(s, k + 1, Len(s))
<1>1. /\ left \in Seq(S) /\ Len(left) = k - 1
      /\ \A i \in 1..(k - 1) : left[i] = s[i]
  OBVIOUS
<1>2. /\ right \in Seq(S) /\ Len(right) = Len(s) - k
      /\ \A i \in 1..(Len(s) - k) : right[i] = s[k + i]
  OBVIOUS
<1>3. RemoveAt(s, k) = left \o right
  BY DEF RemoveAt
<1> HIDE DEF left, right
<1>4. left \o right \in Seq(S) /\ Len(left \o right) = Len(s) - 1
  <2>1. left \o right \in Seq(S) /\ Len(left \o right) = Len(left) + Len(right)
    BY <1>1, <1>2, ConcatProperties
  <2> QED
    BY <1>1, <1>2, <2>1
<1>5. ASSUME NEW i \in 1..(Len(s) - 1), i < k
      PROVE  (left \o right)[i] = s[i]
  BY <1>1, <1>2, <1>5
<1>6. ASSUME NEW i \in 1..(Len(s) - 1), ~(i < k)
      PROVE  (left \o right)[i] = s[i + 1]
  <2>1. (left \o right)[i] = right[i - (k - 1)]
    BY <1>1, <1>2, <1>6
  <2>2. i - (k - 1) \in 1..(Len(s) - k) /\ k + (i - (k - 1)) = i + 1
    BY <1>6
  <2> QED
    BY <1>2, <2>1, <2>2
<1>7. \A i \in 1..(Len(s) - 1) :
        (left \o right)[i] = IF i < k THEN s[i] ELSE s[i + 1]
  BY <1>5, <1>6
<1> QED
  BY <1>3, <1>4, <1>7

\* Without takes away an entry and adds none.
LEMMA WithoutIs ==
  ASSUME NEW where \in Seq(Entry), NEW id,
         \A i, j \in 1..Len(where) : where[i].id = id /\ where[j].id = id => i = j
  PROVE  /\ Without(where, id) \in Seq(Entry)
         /\ \A i \in 1..Len(Without(where, id)) :
              /\ Without(where, id)[i].id # id
              /\ \E j \in 1..Len(where) : Without(where, id)[i] = where[j]
         /\ (\A i, j \in 1..Len(where) : where[i].id = where[j].id => i = j) =>
              \A i, j \in 1..Len(Without(where, id)) :
                Without(where, id)[i].id = Without(where, id)[j].id => i = j
<1>1. CASE \A i \in DOMAIN where : where[i].id # id
  BY <1>1 DEF Without
<1>2. CASE \E i \in DOMAIN where : where[i].id = id
  <2>1. PICK k \in 1..Len(where) : where[k].id = id /\ Without(where, id) = RemoveAt(where, k)
    BY SMTT(60), <1>2 DEF Without
  <2>2. /\ RemoveAt(where, k) \in Seq(Entry) /\ Len(RemoveAt(where, k)) = Len(where) - 1
        /\ \A i \in 1..(Len(where) - 1) :
             RemoveAt(where, k)[i] = IF i < k THEN where[i] ELSE where[i + 1]
    BY RemoveAtIs
  <2> DEFINE rest == RemoveAt(where, k)
  <2>3. \A i \in 1..Len(rest) : \E j \in 1..Len(where) : j # k /\ rest[i] = where[j]
    <3> SUFFICES ASSUME NEW i \in 1..Len(rest)
                 PROVE  \E j \in 1..Len(where) : j # k /\ rest[i] = where[j]
      OBVIOUS
    <3>1. CASE i < k
      BY <2>2, <3>1
    <3>2. CASE ~(i < k)
      <4>1. i + 1 \in 1..Len(where) /\ i + 1 # k /\ rest[i] = where[i + 1]
        BY <2>2, <3>2
      <4> QED
        BY <4>1
    <3> QED
      BY <3>1, <3>2
  <2>4. ASSUME \A i, j \in 1..Len(where) : where[i].id = where[j].id => i = j,
               NEW i \in 1..Len(rest), NEW j \in 1..Len(rest), rest[i].id = rest[j].id
        PROVE  i = j
    <3>1. PICK p \in 1..Len(where) : p = (IF i < k THEN i ELSE i + 1) /\ rest[i] = where[p]
      BY <2>2
    <3>2. PICK q \in 1..Len(where) : q = (IF j < k THEN j ELSE j + 1) /\ rest[j] = where[q]
      BY <2>2
    <3>3. p = q
      BY <2>4, <3>1, <3>2
    <3> QED
      BY <3>1, <3>2, <3>3
  <2>5. \A i \in 1..Len(rest) : rest[i].id # id
    BY <2>1, <2>3
  <2> HIDE DEF rest
  <2>6. Without(where, id) = rest /\ rest \in Seq(Entry)
    BY <2>1, <2>2 DEF rest
  <2> QED
    BY <2>3, <2>4, <2>5, <2>6
<1> QED
  BY <1>1, <1>2

\* What is handed over under an id is in the batch of the open request, or refused.
LEMMA RecordIs ==
  ASSUME TypeOK, NEW id \in Ids, Record(id)
  PROVE  /\ batches' \in [Requests -> SUBSET Ids] /\ again' \subseteq Ids /\ refused' \subseteq Ids
         /\ \A r \in Requests : /\ batches[r] \subseteq batches'[r]
                                /\ batches'[r] \subseteq batches[r] \cup {id}
         /\ \A r \in Requests : batches'[r] # batches[r] => r = request
         /\ refused \subseteq refused'
         /\ id \in refused' \/ InBatch(id)'
         /\ again' = again \/ (InBatch(id) /\ again' = again \cup {id})
<1>1. CASE Keeps
  <2>1. request \in Requests
    BY <1>1, RootTyped DEF Keeps
  <2>2. /\ batches' = [batches EXCEPT ![request] = @ \cup {id}]
        /\ again' = IF \E r \in Requests : id \in batches[r] THEN again \cup {id} ELSE again
        /\ refused' = refused
    BY <1>1 DEF Record
  <2>3. batches \in [Requests -> SUBSET Ids] /\ again \subseteq Ids /\ refused \subseteq Ids
    BY DEF TypeOK
  <2>4. /\ batches' \in [Requests -> SUBSET Ids]
        /\ \A r \in Requests : batches'[r] = IF r = request THEN batches[r] \cup {id} ELSE batches[r]
    BY <2>1, <2>2, <2>3
  <2>5. again' = again \/ (InBatch(id) /\ again' = again \cup {id})
    BY <2>2 DEF InBatch
  <2>6. InBatch(id)'
    BY <2>1, <2>4 DEF InBatch
  <2>7. again' \subseteq Ids /\ refused' \subseteq Ids
    BY <2>2, <2>3
  <2>8. /\ \A r \in Requests : /\ batches[r] \subseteq batches'[r]
                               /\ batches'[r] \subseteq batches[r] \cup {id}
        /\ \A r \in Requests : batches'[r] # batches[r] => r = request
    BY <2>4
  <2> QED
    BY <2>2, <2>4, <2>5, <2>6, <2>7, <2>8
<1>2. CASE ~Keeps
  <2>1. UNCHANGED <<batches, again>> /\ refused' = refused \cup {id}
    BY <1>2 DEF Record
  <2>2. /\ batches' \in [Requests -> SUBSET Ids] /\ again' \subseteq Ids /\ refused' \subseteq Ids
        /\ id \in refused' /\ refused \subseteq refused'
    BY <2>1 DEF TypeOK
  <2>3. /\ \A r \in Requests : /\ batches[r] \subseteq batches'[r]
                               /\ batches'[r] \subseteq batches[r] \cup {id}
        /\ \A r \in Requests : batches'[r] # batches[r] => r = request
    BY <2>1
  <2> QED
    BY <2>1, <2>2, <2>3
<1> QED
  BY <1>1, <1>2

\* A new id is nobody's.
LEMMA MintedIsNew ==
  ASSUME TypeOK, Numbered, CanMint
  PROVE  /\ minted + 1 \in Ids /\ ~IsRoot(minted + 1) /\ ~InBatch(minted + 1)
         /\ \A s \in open : s.id # minted + 1
         /\ \A m \in pending : m.header.id # minted + 1
<1>1. /\ minted \in Nat /\ \A r \in 1..Len(roots) : roots[r] \in Nat
      /\ \A s \in open : s.id \in Nat
      /\ \A m \in pending : m.header.id \in Nat
      /\ \A r \in Requests : \A i \in batches[r] : i \in Nat
  BY SpanStackAssumption DEF TypeOK, Ids, Span, Message, Entry, None
<1>2. minted + 1 \in Ids
  BY RootTyped
<1> QED
  BY <1>1, <1>2 DEF Numbered, IsRoot, InBatch
---------------------------------------------------------------------------
(* The ledger of ids *)

\* A step that hands out nothing and records nothing.
LEMMA LedgerSame ==
  ASSUME Ledger, UNCHANGED <<roots, minted, open, pending, wire, batches, again, refused, unread>>
  PROVE  Ledger'
  BY DEF Ledger, Numbered, Distinct, Headers, OfRoot, Root, Announced, Answered,
        Once, IsRoot, InBatch

\* A request is opened: its root is new.
Opens ==
  /\ CanMint /\ Len(roots) < MaxRequests
  /\ minted' = minted + 1
  /\ roots' = Append(roots, minted + 1)

LEMMA LedgerOpens ==
  ASSUME TypeOK, Ledger, Opens,
         UNCHANGED <<open, pending, wire, batches, again, refused, unread>>
  PROVE  Ledger'
<1>1. /\ Len(roots') = Len(roots) + 1 /\ roots'[Len(roots) + 1] = minted + 1
      /\ \A r \in 1..Len(roots) : roots'[r] = roots[r]
      /\ Len(roots) \in Nat /\ minted \in Nat
  BY DEF TypeOK, Opens
<1>2. \A r \in 1..Len(roots') : r \in 1..Len(roots) \/ r = Len(roots) + 1
  BY <1>1
<1>3. \A id : IsRoot(id)' <=> IsRoot(id) \/ id = minted + 1
  BY <1>1, <1>2 DEF IsRoot
<1>4. \A id : InBatch(id)' <=> InBatch(id)
  BY DEF InBatch
<1>5. /\ ~IsRoot(minted + 1) /\ ~InBatch(minted + 1)
      /\ \A s \in open : s.id # minted + 1
      /\ \A m \in pending : m.header.id # minted + 1
  BY MintedIsNew DEF Ledger, Opens
<1>6. Numbered'
  <2>1. /\ \A r \in 1..Len(roots) : roots[r] \in Nat
        /\ \A s \in open : s.id \in Nat
        /\ \A m \in pending : m.header.id \in Nat
        /\ \A r \in Requests : \A i \in batches[r] : i \in Nat
    BY SpanStackAssumption DEF TypeOK, Ids, Span, Message, Entry, None
  <2> QED
    BY <1>1, <1>2, <2>1 DEF Ledger, Numbered, Opens
<1>7. Distinct'
  <2>1. \A q, r \in 1..Len(roots') : roots'[q] = roots'[r] => q = r
    BY <1>1, <1>2, <1>5 DEF Ledger, Distinct, IsRoot
  <2> QED
    BY <1>3, <1>4, <1>5, <2>1 DEF Ledger, Distinct
<1>8. Headers' /\ Announced'
  <2>1. \A h : OfRoot(h) => OfRoot(h)'
    BY <1>1, <1>2 DEF OfRoot, Root
  <2> QED
    BY <1>3, <1>4, <2>1 DEF Ledger, Headers, Announced, Answered
<1>9. Once'
  <2>1. \A r \in 1..Len(roots') : r \in Requests
    BY <1>1, SpanStackAssumption DEF Opens, Requests
  <2>2. \A r \in 1..Len(roots') : roots'[r] \notin batches[r]
    BY <1>1, <1>2, <1>5, <2>1 DEF Ledger, Once, InBatch
  <2> QED
    BY <1>3, <2>2 DEF Ledger, Once
<1> QED
  BY <1>6, <1>7, <1>8, <1>9 DEF Ledger

\* A span is opened under a new id, which may go on the wire at once.
LEMMA LedgerSpawns ==
  ASSUME TypeOK, Ledger, CanMint, minted' = minted + 1,
         NEW span \in Span, span.id = minted + 1, open' = open \cup {span},
         \A p \in wire' : p \in wire \/ p.id = minted + 1,
         UNCHANGED <<roots, pending, batches, again, refused, unread>>
  PROVE  Ledger'
<1>1. \A id : (IsRoot(id)' <=> IsRoot(id)) /\ (InBatch(id)' <=> InBatch(id))
  BY DEF IsRoot, InBatch
<1>2. /\ ~IsRoot(minted + 1) /\ ~InBatch(minted + 1)
      /\ \A s \in open : s.id # minted + 1
      /\ \A m \in pending : m.header.id # minted + 1
  BY MintedIsNew DEF Ledger
<1>3. Numbered'
  <2>1. /\ minted \in Nat
        /\ \A r \in 1..Len(roots) : roots[r] \in Nat
        /\ \A s \in open : s.id \in Nat
        /\ \A m \in pending : m.header.id \in Nat
        /\ \A r \in Requests : \A i \in batches[r] : i \in Nat
    BY SpanStackAssumption DEF TypeOK, Ids, Span, Message, Entry, None
  <2> QED
    BY <2>1 DEF Ledger, Numbered
<1>4. Distinct'
  BY <1>1, <1>2 DEF Ledger, Distinct
<1>5. Announced'
  BY <1>1 DEF Ledger, Announced, Answered
<1>6. Headers' /\ Once'
  BY <1>1 DEF Ledger, Headers, OfRoot, Root, Once
<1> QED
  BY <1>3, <1>4, <1>5, <1>6 DEF Ledger

\* A span is finished: its id moves from the open ones to the recorded.
LEMMA LedgerFinishes ==
  ASSUME TypeOK, Ledger, NEW span \in open, Finish(span)
  PROVE  Ledger'
<1>1. span.id \in Ids /\ Record(span.id) /\ open' = open \ {span}
      /\ UNCHANGED <<roots, minted, pending, wire, unread>>
  BY DEF Finish, TypeOK, Span
<1>2. /\ \A r \in Requests : /\ batches[r] \subseteq batches'[r]
                             /\ batches'[r] \subseteq batches[r] \cup {span.id}
      /\ refused \subseteq refused'
      /\ span.id \in refused' \/ InBatch(span.id)'
      /\ again' = again
  BY <1>1, RecordIs DEF Ledger, Distinct
<1>3. \A id : /\ IsRoot(id)' <=> IsRoot(id)
              /\ InBatch(id) => InBatch(id)'
              /\ InBatch(id)' => InBatch(id) \/ id = span.id
  BY <1>1, <1>2 DEF IsRoot, InBatch
<1>4. Numbered'
  <2>1. span.id <= minted
    BY DEF Ledger, Numbered
  <2> QED
    BY <1>1, <1>2, <2>1 DEF Ledger, Numbered
<1>5. Distinct'
  BY <1>1, <1>3 DEF Ledger, Distinct
<1>6. Announced'
  BY <1>1, <1>2, <1>3 DEF Ledger, Announced, Answered
<1>7. Headers'
  BY <1>1 DEF Ledger, Headers, OfRoot, Root
<1>8. Once'
  <2>1. \A r \in 1..Len(roots) : r \in Requests /\ roots[r] # span.id
    BY SpanStackAssumption DEF TypeOK, Requests, Ledger, Distinct, IsRoot
  <2>2. \A r \in 1..Len(roots) : roots[r] \notin batches'[r]
    BY <1>2, <2>1 DEF Ledger, Once
  <2> QED
    BY <1>1, <1>2, <1>3, <2>2 DEF Ledger, Once
<1> QED
  BY <1>4, <1>5, <1>6, <1>7, <1>8 DEF Ledger

\* A message is stamped with a reservation: its id is new.
LEMMA LedgerReserves ==
  ASSUME TypeOK, Ledger, CanMint, minted' = minted + 1,
         NEW m \in Message, m.reserved, m.header # None, m.header.id = minted + 1,
         pending' = pending \cup {m},
         UNCHANGED <<roots, open, wire, batches, again, refused, unread>>
  PROVE  Ledger'
<1>1. \A id : (IsRoot(id)' <=> IsRoot(id)) /\ (InBatch(id)' <=> InBatch(id))
  BY DEF IsRoot, InBatch
<1>2. /\ ~IsRoot(minted + 1) /\ ~InBatch(minted + 1)
      /\ \A s \in open : s.id # minted + 1
      /\ \A n \in pending : n.header.id # minted + 1
  BY MintedIsNew DEF Ledger
<1>3. Numbered'
  <2>1. /\ minted \in Nat
        /\ \A r \in 1..Len(roots) : roots[r] \in Nat
        /\ \A s \in open : s.id \in Nat
        /\ \A n \in pending : n.header.id \in Nat
        /\ \A r \in Requests : \A i \in batches[r] : i \in Nat
    BY SMTT(60), SpanStackAssumption DEF TypeOK, Ids, Span, Message, Entry, None
  <2> QED
    BY <2>1 DEF Ledger, Numbered
<1>4. Distinct'
  BY <1>1, <1>2 DEF Ledger, Distinct
<1>5. Announced' /\ Headers' /\ Once'
  BY <1>1 DEF Ledger, Announced, Answered, Headers, OfRoot, Root, Once
<1> QED
  BY <1>3, <1>4, <1>5 DEF Ledger

\* A message is stamped with the root's header, or with none.
LEMMA LedgerStampsRoot ==
  ASSUME TypeOK, Ledger, minted' = minted,
         NEW m \in Message, ~m.reserved, pending' = pending \cup {m},
         m.header = None \/ (OfRoot(m.header) /\ m.header.id <= minted),
         UNCHANGED <<roots, open, wire, batches, again, refused, unread>>
  PROVE  Ledger'
<1>1. \A id : (IsRoot(id)' <=> IsRoot(id)) /\ (InBatch(id)' <=> InBatch(id))
  BY DEF IsRoot, InBatch
<1>2. Numbered'
  <2>1. m.header.id <= minted
    BY DEF TypeOK, None
  <2> QED
    BY <2>1 DEF Ledger, Numbered
<1>3. Distinct'
  BY <1>1 DEF Ledger, Distinct
<1>4. Announced' /\ Headers' /\ Once'
  BY <1>1 DEF Ledger, Announced, Answered, Headers, OfRoot, Root, Once
<1> QED
  BY <1>2, <1>3, <1>4 DEF Ledger

\* A message that nobody took is forgotten.
LEMMA LedgerForgets ==
  ASSUME Ledger, NEW m \in pending, SendFails(m)
  PROVE  Ledger'
<1>1. \A id : (IsRoot(id)' <=> IsRoot(id)) /\ (InBatch(id)' <=> InBatch(id))
  BY DEF IsRoot, InBatch, SendFails
<1> QED
  BY <1>1 DEF SendFails, Ledger, Numbered, Distinct, Announced, Answered,
        Headers, OfRoot, Root, Once

\* A root's header has a root's id.
LEMMA RootIsRoot == \A h : OfRoot(h) => IsRoot(h.id)
  BY DEF OfRoot, Root, IsRoot

\* What a message that is sent tells: its header, and the span recorded for it, which is
\* the header's, a new one or none.
Tells(m, id) ==
  /\ pending' = pending \ {m}
  /\ \A p \in wire' : p \in wire \/ (p.id = m.header.id /\ m.header # None)
  /\ unread \subseteq unread'
  /\ \/ minted' = minted /\ id = m.header.id /\ m.header # None
        /\ \A r \in 1..Len(roots) : r = request => roots[r] # id
     \/ CanMint /\ minted' = minted + 1 /\ id = minted + 1
  /\ id # m.header.id => m.header = None \/ m.header.id \in unread' \/ IsRoot(m.header.id)
  /\ Record(id)
  /\ UNCHANGED <<roots, open>>

LEMMA LedgerTells ==
  ASSUME TypeOK, Ledger, NEW m \in pending, NEW id \in Ids, Tells(m, id)
  PROVE  Ledger'
<1>1. /\ \A r \in Requests : /\ batches[r] \subseteq batches'[r]
                             /\ batches'[r] \subseteq batches[r] \cup {id}
      /\ \A r \in Requests : batches'[r] # batches[r] => r = request
      /\ refused \subseteq refused'
      /\ id \in refused' \/ InBatch(id)'
      /\ again' = again \/ (InBatch(id) /\ again' = again \cup {id})
  BY RecordIs DEF Tells
<1>2. \A x : /\ IsRoot(x)' <=> IsRoot(x)
             /\ InBatch(x) => InBatch(x)'
             /\ InBatch(x)' => InBatch(x) \/ x = id
  BY <1>1 DEF IsRoot, InBatch, Tells
<1>3. CanMint => /\ ~IsRoot(minted + 1) /\ ~InBatch(minted + 1)
                 /\ \A s \in open : s.id # minted + 1
                 /\ \A n \in pending : n.header.id # minted + 1
  BY MintedIsNew DEF Ledger
<1>4. m.header # None /\ id = m.header.id =>
        IF m.reserved THEN ~IsRoot(id) /\ ~InBatch(id) ELSE IsRoot(id)
  BY RootIsRoot DEF Ledger, Distinct, Headers
<1>5. \/ minted' = minted /\ id <= minted
      \/ minted' = minted + 1 /\ id = minted + 1 /\ CanMint
  BY DEF Tells, Ledger, Numbered
<1>6. Numbered'
  <2>1. /\ minted \in Nat
        /\ \A r \in 1..Len(roots) : roots[r] \in Nat
        /\ \A s \in open : s.id \in Nat
        /\ \A n \in pending : n.header.id \in Nat
        /\ \A r \in Requests : \A i \in batches[r] : i \in Nat
    BY SMTT(60), SpanStackAssumption DEF TypeOK, Ids, Span, Message, Entry, None
  <2>2. minted' \in Nat /\ minted <= minted' /\ id <= minted'
    BY <1>5, <2>1
  <2>3. \A r \in Requests : \A i \in batches'[r] : i <= minted'
    BY <1>1, <2>1, <2>2 DEF Ledger, Numbered
  <2>4. UNCHANGED <<roots, open>> /\ pending' \subseteq pending
    BY DEF Tells
  <2> QED
    BY <2>1, <2>2, <2>3, <2>4 DEF Ledger, Numbered
<1>7. Distinct'
  <2>1. UNCHANGED <<roots, open>> /\ pending' = pending \ {m}
    BY DEF Tells
  <2>2. \A s \in open : s.id # id
    <3>1. CASE id = m.header.id /\ m.header # None
      BY <1>4, <3>1 DEF Ledger, Distinct
    <3>2. CASE CanMint /\ id = minted + 1
      BY <1>3, <3>2
    <3> QED
      BY <3>1, <3>2 DEF Tells
  <2>3. \A n \in pending' : n.reserved => n.header.id # id
    <3>1. CASE id = m.header.id /\ m.header # None
      BY <1>4, <2>1, <3>1 DEF Ledger, Distinct
    <3>2. CASE CanMint /\ id = minted + 1
      BY <1>3, <2>1, <3>2
    <3> QED
      BY <3>1, <3>2 DEF Tells
  <2> QED
    BY <1>2, <2>1, <2>2, <2>3 DEF Ledger, Distinct
<1>8. Headers'
  BY DEF Ledger, Headers, OfRoot, Root, Tells
<1>9. Announced'
  <2>1. \A x : Answered(x) => Answered(x)'
    BY <1>1, <1>2 DEF Answered, Tells
  <2>2. m.header # None => Answered(m.header.id)'
    BY <1>1, <1>2 DEF Answered, Tells
  <2> QED
    BY <2>1, <2>2 DEF Ledger, Announced, Tells
<1>10. Once'
  <2>1. \A i \in again' : IsRoot(i)
    <3>1. InBatch(id) => IsRoot(id)
      BY <1>3, <1>4 DEF Tells
    <3> QED
      BY <1>1, <3>1 DEF Ledger, Once
  <2>2. \A r \in 1..Len(roots) : roots[r] \notin batches'[r]
    <3>1. \A r \in 1..Len(roots) : r \in Requests /\ (r = request => roots[r] # id)
      BY <1>3, SpanStackAssumption DEF TypeOK, Requests, Tells, IsRoot
    <3> QED
      BY <1>1, <3>1 DEF Ledger, Once
  <2> QED
    BY <1>2, <2>1, <2>2 DEF Once, Tells
<1> QED
  BY <1>6, <1>7, <1>8, <1>9, <1>10 DEF Ledger

\* A message is sent and no span is recorded for it.
LEMMA LedgerUndescribed ==
  ASSUME Ledger, NEW m \in pending, pending' = pending \ {m},
         \A p \in wire' : p \in wire \/ (p.id = m.header.id /\ m.header # None),
         m.header = None \/ m.header.id \in unread' \/ IsRoot(m.header.id),
         unread \subseteq unread',
         UNCHANGED <<roots, minted, open, batches, again, refused>>
  PROVE  Ledger'
<1>1. \A id : (IsRoot(id)' <=> IsRoot(id)) /\ (InBatch(id)' <=> InBatch(id))
  BY DEF IsRoot, InBatch
<1>2. Announced'
  BY <1>1 DEF Ledger, Announced, Answered
<1>3. Numbered' /\ Distinct' /\ Headers' /\ Once'
  BY <1>1 DEF Ledger, Numbered, Distinct, Headers, OfRoot, Root, Once
<1> QED
  BY <1>2, <1>3 DEF Ledger

\* What is read back of a message is a header, and not the open request's root.
LEMMA RecoversReserved ==
  ASSUME TypeOK, Ledger, NEW m \in pending
  PROVE  /\ Recovers(m) => /\ m.header # None
                           /\ \A r \in 1..Len(roots) : r = request => roots[r] # m.header.id
         /\ ~Recovers(m) => m.header = None \/ IsRoot(m.header.id)
<1>1. /\ m.reserved => m.header # None /\ ~IsRoot(m.header.id)
      /\ ~m.reserved => m.header = None \/ OfRoot(m.header)
  BY DEF Ledger, Headers, Distinct
<1>2. m.by \in {"held", "payload"}
  BY DEF TypeOK, Message, Bridges
<1>3. CASE m.by = "held"
  <2>1. Recovers(m) <=> m.reserved
    BY <1>3 DEF Recovers
  <2>2. m.reserved => \A r \in 1..Len(roots) : roots[r] # m.header.id
    BY <1>1 DEF IsRoot
  <2>3. ~m.reserved => m.header = None \/ IsRoot(m.header.id)
    BY <1>1, RootIsRoot
  <2> QED
    BY <1>1, <2>1, <2>2, <2>3
<1>4. CASE m.by = "payload"
  <2>1. Recovers(m) <=> m.header # None /\ ~(request # 0 /\ m.header = Root(request))
    BY <1>4 DEF Recovers
  <2>2. request # 0 => request \in 1..Len(roots)
    BY RootTyped
  <2>3. ~Recovers(m) => m.header = None \/ IsRoot(m.header.id)
    BY <2>1, <2>2 DEF Root, IsRoot
  <2>4. ASSUME Recovers(m), NEW r \in 1..Len(roots), r = request, roots[r] = m.header.id
        PROVE  FALSE
    <3>1. OfRoot(m.header)
      BY <1>1, <2>1, <2>4 DEF IsRoot
    <3>2. PICK q \in 1..Len(roots) : m.header = Root(q)
      BY <3>1 DEF OfRoot
    <3>3. q = r
      BY <2>4, <3>2 DEF Root, Ledger, Distinct
    <3>4. request # 0
      BY <2>4
    <3> QED
      BY <2>1, <2>4, <3>2, <3>3, <3>4
  <2> QED
    BY <2>1, <2>3, <2>4
<1> QED
  BY <1>2, <1>3, <1>4

\* Sending.
LEMMA LedgerSends ==
  ASSUME TypeOK, Ledger, NEW m \in pending, NEW readable \in BOOLEAN, Send(m, readable)
  PROVE  Ledger'
<1>1. /\ pending' = pending \ {m} /\ UNCHANGED <<roots, open>> /\ unread \subseteq unread'
      /\ readable => unread' = unread
      /\ ~readable => m.by = "payload" /\ (m.header # None => m.header.id \in unread')
      /\ \A p \in wire' : p \in wire \/ (p.id = m.header.id /\ m.header # None)
      /\ Describe(m, readable)
  BY DEF Send
<1>2. m.header # None => m.header.id \in Ids
  BY DEF TypeOK, Message, Entry
<1>3. CASE readable /\ Recovers(m)
  <2>1. Record(m.header.id) /\ minted' = minted
    BY <1>1, <1>3 DEF Describe
  <2>2. m.header # None
    BY <1>3, RecoversReserved
  <2>3. \A r \in 1..Len(roots) : r = request => roots[r] # m.header.id
    BY <1>3, RecoversReserved
  <2> QED
    BY <1>1, <1>2, <2>1, <2>2, <2>3, LedgerTells DEF Tells
<1>4. CASE ~(readable /\ Recovers(m))
  <2>1. m.header = None \/ m.header.id \in unread' \/ IsRoot(m.header.id)
    BY <1>1, <1>4, RecoversReserved
  <2>2. CASE HasRoom
    <3>1. CanMint /\ minted' = minted + 1 /\ Record(minted + 1)
      BY <1>1, <1>4, <2>2 DEF Describe
    <3>2. minted + 1 \in Ids
      BY <3>1, RootTyped
    <3> QED
      BY <1>1, <2>1, <3>1, <3>2, LedgerTells DEF Tells
  <2>3. CASE ~HasRoom
    <3>1. UNCHANGED <<minted, batches, again, refused>>
      BY <1>1, <1>4, <2>3 DEF Describe, Unrecorded
    <3> QED
      BY <1>1, <2>1, <3>1, LedgerUndescribed
  <2> QED
    BY <2>2, <2>3
<1> QED
  BY <1>3, <1>4
---------------------------------------------------------------------------
(* The stack *)

\* Entries stand as long as nothing is taken from the request, the roots and the open spans.
Stays ==
  /\ UNCHANGED <<told, request>>
  /\ \A id : IsRoot(id) => IsRoot(id)'
  /\ open \subseteq open'

LEMMA SoundStays ==
  ASSUME Stays, NEW where, Sound(where)
  PROVE  \A i \in 1..Len(where) : Standing(where[i])'
  BY DEF Stays, Sound, Standing

LEMMA StackedSeeds ==
  ASSUME TypeOK, Stacked, Stays, stack' \in {stack, Seeded}
  PROVE  Stacked' /\ stack' \in Seq(Entry)
<1>1. PICK where \in {stack, Seeded} : stack' = where
  OBVIOUS
<1>2. Sound(where) /\ where \in Seq(Entry)
  BY <1>1, SeededIsSound, SeededIs DEF Stacked, TypeOK
<1>3. \A i \in 1..Len(where) : Standing(where[i])'
  BY <1>2, SoundStays
<1> QED
  BY <1>1, <1>2, <1>3 DEF Stacked, Sound, Stays

\* A new span on top of what is sound.
LEMMA StackedPushes ==
  ASSUME TypeOK, Ledger, Stacked, Stays,
         NEW where \in Seq(Entry), Sound(where), NEW e \in Entry,
         e.id = minted + 1, CanMint,
         stack' = Append(where, e),
         \E s \in open' : ~s.detached /\ s.id = e.id
  PROVE  Stacked' /\ stack' \in Seq(Entry)
<1>1. /\ Len(stack') = Len(where) + 1 /\ stack'[Len(where) + 1] = e /\ Len(where) \in Nat
      /\ \A i \in 1..Len(where) : stack'[i] = where[i]
      /\ stack' \in Seq(Entry)
  OBVIOUS
<1>2. \A i \in 1..Len(stack') : i \in 1..Len(where) \/ i = Len(where) + 1
  BY <1>1
<1>3. \A i \in 1..Len(where) : Standing(where[i])'
  BY SoundStays
<1>4. Standing(e)'
  BY DEF Standing, Stays
<1>5. \A i \in 1..Len(where) : where[i].id # e.id
  BY MintedIsNew DEF Sound, Standing, Ledger
<1>6. Sound(stack)'
  <2>1. \A i \in 1..Len(stack') : Standing(stack[i])'
    BY <1>1, <1>2, <1>3, <1>4
  <2>2. \A i, j \in 1..Len(stack') : stack'[i].id = stack'[j].id => i = j
    BY <1>1, <1>2, <1>5 DEF Sound
  <2> QED
    BY <2>1, <2>2 DEF Sound
<1> QED
  BY <1>1, <1>6 DEF Stacked, Stays

\* A finished span leaves the stack, wherever it is.
LEMMA StackedFinishes ==
  ASSUME TypeOK, Ledger, Stacked, NEW span \in open, Finish(span)
  PROVE  Stacked' /\ stack' \in Seq(Entry)
<1>1. /\ stack' = Without(stack, span.id) /\ open' = open \ {span}
      /\ UNCHANGED <<request, roots, told>>
  BY DEF Finish
<1>2. /\ stack' \in Seq(Entry)
      /\ \A i \in 1..Len(stack') : /\ stack'[i].id # span.id
                                   /\ \E j \in 1..Len(stack) : stack'[i] = stack[j]
      /\ \A i, j \in 1..Len(stack') : stack'[i].id = stack'[j].id => i = j
  <2>1. /\ stack \in Seq(Entry)
        /\ \A i, j \in 1..Len(stack) : stack[i].id = stack[j].id => i = j
    BY DEF Stacked, Sound, TypeOK
  <2>2. \A i, j \in 1..Len(stack) : stack[i].id = span.id /\ stack[j].id = span.id => i = j
    BY <2>1
  <2> QED
    BY <1>1, <2>1, <2>2, WithoutIs
<1>3. \A i \in 1..Len(stack') : Standing(stack[i])'
  BY <1>1, <1>2 DEF Stacked, Sound, Standing, IsRoot
<1> QED
  BY <1>1, <1>2, <1>3 DEF Stacked, Sound
---------------------------------------------------------------------------
(* The steps *)

LEMMA InitHolds == Init => IInv
<1> SUFFICES ASSUME Init PROVE IInv
  OBVIOUS
<1>1. TypeOK
  <2>1. /\ MaxIds \in Nat /\ MaxRequests \in Nat
        /\ roots = <<>> /\ stack = <<>> /\ request = 0 /\ minted = 0 /\ told = FALSE
    BY SpanStackAssumption DEF Init
  <2>2. /\ roots \in Seq(Ids) /\ Len(roots) = 0 /\ stack \in Seq(Entry)
    BY <2>1
  <2>3. batches \in [Requests -> SUBSET Ids]
    BY DEF Init
  <2>4. handles = {} /\ guests = {} /\ open = {} /\ pending = {} /\ wire = {} /\ again = {}
        /\ refused = {} /\ unread = {}
    BY DEF Init
  <2>5. /\ minted \in 0..MaxIds /\ told \in BOOLEAN
        /\ Len(roots) <= MaxRequests /\ request \in 0..Len(roots)
    <3>1. told \in BOOLEAN
      BY <2>1
    <3>2. 0 \in 0..MaxIds /\ 0 <= MaxRequests /\ 0 \in 0..0
      BY <2>1
    <3> QED
      BY <2>1, <2>2, <3>1, <3>2
  <2>6. /\ handles \subseteq Entry /\ guests \subseteq Ids
        /\ open \subseteq Span /\ pending \subseteq Message /\ wire \subseteq Promise
        /\ again \subseteq Ids /\ refused \subseteq Ids /\ unread \subseteq Ids
    BY <2>4
  <2> QED
    BY <2>2, <2>3, <2>5, <2>6 DEF TypeOK
<1>2. Ledger /\ Stacked
  BY DEF Init, Ledger, Numbered, Distinct, Headers, Announced, Once, InBatch, IsRoot, Stacked, Sound
<1> QED
  BY <1>1, <1>2 DEF IInv

\* A span is opened below any other: on top of the stack, or detached.
LEMMA SpawnHolds ==
  ASSUME IInv, NEW where \in {stack, Seeded}, NEW parent \in Entry, NEW isDetached \in BOOLEAN,
         Spawn(parent, where, isDetached),
         wire' \subseteq Promise, \A p \in wire' : p \in wire \/ p.id = minted + 1,
         UNCHANGED <<request, roots, told, pending, batches, again, refused, unread>>
  PROVE  IInv'
<1>1. TypeOK /\ Ledger /\ Stacked
  BY DEF IInv
<1>2. where \in Seq(Entry) /\ Sound(where)
  BY <1>1, SeededIs, SeededIsSound DEF TypeOK, Stacked
<1>3. parent.of \in Requests
  BY DEF Entry
<1>4. CanMint /\ minted' = minted + 1 /\ minted + 1 \in Ids
  BY <1>1, RootTyped DEF Spawn
<1>5. PICK e \in Entry : e = [of |-> parent.of, id |-> minted + 1]
  BY <1>3, <1>4 DEF Entry
<1>6. PICK span \in Span : span = [of |-> parent.of, id |-> minted + 1, detached |-> isDetached]
  BY <1>3, <1>4 DEF Span
<1>7. /\ open' = open \cup {span} /\ span.id = minted + 1 /\ (span.detached <=> isDetached)
      /\ stack' = IF isDetached THEN where ELSE Append(where, e)
      /\ e.id = minted + 1 /\ e.of = parent.of
  BY <1>5, <1>6 DEF Spawn
<1>8. Ledger'
  BY <1>1, <1>4, <1>7, LedgerSpawns
<1>9. Stays
  BY <1>7 DEF Stays, IsRoot
<1>10. Stacked' /\ stack' \in Seq(Entry)
  <2>1. CASE isDetached
    BY <1>1, <1>7, <1>9, <2>1, StackedSeeds
  <2>2. CASE ~isDetached
    BY <1>1, <1>2, <1>4, <1>7, <1>9, <2>2, StackedPushes
  <2> QED
    BY <2>1, <2>2
<1>11. handles' \subseteq Entry /\ guests' \subseteq Ids
  <2>1. handles' = handles \cup {e} /\ (guests' = guests \/ guests' = guests \cup {minted + 1})
    BY <1>5, <1>7 DEF Spawn
  <2> QED
    BY <1>1, <1>4, <2>1 DEF TypeOK
<1>12. TypeOK'
  <2>1. minted' \in 0..MaxIds
    BY <1>1, <1>4, SpanStackAssumption DEF TypeOK, CanMint
  <2> QED
    BY <1>1, <1>7, <1>10, <1>11, <2>1 DEF TypeOK
<1> QED
  BY <1>8, <1>10, <1>12 DEF IInv

\* A request is opened, and the stack is kept or cleared.
LEMMA OpensHolds ==
  ASSUME IInv, request = 0, Opens, request' = Len(roots) + 1,
         stack' = <<>> \/ (stack' = stack /\ ~told'), told' \in BOOLEAN,
         handles' = handles, guests' \subseteq guests,
         UNCHANGED <<open, pending, wire, batches, again, refused, unread>>
  PROVE  IInv'
<1>1. TypeOK /\ Ledger /\ Stacked
  BY DEF IInv
<1>2. Ledger'
  BY <1>1, LedgerOpens
<1>3. minted + 1 \in Ids
  BY <1>1, RootTyped DEF Opens
<1>4. /\ roots' \in Seq(Ids) /\ Len(roots') = Len(roots) + 1 /\ Len(roots) \in Nat
      /\ \A r \in 1..Len(roots) : roots'[r] = roots[r]
  BY <1>1, <1>3 DEF TypeOK, Opens
<1>5. TypeOK'
  <2>1. minted' \in 0..MaxIds
    BY <1>1, SpanStackAssumption DEF TypeOK, Opens, CanMint
  <2>2. Len(roots') <= MaxRequests /\ request' \in 0..Len(roots')
    BY <1>4, SpanStackAssumption DEF Opens
  <2>3. stack' \in Seq(Entry)
    <3>1. stack \in Seq(Entry) /\ <<>> \in Seq(Entry)
      BY <1>1 DEF TypeOK
    <3> QED
      BY <3>1
  <2> QED
    BY <1>1, <1>4, <2>1, <2>2, <2>3 DEF TypeOK
<1>6. \A id : IsRoot(id) => IsRoot(id)'
  BY <1>4 DEF IsRoot
<1>7. Stacked'
  <2>1. told' => request' # 0
    BY <1>4
  <2>2. CASE stack' = <<>>
    BY <2>1, <2>2 DEF Stacked, Sound
  <2>3. CASE stack' = stack /\ ~told'
    BY <1>1, <1>6, <2>1, <2>3 DEF Stacked, Sound, Standing
  <2> QED
    BY <2>2, <2>3
<1> QED
  BY <1>2, <1>5, <1>7 DEF IInv

\* A request that is over, or that a bridge finds open: the stack is kept or cleared.
LEMMA TurnsHolds ==
  ASSUME IInv,
         \/ request' = 0 /\ told' = FALSE /\ stack' = stack
         \/ request' = request /\ request # 0 /\ told' = TRUE /\ stack' = <<>>
         \/ UNCHANGED <<request, told>> /\ stack' \in {stack, Seeded},
         handles' \subseteq Entry, guests' \subseteq guests,
         UNCHANGED <<roots, minted, open, pending, wire, batches, again, refused, unread>>
  PROVE  IInv'
<1>1. TypeOK /\ Ledger /\ Stacked
  BY DEF IInv
<1>2. Ledger'
  BY <1>1, LedgerSame
<1>3. Stacked' /\ stack' \in Seq(Entry)
  <2>1. CASE request' = 0 /\ told' = FALSE /\ stack' = stack
    BY <1>1, <2>1 DEF TypeOK, Stacked, Sound, Standing, IsRoot
  <2>2. CASE request' = request /\ request # 0 /\ told' = TRUE /\ stack' = <<>>
    <3>1. <<>> \in Seq(Entry) /\ Len(<<>>) = 0
      OBVIOUS
    <3> QED
      BY <2>2, <3>1 DEF Stacked, Sound
  <2>3. CASE UNCHANGED <<request, told>> /\ stack' \in {stack, Seeded}
    <3>1. Stays
      BY <2>3 DEF Stays, IsRoot
    <3> QED
      BY <1>1, <2>3, <3>1, StackedSeeds
  <2> QED
    BY <2>1, <2>2, <2>3
<1>4. request' \in 0..Len(roots) /\ told' \in BOOLEAN
  <2>1. request \in 0..Len(roots) /\ 0 \in 0..Len(roots) /\ told \in BOOLEAN
    BY <1>1 DEF TypeOK
  <2>2. request' = 0 \/ request' = request
    OBVIOUS
  <2>3. told' = FALSE \/ told' = TRUE \/ told' = told
    OBVIOUS
  <2> QED
    BY <2>1, <2>2, <2>3
<1>5. TypeOK'
  BY <1>1, <1>3, <1>4 DEF TypeOK
<1> QED
  BY <1>2, <1>3, <1>5 DEF IInv

LEMMA FinishHolds ==
  ASSUME IInv, NEW span \in open, Finish(span)
  PROVE  IInv'
<1>1. TypeOK /\ Ledger /\ Stacked
  BY DEF IInv
<1>2. span.id \in Ids /\ Record(span.id)
  BY <1>1 DEF TypeOK, Span, Finish
<1>3. /\ batches' \in [Requests -> SUBSET Ids] /\ again' \subseteq Ids /\ refused' \subseteq Ids
  BY <1>1, <1>2, RecordIs
<1>4. Ledger' /\ Stacked' /\ stack' \in Seq(Entry)
  BY <1>1, LedgerFinishes, StackedFinishes
<1>5. TypeOK'
  BY <1>1, <1>3, <1>4 DEF TypeOK, Finish
<1> QED
  BY <1>4, <1>5 DEF IInv

LEMMA StampHolds ==
  ASSUME IInv, NEW by \in Bridges, Stamp(by)
  PROVE  IInv'
<1>1. TypeOK /\ Ledger /\ Stacked
  BY DEF IInv
<1>2. /\ stack' = Seeded
      /\ UNCHANGED <<request, roots, told, handles, guests, open, wire, batches, again, refused,
                     unread>>
  BY DEF Stamp
<1>3. Stacked' /\ stack' \in Seq(Entry)
  <2>1. Stays
    BY <1>2 DEF Stays, IsRoot
  <2> QED
    BY <1>1, <1>2, <2>1, StackedSeeds
<1>4. request \in 0..MaxRequests
  BY <1>1, SpanStackAssumption DEF TypeOK
<1>5. CASE HasRoom
  <2>1. Top \in Entry /\ CanMint /\ minted' = minted + 1 /\ minted + 1 \in Ids
    BY <1>1, <1>5, SeededIs, RootTyped DEF HasRoom, Stamp
  <2>2. PICK h \in Entry : h = [of |-> Top.of, id |-> minted + 1]
    BY <2>1 DEF Entry
  <2>3. PICK m \in Message :
          m = [by |-> by, header |-> h, reserved |-> TRUE, madeIn |-> request]
    BY <1>4 DEF Message
  <2>4. m.reserved /\ m.header = h /\ h.id = minted + 1 /\ pending' = pending \cup {m}
    BY <1>5, <2>2, <2>3 DEF Stamp
  <2>5. m.header # None
    BY <2>1, <2>4, SpanStackAssumption DEF None, Ids
  <2>6. Ledger'
    BY <1>1, <1>2, <2>1, <2>4, <2>5, LedgerReserves
  <2>7. minted' \in 0..MaxIds
    BY <1>1, <2>1, SpanStackAssumption DEF TypeOK, CanMint
  <2>8. TypeOK'
    BY <1>1, <1>2, <1>3, <2>4, <2>7 DEF TypeOK
  <2> QED
    BY <1>3, <2>6, <2>8 DEF IInv
<1>6. CASE ~HasRoom
  <2>1. PICK h \in Entry \cup {None} : h = (IF request # 0 THEN Root(request) ELSE None)
    BY <1>1, RootTyped
  <2>2. PICK m \in Message :
          m = [by |-> by, header |-> h, reserved |-> FALSE, madeIn |-> request]
    BY <1>4 DEF Message
  <2>3. ~m.reserved /\ m.header = h /\ pending' = pending \cup {m} /\ minted' = minted
    BY <1>6, <2>1, <2>2 DEF Stamp
  <2>4. h = None \/ (OfRoot(h) /\ h.id <= minted)
    BY <1>1, <2>1, RootTyped DEF OfRoot, Root, Ledger, Numbered
  <2>5. Ledger'
    BY <1>1, <1>2, <2>3, <2>4, LedgerStampsRoot
  <2>6. TypeOK'
    BY <1>1, <1>2, <1>3, <2>3 DEF TypeOK
  <2> QED
    BY <1>3, <2>5, <2>6 DEF IInv
<1> QED
  BY <1>5, <1>6

LEMMA SendHolds ==
  ASSUME IInv, NEW m \in pending, NEW readable \in BOOLEAN, Send(m, readable)
  PROVE  IInv'
<1>1. TypeOK /\ Ledger /\ Stacked
  BY DEF IInv
<1>2. Ledger'
  BY <1>1, LedgerSends
<1>3. /\ stack' = Seeded /\ pending' = pending \ {m}
      /\ UNCHANGED <<request, roots, told, handles, guests, open>>
      /\ Describe(m, readable)
  BY DEF Send
<1>4. Stacked' /\ stack' \in Seq(Entry)
  <2>1. Stays
    BY <1>3 DEF Stays, IsRoot
  <2> QED
    BY <1>1, <1>3, <2>1, StackedSeeds
<1>5. m.header # None => m.header \in Entry /\ m.header.id \in Ids /\ m.header.of \in Requests
  BY <1>1 DEF TypeOK, Message, Entry
<1>6. m.madeIn \in 0..MaxRequests
  BY <1>1 DEF TypeOK, Message
<1>7. wire' \subseteq Promise /\ unread' \subseteq Ids
  <2>1. CASE m.header = None
    BY <1>1, <2>1 DEF Send, TypeOK
  <2>2. CASE m.header # None
    <3>1. [of |-> m.header.of, id |-> m.header.id, madeIn |-> m.madeIn] \in Promise
      BY <1>5, <1>6, <2>2 DEF Promise
    <3>2. wire' = wire \cup {[of |-> m.header.of, id |-> m.header.id, madeIn |-> m.madeIn]}
      BY <2>2 DEF Send
    <3>3. unread' = unread \/ unread' = unread \cup {m.header.id}
      BY <2>2 DEF Send
    <3> QED
      BY <1>1, <1>5, <2>2, <3>1, <3>2, <3>3 DEF TypeOK
  <2> QED
    BY <2>1, <2>2
<1>8. /\ minted' \in 0..MaxIds
      /\ batches' \in [Requests -> SUBSET Ids] /\ again' \subseteq Ids /\ refused' \subseteq Ids
  <2>1. CASE readable /\ Recovers(m)
    <3>1. Record(m.header.id) /\ minted' = minted
      BY <1>3, <2>1 DEF Describe
    <3>2. m.header.id \in Ids
      BY <1>1, <1>5, <2>1, RecoversReserved
    <3> QED
      BY <1>1, <3>1, <3>2, RecordIs DEF TypeOK
  <2>2. CASE ~(readable /\ Recovers(m)) /\ HasRoom
    <3>1. CanMint /\ Record(minted + 1) /\ minted' = minted + 1
      BY <1>3, <2>2 DEF Describe
    <3>2. minted + 1 \in Ids
      BY <1>1, <3>1, RootTyped
    <3>3. minted' \in 0..MaxIds
      BY <1>1, <3>1, SpanStackAssumption DEF TypeOK, CanMint
    <3> QED
      BY <1>1, <3>1, <3>2, <3>3, RecordIs
  <2>3. CASE ~(readable /\ Recovers(m)) /\ ~HasRoom
    BY <1>1, <1>3, <2>3 DEF Describe, Unrecorded, TypeOK
  <2> QED
    BY <2>1, <2>2, <2>3
<1>9. TypeOK'
  BY <1>1, <1>3, <1>4, <1>7, <1>8 DEF TypeOK
<1> QED
  BY <1>2, <1>4, <1>9 DEF IInv

LEMMA SendFailsHolds ==
  ASSUME IInv, NEW m \in pending, SendFails(m)
  PROVE  IInv'
<1>1. TypeOK /\ Ledger /\ Stacked
  BY DEF IInv
<1>2. Ledger'
  BY <1>1, LedgerForgets
<1>3. Stays /\ stack' = stack
  BY DEF SendFails, Stays, IsRoot
<1>4. Stacked' /\ stack' \in Seq(Entry)
  BY <1>1, <1>3, StackedSeeds
<1>5. TypeOK'
  BY <1>1, <1>4 DEF TypeOK, SendFails
<1> QED
  BY <1>2, <1>4, <1>5 DEF IInv

LEMMA StepHolds == IInv /\ [Next]_vars => IInv'
<1> SUFFICES ASSUME IInv, [Next]_vars PROVE IInv'
  OBVIOUS
<1>t. TypeOK
  BY DEF IInv
<1>1. CASE NativeStart
  <2>1. ~told
    BY <1>1 DEF IInv, Stacked, NativeStart
  <2> QED
    BY <1>1, <1>t, <2>1, OpensHolds DEF NativeStart, Opens, TypeOK
<1>2. CASE BridgeStart
  <2>1. CASE request # 0
    BY <1>2, <1>t, <2>1, TurnsHolds DEF BridgeStart, TypeOK
  <2>2. CASE request = 0
    BY <1>2, <2>2, OpensHolds DEF BridgeStart, Opens
  <2> QED
    BY <2>1, <2>2
<1>3. CASE End
  BY <1>3, <1>t, TurnsHolds DEF End, TypeOK
<1>4. CASE Peek
  <2>1. handles' \subseteq Entry
    BY <1>4, <1>t, SeededIs DEF Peek, TypeOK
  <2> QED
    BY <1>4, <2>1, TurnsHolds DEF Peek
<1>5. CASE Open \/ OpenDetached \/ OpenAndPropagate
  <2>1. PICK isDetached \in BOOLEAN : Spawn(Top, Seeded, isDetached)
    BY <1>5 DEF Open, OpenDetached, OpenAndPropagate
  <2>2. Seeded # <<>> /\ Seeded \in Seq(Entry) /\ CanMint
    BY <1>5, <1>t, <2>1, SeededIs DEF Spawn, HasRoom, Open, OpenDetached, OpenAndPropagate
  <2>3. Top \in Entry
    BY <1>t, <2>2, SeededIs
  <2>4. wire' \subseteq Promise /\ \A p \in wire' : p \in wire \/ p.id = minted + 1
    <3>1. CASE wire' = wire
      BY <1>t, <3>1 DEF TypeOK
    <3>2. CASE OpenAndPropagate
      <4>1. Top \in Entry /\ minted + 1 \in Ids /\ request \in 0..MaxRequests
        BY <1>t, <2>2, SeededIs, RootTyped, SpanStackAssumption DEF TypeOK
      <4>2. PICK p \in Promise : p = [of |-> Top.of, id |-> minted + 1, madeIn |-> request]
        BY <4>1 DEF Promise, Entry
      <4>3. wire' = wire \cup {p} /\ p.id = minted + 1
        BY <3>2, <4>2 DEF OpenAndPropagate
      <4> QED
        BY <1>t, <4>3 DEF TypeOK
    <3> QED
      BY <1>5, <3>1, <3>2 DEF Open, OpenDetached
  <2>5. UNCHANGED <<request, roots, told, pending, batches, again, refused, unread>>
    BY <1>5 DEF Open, OpenDetached, OpenAndPropagate
  <2> QED
    BY <2>1, <2>3, <2>4, <2>5, SpawnHolds
<1>6. CASE Child
  <2>1. PICK parent \in Entry : Spawn(parent, stack, FALSE)
    BY <1>6, <1>t DEF Child, TypeOK
  <2>2. UNCHANGED <<request, roots, told, pending, wire, batches, again, refused, unread>>
    BY <1>6 DEF Child
  <2>3. wire' \subseteq Promise /\ \A p \in wire' : p \in wire
    BY <1>t, <2>2 DEF TypeOK
  <2> QED
    BY <2>1, <2>2, <2>3, SpawnHolds
<1>7. CASE \E span \in open : Finish(span)
  BY <1>7, FinishHolds
<1>8. CASE \E by \in Bridges : Stamp(by)
  BY <1>8, StampHolds
<1>9. CASE \E message \in pending, readable \in BOOLEAN : Send(message, readable)
  BY <1>9, SendHolds
<1>10. CASE \E message \in pending : SendFails(message)
  BY <1>10, SendFailsHolds
<1>11. CASE UNCHANGED vars
  BY <1>11, <1>t, TurnsHolds DEF vars, TypeOK
<1> QED
  BY <1>1, <1>2, <1>3, <1>4, <1>5, <1>6, <1>7, <1>8, <1>9, <1>10, <1>11 DEF Next

\* Types, ledger and stack are right in every reachable state: what SpanManager and the
\* bridges keep in step over all the requests of a process.
THEOREM Invariance == Spec => []IInv
<1> QED
  BY InitHolds, StepHolds, PTL DEF Spec

\* The trace of a stack, guests apart.
OneTrace(where, g) ==
  /\ told => \A i \in DOMAIN where : where[i].id \notin g => where[i].of = request
  /\ \A i, j \in DOMAIN where :
       where[i].id \notin g /\ where[j].id \notin g => where[i].of = where[j].of

LEMMA OneTraceIs == OneTraceOnTheStack <=> OneTrace(stack, guests)
  BY DEF OneTraceOnTheStack, OneTrace, Own

\* A seeded stack is of one trace if the stack is.
LEMMA SeededIsOneTrace ==
  ASSUME TypeOK, OneTraceOnTheStack
  PROVE  OneTrace(Seeded, guests)
<1>1. CASE Seeded = stack
  BY <1>1, OneTraceIs
<1>2. CASE request # 0 /\ Seeded = <<Root(request)>> /\ Len(Seeded) = 1 /\ Seeded[1] = Root(request)
  <2>1. DOMAIN Seeded = {1} /\ Seeded[1].of = request
    BY <1>2, RootTyped
  <2> QED
    BY <2>1 DEF OneTrace
<1> QED
  BY <1>1, <1>2, SeededIs

\* A new span is of the trace of a parent on the stack, or a guest.
LEMMA SpawnKeepsTrace ==
  ASSUME TypeOK, NEW where \in {stack, Seeded}, OneTrace(where, guests),
         NEW parent \in Entry, NEW isDetached \in BOOLEAN,
         Spawn(parent, where, isDetached), UNCHANGED <<request, told>>
  PROVE  OneTraceOnTheStack'
<1>1. where \in Seq(Entry)
  BY SeededIs DEF TypeOK
<1>2. PICK span : span = [of |-> parent.of, id |-> minted + 1]
  OBVIOUS
<1>3. span.of = parent.of /\ span.id = minted + 1
  BY <1>2
<1>4. /\ stack' = IF isDetached THEN where ELSE Append(where, span)
      /\ guests' = IF isDetached \/ (parent \in Range(where) /\ parent.id \notin guests)
                   THEN guests ELSE guests \cup {minted + 1}
  BY <1>2, <1>3 DEF Spawn
<1>5. CASE isDetached
  <2>1. stack' = where /\ guests' = guests
    BY <1>4, <1>5
  <2> QED
    BY <2>1 DEF OneTrace, OneTraceOnTheStack, Own
<1>6. CASE ~isDetached
  <2>1. PICK n : n = Len(where)
    OBVIOUS
  <2>2. /\ n \in Nat /\ DOMAIN where = 1..n
        /\ DOMAIN stack' = 1..(n + 1) /\ stack'[n + 1] = span
        /\ \A i \in 1..n : stack'[i] = where[i]
    <3>1. stack' = Append(where, span)
      BY <1>4, <1>6
    <3> QED
      BY <1>1, <2>1, <3>1, AppendProperties
  <2>3. guests \subseteq guests'
    BY <1>4
  <2>4. ASSUME span.id \notin guests'
        PROVE  \E k \in 1..n : where[k] = parent /\ where[k].id \notin guests
    <3>1. parent \in Range(where) /\ parent.id \notin guests
      BY <1>3, <1>4, <1>6, <2>4
    <3> QED
      BY <2>2, <3>1 DEF Range
  <2>5. \A i \in 1..(n + 1) : i \in 1..n \/ i = n + 1
    BY <2>2
  <2>6. ASSUME NEW i \in 1..(n + 1), stack'[i].id \notin guests'
        PROVE  \E k \in 1..n : where[k].of = stack'[i].of /\ where[k].id \notin guests
    <3>1. CASE i \in 1..n
      BY <2>2, <2>3, <2>6, <3>1
    <3>2. CASE i = n + 1
      BY <1>3, <2>2, <2>4, <2>6, <3>2
    <3> QED
      BY <2>5, <3>1, <3>2
  <2>7. ASSUME told', NEW i \in DOMAIN stack', stack'[i].id \notin guests'
        PROVE  stack'[i].of = request'
    BY <2>2, <2>6, <2>7 DEF OneTrace
  <2>8. ASSUME NEW i \in DOMAIN stack', stack'[i].id \notin guests',
               NEW j \in DOMAIN stack', stack'[j].id \notin guests'
        PROVE  stack'[i].of = stack'[j].of
    <3>1. PICK k \in 1..n : where[k].of = stack'[i].of /\ where[k].id \notin guests
      BY <2>2, <2>6, <2>8
    <3>2. PICK l \in 1..n : where[l].of = stack'[j].of /\ where[l].id \notin guests
      BY <2>2, <2>6, <2>8
    <3> QED
      BY <2>2, <3>1, <3>2 DEF OneTrace
  <2> QED
    BY <2>7, <2>8 DEF OneTraceOnTheStack, Own
<1> QED
  BY <1>5, <1>6

\* A span that leaves takes its own place on the list of guests along.
LEMMA FinishKeepsTrace ==
  ASSUME IInv, OneTraceOnTheStack, NEW span \in open, Finish(span)
  PROVE  OneTraceOnTheStack'
<1>1. /\ stack' = Without(stack, span.id) /\ guests' = guests \ {span.id}
      /\ UNCHANGED <<request, told>>
  BY DEF Finish
<1>2. /\ stack' \in Seq(Entry)
      /\ \A i \in 1..Len(stack') : /\ stack'[i].id # span.id
                                   /\ \E j \in 1..Len(stack) : stack'[i] = stack[j]
  <2>1. /\ stack \in Seq(Entry)
        /\ \A i, j \in 1..Len(stack) : stack[i].id = stack[j].id => i = j
    BY DEF IInv, Stacked, Sound, TypeOK
  <2>2. \A i, j \in 1..Len(stack) : stack[i].id = span.id /\ stack[j].id = span.id => i = j
    BY <2>1
  <2> QED
    BY <1>1, <2>1, <2>2, WithoutIs
<1>3. DOMAIN stack' = 1..Len(stack') /\ DOMAIN stack = 1..Len(stack)
  BY <1>2 DEF IInv, TypeOK
<1>4. \A i \in DOMAIN stack' : stack'[i].id \notin guests' =>
        \E j \in DOMAIN stack : stack'[i] = stack[j] /\ stack[j].id \notin guests
  BY <1>1, <1>2, <1>3
<1>5. ASSUME told', NEW i \in DOMAIN stack', stack'[i].id \notin guests'
      PROVE  stack'[i].of = request'
  BY <1>1, <1>4, <1>5 DEF OneTraceOnTheStack, Own
<1>6. ASSUME NEW i \in DOMAIN stack', stack'[i].id \notin guests',
             NEW j \in DOMAIN stack', stack'[j].id \notin guests'
      PROVE  stack'[i].of = stack'[j].of
  <2>1. PICK k \in DOMAIN stack : stack'[i] = stack[k] /\ stack[k].id \notin guests
    BY <1>4, <1>6
  <2>2. PICK l \in DOMAIN stack : stack'[j] = stack[l] /\ stack[l].id \notin guests
    BY <1>4, <1>6
  <2> QED
    BY <2>1, <2>2 DEF OneTraceOnTheStack, Own
<1> QED
  BY <1>5, <1>6 DEF OneTraceOnTheStack, Own

\* A step that keeps the stack, clears it or seeds it.
LEMMA TurnKeepsTrace ==
  ASSUME TypeOK, OneTraceOnTheStack, told' => told /\ request' = request,
         stack' \in {stack, Seeded}, guests' = guests
  PROVE  OneTraceOnTheStack'
<1>1. OneTrace(stack', guests)
  BY OneTraceIs, SeededIsOneTrace
<1> QED
  BY <1>1 DEF OneTrace, OneTraceOnTheStack, Own

LEMMA StepKeepsTrace == IInv /\ OneTraceOnTheStack /\ [Next]_vars => OneTraceOnTheStack'
<1> SUFFICES ASSUME IInv, OneTraceOnTheStack, [Next]_vars PROVE OneTraceOnTheStack'
  OBVIOUS
<1>t. TypeOK /\ (told => request # 0)
  BY DEF IInv, Stacked
<1>1. CASE NativeStart
  BY <1>1, <1>t, TurnKeepsTrace DEF NativeStart
<1>2. CASE BridgeStart
  <2>1. stack' = <<>> /\ DOMAIN stack' = {}
    BY <1>2 DEF BridgeStart
  <2> QED
    BY <2>1 DEF OneTraceOnTheStack, Own
<1>3. CASE End
  BY <1>3, <1>t, TurnKeepsTrace DEF End
<1>4. CASE Peek
  BY <1>4, <1>t, TurnKeepsTrace DEF Peek
<1>5. CASE Open \/ OpenDetached \/ OpenAndPropagate
  <2>1. PICK isDetached \in BOOLEAN : HasRoom /\ Spawn(Top, Seeded, isDetached)
    BY <1>5 DEF Open, OpenDetached, OpenAndPropagate
  <2>2. Top \in Entry
    BY <1>t, <2>1, SeededIs DEF HasRoom
  <2>3. UNCHANGED <<request, told>>
    BY <1>5 DEF Open, OpenDetached, OpenAndPropagate
  <2>4. OneTrace(Seeded, guests)
    BY <1>t, SeededIsOneTrace
  <2> QED
    BY <1>t, <2>1, <2>2, <2>3, <2>4, SpawnKeepsTrace
<1>6. CASE Child
  <2>1. PICK parent \in Entry : Spawn(parent, stack, FALSE)
    BY <1>6, <1>t DEF Child, TypeOK
  <2>2. UNCHANGED <<request, told>> /\ FALSE \in BOOLEAN
    BY <1>6 DEF Child
  <2> QED
    BY <1>t, <2>1, <2>2, OneTraceIs, SpawnKeepsTrace
<1>7. CASE \E span \in open : Finish(span)
  BY <1>7, FinishKeepsTrace
<1>8. CASE \E by \in Bridges : Stamp(by)
  BY <1>8, <1>t, TurnKeepsTrace DEF Stamp
<1>9. CASE \E message \in pending, readable \in BOOLEAN : Send(message, readable)
  BY <1>9, <1>t, TurnKeepsTrace DEF Send
<1>10. CASE \E message \in pending : SendFails(message)
  BY <1>10, <1>t, TurnKeepsTrace DEF SendFails
<1>11. CASE UNCHANGED vars
  BY <1>11, <1>t, TurnKeepsTrace DEF vars
<1> QED
  BY <1>1, <1>2, <1>3, <1>4, <1>5, <1>6, <1>7, <1>8, <1>9, <1>10, <1>11 DEF Next

\* NativeExtension::requestStart, SpanManager::reset and top: what the program did not put
\* under a span of its own choice is of one trace, the open request's if the SDK was told.
THEOREM StackIsOfOneTrace == Spec => []OneTraceOnTheStack
<1>1. Init => OneTraceOnTheStack
  <2>1. Init => DOMAIN stack = {}
    BY DEF Init
  <2> QED
    BY <2>1 DEF OneTraceOnTheStack, Own
<1> QED
  BY <1>1, StepKeepsTrace, Invariance, PTL DEF Spec

\* SpanManager::reserve and openReserved, Span::finish: an announced id is a root's, of an
\* open span, or handed over, and no id is handed over twice but a root's that was read back
\* in another request.
THEOREM PromisesAreKept == Spec => []PromiseKept
<1>1. IInv => PromiseKept
  BY IInvImplies
<1> QED
  BY <1>1, Invariance, PTL

\* SpanManager::complete and openDetached: a finished or a detached span is nobody's parent.
THEOREM ParentsAreOpen == Spec => []OnlyOpenSpansAreParents
<1>1. IInv => OnlyOpenSpansAreParents
  BY IInvImplies
<1> QED
  BY <1>1, Invariance, PTL
=============================================================================
