------------------------- MODULE HandleBanksProofs -------------------------
(***************************************************************************)
(* What the observer says from its maps is said of the right object, for   *)
(* any number of handles, caps, requests and calls.                        *)
(***************************************************************************)
EXTENDS HandleBanksChecks, FiniteSetTheorems, SequenceTheorems, TLAPS

---------------------------------------------------------------------------
(* The operators on maps *)

\* An empty map is within any cap.
LEMMA EmptyWithin ==
  ASSUME NEW Key, NEW Value, NEW max \in Nat
  PROVE  /\ Within(Empty, Key, Value, max)
         /\ DOMAIN Empty = {}
<1>1. DOMAIN Empty = {} /\ Map(Empty, Key, Value)
  BY DEF Empty, Map
<1>2. IsFiniteSet(DOMAIN Empty) /\ Cardinality(DOMAIN Empty) = 0
  BY <1>1, FS_EmptySet
<1> QED
  BY <1>1, <1>2 DEF Within

\* A capped write keeps the cap, and leaves the key with the new value or without one.
LEMMA CappedWithin ==
  ASSUME NEW Key, NEW Value, NEW bank, NEW max \in Nat, Within(bank, Key, Value, max),
         NEW key \in Key, NEW value \in Value
  PROVE  /\ Within(Capped(bank, key, value, max), Key, Value, max)
         /\ DOMAIN Capped(bank, key, value, max) \subseteq DOMAIN bank \cup {key}
         /\ key \in DOMAIN Capped(bank, key, value, max) =>
              Capped(bank, key, value, max)[key] = value
         /\ \A k \in DOMAIN Capped(bank, key, value, max) :
              k # key => k \in DOMAIN bank /\ Capped(bank, key, value, max)[k] = bank[k]
<1>1. Map(bank, Key, Value) /\ IsFiniteSet(DOMAIN bank) /\ Cardinality(DOMAIN bank) \in Nat
  BY FS_CardinalityType DEF Within
<1>2. CASE HasRoomFor(bank, key, max)
  <2>1. Capped(bank, key, value, max) = Put(bank, key, value)
    BY <1>2 DEF Capped
  <2>2. /\ IsFiniteSet(DOMAIN bank \cup {key})
        /\ Cardinality(DOMAIN bank \cup {key})
             = IF key \in DOMAIN bank THEN Cardinality(DOMAIN bank)
               ELSE Cardinality(DOMAIN bank) + 1
    BY <1>1, FS_AddElement
  <2>3. Cardinality(DOMAIN bank \cup {key}) <= max
    BY <1>1, <1>2, <2>2 DEF HasRoomFor, Within
  <2>4. /\ Map(Put(bank, key, value), Key, Value)
        /\ DOMAIN Put(bank, key, value) = DOMAIN bank \cup {key}
        /\ Put(bank, key, value)[key] = value
        /\ \A k \in DOMAIN bank : k # key => Put(bank, key, value)[k] = bank[k]
    BY <1>1 DEF Put, Map
  <2>5. Within(Put(bank, key, value), Key, Value, max)
    BY <2>2, <2>3, <2>4 DEF Within
  <2> QED
    BY <2>1, <2>4, <2>5
<1>3. CASE ~HasRoomFor(bank, key, max)
  <2>1. Capped(bank, key, value, max) = bank /\ key \notin DOMAIN bank
    BY <1>3 DEF Capped, HasRoomFor
  <2>2. DOMAIN bank \subseteq DOMAIN bank \cup {key}
    OBVIOUS
  <2> QED
    BY <2>1, <2>2
<1> QED
  BY <1>2, <1>3

\* An eviction keeps the cap.
LEMMA EvictWithin ==
  ASSUME NEW Key, NEW Value, NEW bank, NEW max \in Nat, Within(bank, Key, Value, max), NEW key
  PROVE  Within(Evict(bank, key), Key, Value, max)
<1>1. DOMAIN Evict(bank, key) = DOMAIN bank \ {key} /\ Map(Evict(bank, key), Key, Value)
  BY DEF Within, Evict, Map
<1>2. /\ IsFiniteSet(DOMAIN bank \ {key})
      /\ Cardinality(DOMAIN bank \ {key}) <= Cardinality(DOMAIN bank)
      /\ Cardinality(DOMAIN bank \ {key}) \in Nat /\ Cardinality(DOMAIN bank) \in Nat
  BY FS_Subset, FS_CardinalityType DEF Within
<1> QED
  BY <1>1, <1>2 DEF Within

\* What is banked for a statement stays within the cap and is its text or nothing.
LEMMA BankWithin ==
  ASSUME Within(statements, Handle, Sql, MaxStatements), MaxStatements \in Nat,
         context = 0 => statements = Empty,
         NEW h \in Handle, NEW sql \in Sql, NEW readable \in BOOLEAN,
         Bank(h, sql, readable)
  PROVE  /\ Within(statements', Handle, Sql, MaxStatements)
         /\ context = 0 => statements' = Empty
         /\ h \in DOMAIN statements' => readable /\ statements'[h] = sql
         /\ \A k \in DOMAIN statements' :
              k # h => k \in DOMAIN statements /\ statements'[k] = statements[k]
<1>1. CASE context = 0
  BY <1>1, EmptyWithin DEF Bank
<1>2. CASE context # 0 /\ readable
  BY <1>2, CappedWithin DEF Bank
<1>3. CASE context # 0 /\ ~readable
  <2>1. statements' = Evict(statements, h)
    BY <1>3 DEF Bank
  <2>2. Map(statements, Handle, Sql)
    BY DEF Within
  <2>3. /\ DOMAIN statements' = DOMAIN statements \ {h}
        /\ \A k \in DOMAIN statements : k # h => statements'[k] = statements[k]
    BY <2>1, <2>2 DEF Evict, Map
  <2>4. Within(statements', Handle, Sql, MaxStatements)
    BY <2>1, EvictWithin
  <2> QED
    BY <1>3, <2>3, <2>4
<1> QED
  BY <1>1, <1>2, <1>3

---------------------------------------------------------------------------
(* Objects and what is said *)

\* The bounds are numbers.
LEMMA Bounds ==
  /\ MaxStatements \in Nat /\ MaxQueues \in Nat /\ MaxSids \in Nat /\ Capacity \in Nat \ {0}
  /\ MaxRequests \in Nat /\ MaxCalls \in Nat
  BY BankAssumption

\* An object is of the kind it says it is.
LEMMA ObjectKinds ==
  ASSUME NEW x \in Object
  PROVE  /\ x.is \in {"free", "statement", "curl", "channel"}
         /\ x.is = "statement" => x \in Statement
         /\ x.is = "curl" => x \in Curl
         /\ x.is = "channel" => x \in Channel
  BY DEF Object, Free, Statement, Curl, Channel

\* A delivery is of the kind it says it is.
LEMMA ScopeKinds ==
  ASSUME NEW x \in Scope
  PROVE  /\ x.of = "amqp" => x \in FromChannel
         /\ x.of = "nats" => x \in FromNats
         /\ x # Nobody => x.of \in {"amqp", "nats"}
<1>1. CASE x = Nobody
  BY <1>1 DEF Nobody
<1>2. CASE x \in FromChannel
  <2>1. x.of = "amqp"
    BY <1>2 DEF FromChannel
  <2> QED
    BY <1>2, <2>1
<1>3. CASE x \in FromNats
  <2>1. x.of = "nats"
    BY <1>3 DEF FromNats
  <2> QED
    BY <1>3, <2>1
<1> QED
  BY <1>1, <1>2, <1>3 DEF Scope

\* A call that says nothing says nothing false.
LEMMA SilenceIsTrue ==
  ASSUME told' = Nobody
  PROVE  NothingFalseIsSaid'
  BY DEF NothingFalseIsSaid, QueriesAreTrue, ClassesAreTrue, RoutesAreTrue,
         FreshHeadersAreTrue, Nobody

\* A call counts itself within the bound.
LEMMA CallCounts ==
  ASSUME TypeOK, Call
  PROVE  calls' \in 0..MaxCalls
  BY Bounds DEF TypeOK, Call

\* The invariant survives a change of one object which the maps cannot contradict:
\* a statement whose banked text is its own, a curl handle without headers of this
\* request, a channel with no new subscription.
LEMMA HandleBecomes ==
  ASSUME IInv,
         NEW h \in Handle, NEW x \in Object, Becomes(h, x),
         Within(statements', Handle, Sql, MaxStatements),
         context = 0 => statements' = Empty,
         h \in DOMAIN statements' /\ x.is = "statement" /\ x.seen /\ x.sql # None
           => statements'[h] = x.sql,
         \A k \in DOMAIN statements' :
           k # h => k \in DOMAIN statements /\ statements'[k] = statements[k],
         x.is = "curl" => x.during = 0,
         x.is = "channel" => \A t \in Tag : x.subs[t] # None =>
           heap[h].is = "channel" /\ x.subs[t] = heap[h].subs[t],
         delivery.of = "amqp" /\ delivery.channel = h => x.is = "channel",
         Call, Silent,
         UNCHANGED <<subjects, context, requests, delivery, headers, queues, sids,
                     messages, serialized>>
  PROVE  IInv'
<1>1. heap \in [Handle -> Object] /\ heap' = [heap EXCEPT ![h] = x]
  BY DEF IInv, TypeOK, Becomes
<1>2. /\ heap' \in [Handle -> Object] /\ heap'[h] = x
      /\ \A k \in Handle : k # h => heap'[k] = heap[k]
  BY <1>1
<1>3. TypeOK'
  BY <1>2, CallCounts DEF IInv, TypeOK, Within, Map
<1>4. StatementsMatch'
  BY <1>2 DEF IInv, StatementsMatch, Within, Map
<1>5. HeadersMatch'
  <2>1. requests \in Nat
    BY Bounds DEF IInv, TypeOK
  <2> QED
    BY <1>2, <2>1 DEF IInv, HeadersMatch
<1>6. QueuesMatch'
  BY <1>2 DEF IInv, QueuesMatch
<1>7. SidsMatch' /\ RouteMatches'
  BY DEF IInv, SidsMatch, RouteMatches
<1>8. DeliveringChannelLives'
  <2>1. delivery.of = "amqp" => delivery.channel \in Handle
    BY ScopeKinds DEF IInv, TypeOK, FromChannel
  <2> QED
    BY <1>2, <2>1 DEF IInv, DeliveringChannelLives
<1>9. ClassesMatch'
  BY DEF IInv, ClassesMatch, Entries
<1>10. NothingFalseIsSaid'
  BY SilenceIsTrue DEF Silent
<1> QED
  BY <1>3, <1>4, <1>5, <1>6, <1>7, <1>8, <1>9, <1>10 DEF IInv

---------------------------------------------------------------------------
(* Calls on objects *)

\* The maps of a state that satisfies the invariant.
LEMMA MapsNow ==
  ASSUME IInv
  PROVE  /\ Within(statements, Handle, Sql, MaxStatements)
         /\ context = 0 => statements = Empty
         /\ Map(headers, Handle, SUBSET Line)
         /\ Within(queues, Handle \X Tag, Queue, MaxQueues)
         /\ Within(sids, Sid, Queue, MaxSids)
         /\ heap \in [Handle -> Object]
  BY DEF IInv, TypeOK

\* Objects that come without a past contradict no map.
LEMMA CreateStep ==
  ASSUME IInv, NEW h \in Handle, Drop(h) \/ StmtInit(h) \/ CurlInit(h) \/ OpenChannel(h)
  PROVE  IInv'
<1>1. CASE Drop(h)
  <2>1. Free \in Object /\ Free.is = "free"
    BY DEF Object, Free
  <2> QED
    BY <1>1, <2>1, MapsNow, HandleBecomes DEF Drop, banks
<1>2. ASSUME NEW x \in Object, Create(h, x),
             x.is = "statement" => x.sql = None,
             x.is = "curl" => x.during = 0,
             x.is = "channel" => \A t \in Tag : x.subs[t] = None
      PROVE  IInv'
  <2>1. heap[h].is = "free"
    BY <1>2 DEF Create, Free
  <2>2. ~(delivery.of = "amqp" /\ delivery.channel = h)
    BY <2>1 DEF IInv, DeliveringChannelLives
  <2> QED
    BY <1>2, <2>2, MapsNow, HandleBecomes DEF Create, banks
<1>3. CASE StmtInit(h)
  <2> DEFINE x == [is |-> "statement", sql |-> None, seen |-> TRUE]
  <2>1. x \in Object /\ x.is = "statement" /\ x.sql = None
    BY DEF Object, Statement
  <2>2. Create(h, x)
    BY <1>3 DEF StmtInit
  <2> QED
    BY <1>2, <2>1, <2>2
<1>4. CASE CurlInit(h)
  <2> DEFINE x == [is |-> "curl", app |-> {}, during |-> 0, wire |-> {}]
  <2>1. x \in Object /\ x.is = "curl" /\ x.during = 0
    BY Bounds DEF Object, Curl
  <2>2. Create(h, x)
    BY <1>4 DEF CurlInit
  <2> QED
    BY <1>2, <2>1, <2>2
<1>5. CASE OpenChannel(h)
  <2> DEFINE x == [is |-> "channel", subs |-> [t \in Tag |-> None]]
  <2>1. x \in Object /\ x.is = "channel" /\ \A t \in Tag : x.subs[t] = None
    BY DEF Object, Channel
  <2>2. Create(h, x)
    BY <1>5 DEF OpenChannel
  <2> QED
    BY <1>2, <2>1, <2>2
<1> QED
  BY <1>1, <1>3, <1>4, <1>5

\* A handle of another object is not the channel of the delivery.
LEMMA NotDelivering ==
  ASSUME IInv, NEW h, heap[h].is # "channel"
  PROVE  ~(delivery.of = "amqp" /\ delivery.channel = h)
  BY DEF IInv, DeliveringChannelLives

\* Prepares bank the statement's own text or nothing.
LEMMA PrepareStep ==
  ASSUME IInv, NEW h \in Handle, NEW sql \in Sql, NEW succeeds \in BOOLEAN,
         NEW readable \in BOOLEAN,
         \/ Prepare(h, sql, readable)
         \/ PrepareThis(h, sql, succeeds, readable)
         \/ PrepareUnseen(h, sql)
  PROVE  IInv'
<1>1. ~(delivery.of = "amqp" /\ delivery.channel = h)
  BY NotDelivering DEF Prepare, PrepareThis, PrepareUnseen, Free
<1>2. CASE Prepare(h, sql, readable)
  <2> DEFINE x == [is |-> "statement", sql |-> sql, seen |-> TRUE]
  <2>1. x \in Object /\ x.is = "statement" /\ x.sql = sql
    BY DEF Object, Statement
  <2>2. /\ Within(statements', Handle, Sql, MaxStatements)
        /\ context = 0 => statements' = Empty
        /\ h \in DOMAIN statements' => readable /\ statements'[h] = sql
        /\ \A k \in DOMAIN statements' :
             k # h => k \in DOMAIN statements /\ statements'[k] = statements[k]
    BY <1>2, BankWithin, MapsNow, Bounds DEF Prepare
  <2>3. Becomes(h, x)
    BY <1>2 DEF Prepare
  <2> HIDE DEF x
  <2> QED
    BY <1>1, <1>2, <2>1, <2>2, <2>3, HandleBecomes DEF Prepare
<1>3. CASE PrepareThis(h, sql, succeeds, readable)
  <2> DEFINE x == [is |-> "statement", sql |-> IF succeeds THEN sql ELSE None, seen |-> TRUE]
  <2>1. x \in Object /\ x.is = "statement" /\ (succeeds => x.sql = sql)
    BY DEF Object, Statement
  <2>2. /\ Within(statements', Handle, Sql, MaxStatements)
        /\ context = 0 => statements' = Empty
        /\ h \in DOMAIN statements' => (succeeds /\ readable) /\ statements'[h] = sql
        /\ \A k \in DOMAIN statements' :
             k # h => k \in DOMAIN statements /\ statements'[k] = statements[k]
    BY <1>3, BankWithin, MapsNow, Bounds DEF PrepareThis
  <2>3. Becomes(h, x)
    BY <1>3 DEF PrepareThis
  <2> HIDE DEF x
  <2> QED
    BY <1>1, <1>3, <2>1, <2>2, <2>3, HandleBecomes DEF PrepareThis
<1>4. CASE PrepareUnseen(h, sql)
  <2> DEFINE x == [is |-> "statement", sql |-> sql, seen |-> FALSE]
  <2>1. x \in Object /\ x.is = "statement" /\ ~x.seen
    BY DEF Object, Statement
  <2>2. Becomes(h, x)
    BY <1>4 DEF PrepareUnseen
  <2> HIDE DEF x
  <2> QED
    BY <1>1, <1>4, <2>1, <2>2, MapsNow, HandleBecomes DEF PrepareUnseen, banks
<1> QED
  BY <1>2, <1>3, <1>4

\* A reset handle has no headers of the application; a cancelled tag no subscription.
LEMMA UnseenStep ==
  ASSUME IInv, NEW h \in Handle, CurlReset(h) \/ \E tag \in Tag : Cancel(h, tag)
  PROVE  IInv'
<1>1. CASE CurlReset(h)
  <2> DEFINE x == [is |-> "curl", app |-> {}, during |-> 0, wire |-> {}]
  <2>1. x \in Object /\ x.is = "curl" /\ x.during = 0
    BY Bounds DEF Object, Curl
  <2>2. Becomes(h, x) /\ ~(delivery.of = "amqp" /\ delivery.channel = h)
    BY <1>1, NotDelivering DEF CurlReset
  <2> HIDE DEF x
  <2> QED
    BY <1>1, <2>1, <2>2, MapsNow, HandleBecomes DEF CurlReset, banks
<1>2. ASSUME NEW tag \in Tag, Cancel(h, tag)
      PROVE  IInv'
  <2> DEFINE x == [heap[h] EXCEPT !.subs[tag] = None]
  <2>1. heap[h] \in Channel
    BY <1>2, ObjectKinds, MapsNow DEF Cancel
  <2>2. x \in Channel /\ x.is = "channel"
        /\ \A t \in Tag : x.subs[t] # None => x.subs[t] = heap[h].subs[t]
    BY <2>1 DEF Channel
  <2>3. Becomes(h, x) /\ x \in Object /\ heap[h].is = "channel"
    BY <1>2, <2>2 DEF Cancel, Object
  <2> HIDE DEF x
  <2> QED
    BY <1>2, <2>2, <2>3, MapsNow, HandleBecomes DEF Cancel, banks
<1> QED
  BY <1>1, <1>2

\* The text of an execute is looked up under the statement's own handle.
LEMMA ExecuteStep ==
  ASSUME IInv, NEW h \in Handle, Execute(h)
  PROVE  IInv'
<1>1. told' = [of |-> "statement", said |-> LookUp(statements, h), object |-> heap[h]]
  BY DEF Execute
<1>2. heap[h].is = "statement" /\ heap[h].sql # None
  BY DEF Execute
<1>3. QueriesAreTrue'
  <2>1. heap[h].seen => LookUp(statements, h) \in {heap[h].sql, None}
    BY <1>2 DEF IInv, StatementsMatch, LookUp
  <2> QED
    BY <1>1, <2>1 DEF QueriesAreTrue
<1>4. NothingFalseIsSaid'
  BY <1>1, <1>3 DEF NothingFalseIsSaid, ClassesAreTrue, RoutesAreTrue, FreshHeadersAreTrue
<1>5. TypeOK'
  BY CallCounts DEF Execute, IInv, TypeOK, banks, Within, Map
<1>6. /\ StatementsMatch' /\ HeadersMatch' /\ QueuesMatch' /\ SidsMatch' /\ RouteMatches'
      /\ DeliveringChannelLives' /\ ClassesMatch'
  BY DEF Execute, banks, IInv, StatementsMatch, HeadersMatch, QueuesMatch, SidsMatch,
         RouteMatches, DeliveringChannelLives, ClassesMatch, Entries
<1> QED
  BY <1>4, <1>5, <1>6 DEF IInv

\* Lines of the application and traceparents are told apart.
LEMMA LinesApart ==
  /\ \A list \in SUBSET Header : list \ Traceparents = list
  /\ \A r \in Requests : Traceparent(r) \in Traceparents /\ Traceparent(r) \in Line
  BY BankAssumption DEF Traceparents, Line

\* What a curl handle becomes changes the header map at that handle only.
LEMMA CurlBecomes ==
  ASSUME IInv, NEW h \in Handle, NEW x \in Curl, Becomes(h, x), heap[h].is = "curl",
         Map(headers', Handle, SUBSET Line),
         \A k \in DOMAIN headers : k # h => k \in DOMAIN headers' /\ headers'[k] = headers[k],
         x.during <= requests,
         context # 0 /\ x.during = context =>
           h \in DOMAIN headers' /\ headers'[h] \ Traceparents = x.app,
         Call, NothingFalseIsSaid',
         UNCHANGED <<subjects, context, requests, delivery, statements, queues, sids,
                     messages, serialized>>
  PROVE  IInv'
<1>1. heap \in [Handle -> Object] /\ heap' = [heap EXCEPT ![h] = x] /\ x \in Object
  BY DEF IInv, TypeOK, Becomes, Object
<1>2. /\ heap' \in [Handle -> Object] /\ heap'[h] = x /\ x.is = "curl"
      /\ \A k \in Handle : k # h => heap'[k] = heap[k]
  BY <1>1 DEF Curl
<1>3. TypeOK'
  BY <1>2, CallCounts DEF IInv, TypeOK, Within, Map
<1>4. StatementsMatch'
  BY <1>2 DEF IInv, StatementsMatch, TypeOK, Within, Map
<1>5. HeadersMatch'
  BY <1>2 DEF IInv, HeadersMatch
<1>6. QueuesMatch'
  BY <1>2 DEF IInv, QueuesMatch
<1>7. SidsMatch' /\ RouteMatches'
  BY DEF IInv, SidsMatch, RouteMatches
<1>8. DeliveringChannelLives'
  <2>1. delivery.of = "amqp" => delivery.channel \in Handle
    BY ScopeKinds DEF IInv, TypeOK, FromChannel
  <2> QED
    BY <1>2, <2>1 DEF IInv, DeliveringChannelLives
<1>9. ClassesMatch'
  BY DEF IInv, ClassesMatch, Entries
<1> QED
  BY <1>3, <1>4, <1>5, <1>6, <1>7, <1>8, <1>9 DEF IInv

\* A list is tracked for the handle it was set on.
LEMMA CurlHeadersStep ==
  ASSUME IInv, NEW h \in Handle, NEW list \in SUBSET Header, CurlHeaders(h, list)
  PROVE  IInv'
<1> DEFINE x == [is |-> "curl", app |-> list, during |-> context, wire |-> list]
<1>1. context \in 0..MaxRequests /\ context <= requests
  BY Bounds DEF IInv, TypeOK
<1>2. list \in SUBSET Line
  BY DEF Line
<1>3. x \in Curl /\ x.during <= requests /\ x.app = list
  BY <1>1, <1>2 DEF Curl
<1>4. /\ Map(headers', Handle, SUBSET Line)
      /\ h \in DOMAIN headers' /\ headers'[h] = list
      /\ \A k \in DOMAIN headers : k # h => k \in DOMAIN headers' /\ headers'[k] = headers[k]
  BY <1>2, MapsNow DEF CurlHeaders, Put, Map
<1>5. headers'[h] \ Traceparents = x.app
  BY <1>3, <1>4, LinesApart
<1>6. Becomes(h, x) /\ heap[h].is = "curl"
  BY DEF CurlHeaders
<1>7. NothingFalseIsSaid'
  BY SilenceIsTrue DEF CurlHeaders, Silent
<1> HIDE DEF x
<1> QED
  BY <1>3, <1>4, <1>5, <1>6, <1>7, CurlBecomes DEF CurlHeaders

\* A call that fails leaves the handle alone but for what may be asked of it.
LEMMA CurlHeadersFailStep ==
  ASSUME IInv, NEW h \in Handle, NEW list \in SUBSET Header, CurlHeadersFail(h, list)
  PROVE  IInv'
<1> DEFINE x == [heap[h] EXCEPT !.during = 0]
<1>1. heap[h] \in Curl
  BY ObjectKinds, MapsNow DEF CurlHeadersFail
<1>2. x \in Curl /\ x.during = 0
  BY <1>1, Bounds DEF Curl
<1>3. x.during <= requests /\ requests \in Nat
  BY <1>2 DEF IInv, TypeOK
<1>4. list \in SUBSET Line
  BY DEF Line
<1>5. /\ Map(headers', Handle, SUBSET Line)
      /\ h \in DOMAIN headers'
      /\ \A k \in DOMAIN headers : k # h => k \in DOMAIN headers' /\ headers'[k] = headers[k]
  BY <1>4, MapsNow DEF CurlHeadersFail, Put, Map
<1>6. Becomes(h, x) /\ heap[h].is = "curl"
  BY DEF CurlHeadersFail
<1>7. NothingFalseIsSaid'
  BY SilenceIsTrue DEF CurlHeadersFail, Silent
<1> HIDE DEF x
<1> QED
  BY <1>2, <1>3, <1>5, <1>6, <1>7, CurlBecomes DEF CurlHeadersFail

\* An injection adds one traceparent to the tracked list.
LEMMA CurlExecStep ==
  ASSUME IInv, NEW h \in Handle, CurlExec(h)
  PROVE  IInv'
<1> DEFINE sent == IF context = 0 THEN heap[h].wire ELSE Merged(h)
           x == [heap[h] EXCEPT !.wire = sent]
<1>1. heap[h] \in Curl
  BY ObjectKinds, MapsNow DEF CurlExec
<1>2. context \in {0, requests} /\ requests \in 0..MaxRequests
  BY DEF IInv, TypeOK
<1>3. ASSUME context # 0
      PROVE  /\ Merged(h) \in SUBSET Line
             /\ Merged(h) \ Traceparents =
                  (IF h \in DOMAIN headers THEN headers[h] ELSE {}) \ Traceparents
             /\ Merged(h) =
                  ((IF h \in DOMAIN headers THEN headers[h] ELSE {}) \ Traceparents)
                    \cup {Traceparent(context)}
  <2>1. context \in Requests
    BY <1>2, <1>3, Bounds DEF Requests
  <2>2. (IF h \in DOMAIN headers THEN headers[h] ELSE {}) \in SUBSET Line
    BY MapsNow DEF Map
  <2> QED
    BY <2>1, <2>2, LinesApart DEF Merged
<1>4. sent \in SUBSET Line
  BY <1>1, <1>3 DEF Curl
<1> HIDE DEF sent
<1>5. x \in Curl /\ x.app = heap[h].app /\ x.during = heap[h].during
  BY <1>1, <1>4 DEF Curl
<1>6. heap[h].during <= requests
      /\ (context # 0 /\ heap[h].during = context =>
            h \in DOMAIN headers /\ headers[h] \ Traceparents = heap[h].app)
  BY DEF CurlExec, IInv, HeadersMatch
<1>7. /\ headers' = IF context = 0 THEN headers ELSE Put(headers, h, sent)
      /\ Becomes(h, x) /\ heap[h].is = "curl"
      /\ told' = [of |-> "curl", said |-> sent, object |-> heap[h]]
  BY DEF CurlExec, sent
<1>8. /\ Map(headers', Handle, SUBSET Line)
      /\ \A k \in DOMAIN headers : k # h => k \in DOMAIN headers' /\ headers'[k] = headers[k]
      /\ context # 0 => h \in DOMAIN headers' /\ headers'[h] = sent
  BY <1>4, <1>7, MapsNow DEF Put, Map
<1>9. context # 0 /\ heap[h].during = context =>
        /\ sent \ Traceparents = heap[h].app
        /\ sent = heap[h].app \cup {Traceparent(context)}
  BY <1>3, <1>6 DEF sent
<1>10. NothingFalseIsSaid'
  <2>1. context' = context
    BY DEF CurlExec
  <2>2. FreshHeadersAreTrue'
    BY <1>7, <1>9, <2>1 DEF FreshHeadersAreTrue, Traceparent
  <2> QED
    BY <1>7, <2>2 DEF NothingFalseIsSaid, QueriesAreTrue, ClassesAreTrue, RoutesAreTrue
<1> HIDE DEF x
<1> QED
  BY <1>5, <1>6, <1>7, <1>8, <1>9, <1>10, CurlBecomes DEF CurlExec

---------------------------------------------------------------------------
(* Subscriptions *)

\* A subscription banks the queue it asks for; one that asks for none contradicts none.
LEMMA SubscribeStep ==
  ASSUME IInv, NEW h \in Handle, NEW tag \in Tag, NEW queue \in Queue \cup {None},
         NEW answered \in BOOLEAN, Subscribe(h, tag, queue, answered)
  PROVE  IInv'
<1> DEFINE sub == [queue |-> queue, answered |-> answered]
           x == [heap[h] EXCEPT !.subs[tag] = sub]
<1>1. heap \in [Handle -> Object] /\ heap[h] \in Channel /\ heap[h].is = "channel"
  BY ObjectKinds, MapsNow DEF Subscribe
<1>2. sub \in Subscription /\ (Asks(sub) <=> answered /\ queue # None) /\ sub.queue = queue
  BY DEF Subscription, Asks
<1>3. heap' = [heap EXCEPT ![h] = x]
  BY DEF Subscribe, Becomes
<1> HIDE DEF sub
<1>4. /\ x \in Channel /\ x.is = "channel" /\ x.subs[tag] = sub
      /\ \A t \in Tag : t # tag => x.subs[t] = heap[h].subs[t]
  BY <1>1, <1>2 DEF Channel
<1> HIDE DEF x
<1>5. /\ heap' \in [Handle -> Object] /\ heap'[h] = x
      /\ \A k \in Handle : k # h => heap'[k] = heap[k]
  BY <1>1, <1>3, <1>4 DEF Object
<1>6. /\ Within(queues', Handle \X Tag, Queue, MaxQueues)
      /\ answered /\ queue # None /\ <<h, tag>> \in DOMAIN queues' => queues'[<<h, tag>>] = queue
      /\ \A k \in DOMAIN queues' :
           k # <<h, tag>> => k \in DOMAIN queues /\ queues'[k] = queues[k]
  <2>1. CASE answered /\ queue # None
    <3>1. queues' = Capped(queues, <<h, tag>>, queue, MaxQueues) /\ queue \in Queue
      BY <2>1 DEF Subscribe
    <3> QED
      BY <2>1, <3>1, CappedWithin, MapsNow, Bounds
  <2>2. CASE ~(answered /\ queue # None)
    <3>1. queues' = queues
      BY <2>2 DEF Subscribe
    <3> QED
      BY <2>2, <3>1, MapsNow
  <2> QED
    BY <2>1, <2>2
<1>7. Call /\ Silent
      /\ UNCHANGED <<subjects, context, requests, delivery, statements, headers, sids,
                     messages, serialized>>
  BY DEF Subscribe
<1>8. TypeOK'
  BY <1>5, <1>6, <1>7, CallCounts DEF IInv, TypeOK, Within, Map
<1>9. StatementsMatch' /\ HeadersMatch'
  <2>1. x.is # "statement" /\ x.is # "curl"
    BY <1>4
  <2>2. StatementsMatch'
    BY <1>5, <1>7, <2>1, MapsNow DEF IInv, StatementsMatch, Within, Map
  <2>3. HeadersMatch'
    BY <1>5, <1>7, <2>1 DEF IInv, HeadersMatch
  <2> QED
    BY <2>2, <2>3
<1>10. QueuesMatch'
  <2> SUFFICES ASSUME NEW k \in Handle, NEW t \in Tag,
                      heap'[k].is = "channel", <<k, t>> \in DOMAIN queues',
                      heap'[k].subs[t] # None, Asks(heap'[k].subs[t])
               PROVE  queues'[<<k, t>>] = heap'[k].subs[t].queue
    BY DEF QueuesMatch, Asks
  <2>1. CASE k = h /\ t = tag
    BY <1>2, <1>4, <1>5, <1>6, <2>1
  <2>2. CASE ~(k = h /\ t = tag)
    <3>1. <<k, t>> # <<h, tag>>
      BY <2>2
    <3>2. <<k, t>> \in DOMAIN queues /\ queues'[<<k, t>>] = queues[<<k, t>>]
      BY <1>6, <3>1
    <3>3. heap[k].is = "channel" /\ heap'[k].subs[t] = heap[k].subs[t]
      BY <1>1, <1>4, <1>5, <2>2
    <3> QED
      BY <3>2, <3>3 DEF IInv, QueuesMatch
  <2> QED
    BY <2>1, <2>2
<1>11. SidsMatch' /\ RouteMatches'
  BY <1>7 DEF IInv, SidsMatch, RouteMatches
<1>12. DeliveringChannelLives'
  <2>1. delivery.of = "amqp" => delivery.channel \in Handle
    BY ScopeKinds DEF IInv, TypeOK, FromChannel
  <2> QED
    BY <1>4, <1>5, <1>7, <2>1 DEF IInv, DeliveringChannelLives
<1>13. ClassesMatch'
  BY <1>7 DEF IInv, ClassesMatch, Entries
<1>14. NothingFalseIsSaid'
  BY <1>7, SilenceIsTrue DEF Silent
<1> QED
  BY <1>8, <1>9, <1>10, <1>11, <1>12, <1>13, <1>14 DEF IInv

\* A NATS subscription is banked under an id that is used once.
LEMMA SubscribeNatsStep ==
  ASSUME IInv, NEW s \in Sid, NEW subject \in Queue, SubscribeNats(s, subject)
  PROVE  IInv'
<1>1. /\ subjects \in [Sid -> Queue \cup {None}] /\ subjects[s] = None
      /\ subjects' = [subjects EXCEPT ![s] = subject]
      /\ sids' = Capped(sids, s, subject, MaxSids)
      /\ Call /\ Silent
      /\ UNCHANGED <<heap, context, requests, delivery, statements, headers, queues,
                     messages, serialized>>
  BY DEF SubscribeNats, IInv, TypeOK
<1>2. /\ Within(sids', Sid, Queue, MaxSids)
      /\ s \in DOMAIN sids' => sids'[s] = subject
      /\ \A k \in DOMAIN sids' : k # s => k \in DOMAIN sids /\ sids'[k] = sids[k]
  BY <1>1, CappedWithin, MapsNow, Bounds
<1>3. TypeOK'
  BY <1>1, <1>2, CallCounts DEF IInv, TypeOK, Within, Map
<1>4. SidsMatch'
  <2>1. subject # None
    BY BankAssumption
  <2> QED
    BY <1>1, <1>2, <2>1 DEF IInv, SidsMatch, Within, Map
<1>5. /\ StatementsMatch' /\ HeadersMatch' /\ QueuesMatch' /\ RouteMatches'
      /\ DeliveringChannelLives' /\ ClassesMatch'
  BY <1>1 DEF IInv, StatementsMatch, HeadersMatch, QueuesMatch, RouteMatches,
         DeliveringChannelLives, ClassesMatch, Entries
<1>6. NothingFalseIsSaid'
  BY <1>1, SilenceIsTrue DEF Silent
<1> QED
  BY <1>3, <1>4, <1>5, <1>6 DEF IInv

---------------------------------------------------------------------------
(* Requests and deliveries *)

\* What a request leaves behind says nothing.
LEMMA Forgotten ==
  ASSUME Forget
  PROVE  /\ Within(statements', Handle, Sql, MaxStatements) /\ statements' = Empty
         /\ Map(headers', Handle, SUBSET Line)
         /\ messages' = <<>> /\ messages' \in Seq(Entry) /\ Len(messages') <= Capacity
         /\ serialized' \subseteq Body
         /\ StatementsMatch' /\ ClassesMatch'
<1>1. statements' = Empty /\ headers' = Empty /\ messages' = <<>> /\ serialized' = {}
  BY DEF Forget
<1>2. DOMAIN Empty = {} /\ Within(Empty, Handle, Sql, MaxStatements)
  BY Bounds, EmptyWithin
<1>3. Map(Empty, Handle, SUBSET Line)
  BY Bounds, EmptyWithin DEF Within
<1>4. <<>> \in Seq(Entry) /\ Len(<<>>) = 0
  OBVIOUS
<1>5. StatementsMatch'
  BY <1>1, <1>2 DEF StatementsMatch
<1>6. ClassesMatch'
  <2>1. Identities({}) = {}
    BY DEF Identities
  <2>2. IsFiniteSet(Identities({})) /\ Cardinality(Identities({})) = 0
    BY <2>1, FS_EmptySet
  <2> QED
    BY <1>1, <1>4, <2>2 DEF ClassesMatch
<1> QED
  BY <1>1, <1>2, <1>3, <1>4, <1>5, <1>6, Bounds

\* A request that opens has no headers of its own yet, and its delivery the route of its
\* subscription.
LEMMA Opens ==
  ASSUME IInv, context = 0, requests < MaxRequests,
         requests' = requests + 1, context' = requests + 1, Forget, Silent,
         delivery' \in Scope, RouteMatches',
         delivery'.of = "amqp" => heap[delivery'.channel].is = "channel",
         UNCHANGED <<heap, subjects, queues, sids>>, calls' \in 0..MaxCalls
  PROVE  IInv'
<1>1. requests \in Nat /\ requests' \in 0..MaxRequests /\ context' # 0
  BY Bounds DEF IInv, TypeOK
<1>2. TypeOK'
  BY <1>1, Forgotten DEF IInv, TypeOK, Within, Map
<1>3. HeadersMatch'
  <2> SUFFICES ASSUME NEW h \in Handle, heap[h].is = "curl"
               PROVE  heap[h].during <= requests + 1 /\ heap[h].during # requests + 1
    BY DEF HeadersMatch
  <2>1. heap[h].during \in 0..MaxRequests
    BY ObjectKinds, MapsNow DEF Curl
  <2>2. heap[h].during <= requests
    BY DEF IInv, HeadersMatch
  <2> QED
    BY <1>1, <2>1, <2>2, Bounds
<1>4. QueuesMatch' /\ SidsMatch'
  BY DEF IInv, QueuesMatch, SidsMatch
<1>5. DeliveringChannelLives'
  BY DEF DeliveringChannelLives
<1>6. NothingFalseIsSaid'
  BY SilenceIsTrue DEF Silent
<1> QED
  BY <1>2, <1>3, <1>4, <1>5, <1>6, Forgotten DEF IInv

\* No delivery runs while no request is open.
LEMMA NoDelivery ==
  ASSUME IInv, context = 0
  PROVE  delivery = Nobody
  BY DEF IInv, TypeOK

\* A request of the worker's own opens and ends.
LEMMA RequestStep ==
  ASSUME IInv, StartRequest \/ EndRequest
  PROVE  IInv'
<1>1. calls \in 0..MaxCalls /\ Nobody \in Scope /\ Nobody.of = "nobody"
  BY DEF IInv, TypeOK, Scope, Nobody
<1>2. CASE StartRequest
  <2>1. delivery' = Nobody
    BY <1>2, NoDelivery DEF StartRequest
  <2>2. RouteMatches'
    BY <2>1 DEF RouteMatches
  <2> QED
    BY <1>1, <1>2, <2>1, <2>2, Opens DEF StartRequest
<1>3. CASE EndRequest
  <2>1. /\ context' = 0 /\ Forget /\ Silent /\ delivery' = Nobody /\ delivery = Nobody
        /\ UNCHANGED <<heap, subjects, requests, queues, sids, calls>>
    BY <1>3 DEF EndRequest
  <2>2. TypeOK'
    BY <1>1, <2>1, Forgotten DEF IInv, TypeOK, Within, Map
  <2>3. /\ HeadersMatch' /\ QueuesMatch' /\ SidsMatch' /\ RouteMatches'
        /\ DeliveringChannelLives'
    BY <1>1, <2>1 DEF IInv, HeadersMatch, QueuesMatch, SidsMatch, RouteMatches,
                      DeliveringChannelLives
  <2>4. NothingFalseIsSaid'
    BY <2>1, SilenceIsTrue DEF Silent
  <2> QED
    BY <2>1, <2>2, <2>3, <2>4, Forgotten DEF IInv
<1> QED
  BY <1>2, <1>3

\* A delivery opens its request with the route of its subscription, or none.
LEMMA DeliverStep ==
  ASSUME IInv,
         \/ \E h \in Handle, tag \in Tag : DeliverBunny(h, tag) \/ DeliverAmqplib(h, tag)
         \/ \E s \in Sid : DeliverNats(s)
  PROVE  IInv'
<1>1. ASSUME NEW scope \in Scope, OpenFor(scope),
             ~scope.deferred /\ Asks(scope.asked) => scope.route \in {scope.asked.queue, None},
             scope.of = "amqp" => heap[scope.channel].is = "channel"
      PROVE  IInv'
  <2>1. /\ context = 0 /\ requests < MaxRequests
        /\ requests' = requests + 1 /\ context' = requests + 1 /\ Forget /\ Silent
        /\ delivery' = scope /\ UNCHANGED <<heap, subjects, queues, sids>>
    BY <1>1 DEF OpenFor
  <2>2. calls' \in 0..MaxCalls
    BY <1>1, CallCounts DEF IInv, OpenFor
  <2>3. RouteMatches'
    BY <1>1, <2>1 DEF RouteMatches, Asks
  <2> QED
    BY <1>1, <2>1, <2>2, <2>3, Opens
<1>2. ASSUME NEW h \in Handle, NEW tag \in Tag, DeliverBunny(h, tag) \/ DeliverAmqplib(h, tag)
      PROVE  IInv'
  <2>1. heap[h].is = "channel" /\ heap[h].subs[tag] # None /\ heap[h] \in Channel
    BY <1>2, ObjectKinds, MapsNow DEF DeliverBunny, DeliverAmqplib
  <2>2. heap[h].subs[tag] \in Subscription
    BY <2>1 DEF Channel
  <2>3. /\ LookUp(queues, <<h, tag>>) \in Queue \cup {None}
        /\ Asks(heap[h].subs[tag]) =>
             LookUp(queues, <<h, tag>>) \in {heap[h].subs[tag].queue, None}
    BY <2>1, MapsNow DEF IInv, QueuesMatch, LookUp, Within, Map
  <2>4. CASE DeliverBunny(h, tag)
    <3> DEFINE scope == [of |-> "amqp", channel |-> h, tag |-> tag, asked |-> heap[h].subs[tag],
                         deferred |-> FALSE, route |-> LookUp(queues, <<h, tag>>)]
    <3>1. /\ scope \in Scope /\ scope.channel = h /\ scope.asked = heap[h].subs[tag]
          /\ scope.route = LookUp(queues, <<h, tag>>)
      BY <2>2, <2>3 DEF Scope, FromChannel
    <3>2. OpenFor(scope)
      BY <2>4 DEF DeliverBunny
    <3> HIDE DEF scope
    <3> QED
      BY <1>1, <2>1, <2>3, <3>1, <3>2
  <2>5. CASE DeliverAmqplib(h, tag)
    <3> DEFINE scope == [of |-> "amqp", channel |-> h, tag |-> tag, asked |-> heap[h].subs[tag],
                         deferred |-> TRUE, route |-> None]
    <3>1. scope \in Scope /\ scope.channel = h /\ scope.deferred
      BY <2>2 DEF Scope, FromChannel
    <3>2. OpenFor(scope)
      BY <2>5 DEF DeliverAmqplib
    <3> HIDE DEF scope
    <3> QED
      BY <1>1, <2>1, <3>1, <3>2
  <2> QED
    BY <1>2, <2>4, <2>5
<1>3. ASSUME NEW s \in Sid, DeliverNats(s)
      PROVE  IInv'
  <2> DEFINE asked == [queue |-> subjects[s], answered |-> TRUE]
             scope == [of |-> "nats", asked |-> asked, deferred |-> FALSE,
                       route |-> LookUp(sids, s)]
  <2>1. asked \in Subscription /\ asked.queue = subjects[s]
    BY DEF IInv, TypeOK, Subscription
  <2>2. /\ LookUp(sids, s) \in Queue \cup {None}
        /\ LookUp(sids, s) \in {subjects[s], None}
    BY MapsNow DEF IInv, SidsMatch, LookUp, Within, Map
  <2> HIDE DEF asked
  <2>3. /\ scope \in Scope /\ scope.of = "nats" /\ scope.asked = asked
        /\ scope.route = LookUp(sids, s)
    BY <2>1, <2>2 DEF Scope, FromNats
  <2>4. OpenFor(scope)
    BY <1>3 DEF DeliverNats, asked
  <2> HIDE DEF scope
  <2> QED
    BY <1>1, <2>1, <2>2, <2>3, <2>4
<1> QED
  BY <1>2, <1>3

\* The route of a delivery that ends is its subscription's, unless the subscription is
\* not the one it was made for.
LEMMA DeliveryEndStep ==
  ASSUME IInv, DeliveryEnd
  PROVE  IInv'
<1>1. /\ told' = [of |-> "delivery", said |-> Route, asked |-> delivery.asked,
                  settled |-> ~delivery.deferred \/ StillSubscribed]
      /\ delivery # Nobody /\ delivery' = Nobody /\ context' = 0 /\ Forget
      /\ UNCHANGED <<heap, subjects, requests, queues, sids, calls>>
  BY DEF DeliveryEnd
<1>2. Asks(delivery.asked) /\ (~delivery.deferred \/ StillSubscribed)
        => Route \in {delivery.asked.queue, None}
  <2>1. CASE ~delivery.deferred
    BY <1>1, <2>1 DEF Route, IInv, RouteMatches
  <2>2. CASE delivery.deferred /\ StillSubscribed /\ Asks(delivery.asked)
    <3>1. delivery \in FromChannel
      <4>1. delivery \in Scope
        BY DEF IInv, TypeOK
      <4>2. delivery.of # "nats"
        BY <2>2, <4>1, ScopeKinds DEF FromNats
      <4> QED
        BY <1>1, <4>1, <4>2, ScopeKinds
    <3>2. /\ delivery.of = "amqp" /\ delivery.channel \in Handle /\ delivery.tag \in Tag
          /\ delivery.asked \in Subscription
      BY <3>1 DEF FromChannel
    <3>3. /\ heap[delivery.channel].is = "channel" /\ delivery.asked # None
          /\ heap[delivery.channel].subs[delivery.tag] = delivery.asked
      BY <2>2, <3>2, BankAssumption DEF IInv, DeliveringChannelLives, StillSubscribed
    <3> QED
      BY <2>2, <3>2, <3>3 DEF Route, LookUp, IInv, QueuesMatch
  <2> QED
    BY <2>1, <2>2
<1>3. NothingFalseIsSaid'
  <2>1. RoutesAreTrue'
    BY <1>1, <1>2 DEF RoutesAreTrue, Asks
  <2> QED
    BY <1>1, <2>1 DEF NothingFalseIsSaid, QueriesAreTrue, ClassesAreTrue, FreshHeadersAreTrue
<1>4. Nobody \in Scope /\ Nobody.of = "nobody"
  BY DEF Scope, Nobody
<1>5. TypeOK'
  BY <1>1, <1>4, Forgotten DEF IInv, TypeOK, Within, Map
<1>6. /\ HeadersMatch' /\ QueuesMatch' /\ SidsMatch' /\ RouteMatches'
      /\ DeliveringChannelLives'
  BY <1>1, <1>4 DEF IInv, HeadersMatch, QueuesMatch, SidsMatch, RouteMatches,
                    DeliveringChannelLives
<1> QED
  BY <1>1, <1>3, <1>5, <1>6, Forgotten DEF IInv

---------------------------------------------------------------------------
(* Messages *)

\* A recorded message has an entry; the ring keeps its type and its capacity.
LEMMA RecordWithin ==
  ASSUME messages \in Seq(Entry), Len(messages) <= Capacity, NEW body \in Body
  PROVE  /\ Record(body) \in Seq(Entry) /\ Len(Record(body)) <= Capacity
         /\ Entries(body.identity) # {} =>
              /\ Len(Record(body)) = Len(messages)
              /\ \A i \in 1..Len(messages) :
                   /\ Record(body)[i].identity = messages[i].identity
                   /\ Record(body)[i].class \in {messages[i].class, None}
                   /\ messages[i].identity = body.identity =>
                        Record(body)[i].class \in {body.class, None}
         /\ Entries(body.identity) = {} =>
              LET kept == IF Len(messages) >= Capacity THEN Tail(messages) ELSE messages IN
                /\ kept \in Seq(Entry) /\ Record(body) = Append(kept, body)
                /\ \A i \in 1..Len(kept) : \E j \in 1..Len(messages) : kept[i] = messages[j]
<1>1. body \in Entry
  BY DEF Body, Entry
<1>2. CASE Entries(body.identity) # {}
  <2>1. Record(body) =
          [i \in 1..Len(messages) |->
             IF i \in Entries(body.identity) /\ messages[i].class # body.class
             THEN [messages[i] EXCEPT !.class = None]
             ELSE messages[i]]
    BY <1>2 DEF Record
  <2> SUFFICES /\ Record(body) \in Seq(Entry) /\ Len(Record(body)) = Len(messages)
               /\ \A i \in 1..Len(messages) :
                    /\ Record(body)[i].identity = messages[i].identity
                    /\ Record(body)[i].class \in {messages[i].class, None}
                    /\ messages[i].identity = body.identity =>
                         Record(body)[i].class \in {body.class, None}
    BY <1>2
  <2>2. \A i \in 1..Len(messages) : messages[i] \in Entry
    OBVIOUS
  <2>3. \A i \in 1..Len(messages) :
          LET poisoned == [messages[i] EXCEPT !.class = None] IN
            /\ poisoned \in Entry /\ poisoned.identity = messages[i].identity
            /\ poisoned.class = None
    BY <2>2 DEF Entry
  <2>4. Record(body) \in [1..Len(messages) -> Entry] /\ Len(messages) \in Nat
    BY <2>1, <2>2, <2>3
  <2>5. Record(body) \in Seq(Entry) /\ Len(Record(body)) = Len(messages)
    BY <2>4
  <2>6. ASSUME NEW i \in 1..Len(messages)
        PROVE  /\ Record(body)[i].identity = messages[i].identity
               /\ Record(body)[i].class \in {messages[i].class, None}
               /\ messages[i].identity = body.identity =>
                    Record(body)[i].class \in {body.class, None}
    BY <2>1, <2>3 DEF Entries
  <2> QED
    BY <2>5, <2>6
<1>3. CASE Entries(body.identity) = {}
  <2> DEFINE kept == IF Len(messages) >= Capacity THEN Tail(messages) ELSE messages
  <2>1. /\ kept \in Seq(Entry) /\ Len(kept) < Capacity
        /\ \A i \in 1..Len(kept) : \E j \in 1..Len(messages) : kept[i] = messages[j]
    <3>1. CASE Len(messages) >= Capacity
      <4>1. messages # <<>> /\ kept = Tail(messages)
        BY <3>1, Bounds
      <4>2. /\ kept \in Seq(Entry) /\ Len(kept) = Len(messages) - 1
            /\ \A i \in 1..Len(kept) : kept[i] = messages[i + 1]
        BY <4>1
      <4>3. \A i \in 1..Len(kept) : i + 1 \in 1..Len(messages)
        BY <4>2
      <4> QED
        BY <3>1, <4>2, <4>3, Bounds
    <3>2. CASE Len(messages) < Capacity
      <4>1. kept = messages
        BY <3>2, Bounds
      <4> QED
        BY <3>2, <4>1
    <3> QED
      BY <3>1, <3>2, Bounds
  <2>2. Record(body) = Append(kept, body)
    BY <1>3 DEF Record
  <2> HIDE DEF kept
  <2>3. Record(body) \in Seq(Entry) /\ Len(Record(body)) <= Capacity
    BY <1>1, <2>1, <2>2, Bounds
  <2> QED
    BY <1>3, <2>1, <2>2, <2>3 DEF kept
<1> QED
  BY <1>2, <1>3

\* A serialized message is recorded with its class, or its identity loses its class.
LEMMA SerializeStep ==
  ASSUME IInv, NEW body \in Body, Serialize(body)
  PROVE  IInv'
<1>1. /\ Call /\ Silent /\ context # 0
      /\ messages' = Record(body) /\ serialized' = serialized \cup {body}
      /\ UNCHANGED <<heap, subjects, context, requests, delivery, statements, headers,
                     queues, sids>>
  BY DEF Serialize
<1>2. messages \in Seq(Entry) /\ Len(messages) <= Capacity
  BY DEF IInv, TypeOK
<1>3. TypeOK'
  BY <1>1, <1>2, RecordWithin, CallCounts DEF IInv, TypeOK, Within, Map
<1>4. /\ StatementsMatch' /\ HeadersMatch' /\ QueuesMatch' /\ SidsMatch' /\ RouteMatches'
      /\ DeliveringChannelLives'
  BY <1>1 DEF IInv, StatementsMatch, HeadersMatch, QueuesMatch, SidsMatch, RouteMatches,
              DeliveringChannelLives
<1>5. NothingFalseIsSaid'
  BY <1>1, SilenceIsTrue DEF Silent
<1> DEFINE known == Identities(serialized)
<1>6. /\ Identities(serialized') = known \cup {body.identity}
      /\ \A b \in serialized : b.identity \in known
  BY <1>1 DEF Identities
<1>7. /\ IsFiniteSet(known)
      /\ \A i \in 1..Len(messages) : messages[i].identity \in known
      /\ Cardinality(known) <= Capacity =>
           /\ Len(messages) = Cardinality(known)
           /\ \A b \in serialized : Entries(b.identity) # {}
           /\ \A i \in 1..Len(messages) : \A b \in serialized :
                b.identity = messages[i].identity => messages[i].class \in {b.class, None}
  BY DEF IInv, ClassesMatch
<1>8. \A id \in known : \E b \in serialized : b.identity = id
  BY DEF Identities
<1> HIDE DEF known
<1>9. /\ IsFiniteSet(known \cup {body.identity}) /\ Cardinality(known) \in Nat
      /\ Cardinality(known \cup {body.identity}) =
           IF body.identity \in known THEN Cardinality(known) ELSE Cardinality(known) + 1
  BY <1>7, FS_AddElement, FS_CardinalityType
<1>10. ClassesMatch'
  <2> DEFINE many == Cardinality(known \cup {body.identity})
  <2> SUFFICES /\ \A i \in 1..Len(messages') : messages'[i].identity \in known \cup {body.identity}
               /\ many <= Capacity =>
                    /\ Len(messages') = many
                    /\ \A b \in serialized' :
                         \E i \in 1..Len(messages') : messages'[i].identity = b.identity
                    /\ \A i \in 1..Len(messages') : \A b \in serialized' :
                         b.identity = messages'[i].identity
                           => messages'[i].class \in {b.class, None}
    BY <1>6, <1>9 DEF ClassesMatch, Entries
  <2>1. CASE Entries(body.identity) # {}
    <3>1. body.identity \in known
      BY <1>7, <2>1 DEF Entries
    <3>2. many = Cardinality(known)
      BY <1>9, <3>1
    <3>3. /\ Len(messages') = Len(messages)
          /\ \A i \in 1..Len(messages) :
               /\ messages'[i].identity = messages[i].identity
               /\ messages'[i].class \in {messages[i].class, None}
               /\ messages[i].identity = body.identity =>
                    messages'[i].class \in {body.class, None}
      BY <1>1, <1>2, <2>1, RecordWithin
    <3> HIDE DEF many
    <3>4. ASSUME many <= Capacity
          PROVE  \A b \in serialized' :
                   \E i \in 1..Len(messages') : messages'[i].identity = b.identity
      <4>1. \A b \in serialized' : Entries(b.identity) # {}
        BY <1>1, <1>7, <2>1, <3>2, <3>4
      <4> QED
        BY <3>3, <4>1 DEF Entries
    <3>5. ASSUME many <= Capacity, NEW i \in 1..Len(messages'), NEW b \in serialized',
                 b.identity = messages'[i].identity
          PROVE  messages'[i].class \in {b.class, None}
      <4>1. CASE b = body
        BY <3>3, <3>5, <4>1
      <4>2. CASE b \in serialized
        <5>1. messages[i].class \in {b.class, None}
          BY <1>7, <3>2, <3>3, <3>5, <4>2
        <5> QED
          BY <3>3, <5>1
      <4> QED
        BY <1>1, <4>1, <4>2
    <3> QED
      BY <1>7, <3>2, <3>3, <3>4, <3>5
  <2>2. CASE Entries(body.identity) = {}
    <3> DEFINE kept == IF Len(messages) >= Capacity THEN Tail(messages) ELSE messages
    <3>1. /\ kept \in Seq(Entry) /\ messages' = Append(kept, body)
          /\ \A i \in 1..Len(kept) : \E j \in 1..Len(messages) : kept[i] = messages[j]
      BY <1>1, <1>2, <2>2, RecordWithin
    <3>2. many <= Capacity => kept = messages /\ many = Cardinality(known) + 1
                              /\ body.identity \notin known /\ Cardinality(known) <= Capacity
      <4> SUFFICES ASSUME many <= Capacity
                   PROVE  /\ kept = messages /\ many = Cardinality(known) + 1
                          /\ body.identity \notin known /\ Cardinality(known) <= Capacity
        OBVIOUS
      <4>1. Cardinality(known) <= Capacity
        BY <1>9, Bounds
      <4>2. body.identity \notin known
        BY <1>7, <1>8, <2>2, <4>1
      <4>3. Len(messages) < Capacity
        BY <1>7, <1>9, <4>1, <4>2, Bounds
      <4> QED
        BY <1>2, <1>9, <4>1, <4>2, <4>3, Bounds
    <3> HIDE DEF kept, many
    <3>3. /\ Len(messages') = Len(kept) + 1 /\ Len(kept) \in Nat
          /\ messages'[Len(kept) + 1] = body
          /\ \A i \in 1..Len(kept) : messages'[i] = kept[i]
      BY <3>1
    <3>4. \A i \in 1..Len(messages') : i \in 1..Len(kept) \/ i = Len(kept) + 1
      BY <3>3
    <3>5. \A i \in 1..Len(messages') : messages'[i].identity \in known \cup {body.identity}
      BY <1>7, <3>1, <3>3, <3>4
    <3>6. ASSUME many <= Capacity
          PROVE  \A b \in serialized' :
                   \E i \in 1..Len(messages') : messages'[i].identity = b.identity
      <4>1. Len(kept) + 1 \in 1..Len(messages') /\ \A i \in 1..Len(kept) : i \in 1..Len(messages')
        BY <3>3
      <4>2. \A b \in serialized : \E i \in 1..Len(kept) : kept[i].identity = b.identity
        BY <1>7, <3>2, <3>6 DEF Entries
      <4> QED
        BY <1>1, <3>3, <4>1, <4>2
    <3>7. ASSUME many <= Capacity, NEW i \in 1..Len(messages'), NEW b \in serialized',
                 b.identity = messages'[i].identity
          PROVE  messages'[i].class \in {b.class, None}
      <4>1. CASE i \in 1..Len(kept)
        <5>1. kept[i].identity \in known /\ messages'[i] = kept[i] /\ kept = messages
          BY <1>7, <3>2, <3>3, <3>7, <4>1
        <5>2. b \in serialized
          BY <1>1, <3>2, <3>7, <5>1
        <5> QED
          BY <1>7, <3>2, <3>7, <4>1, <5>1, <5>2
      <4>2. CASE i = Len(kept) + 1
        <5>1. messages'[i] = body
          BY <3>3, <4>2
        <5>2. b \notin serialized
          BY <1>6, <3>2, <3>7, <5>1 DEF known
        <5> QED
          BY <1>1, <5>1, <5>2
      <4> QED
        BY <3>4, <3>7, <4>1, <4>2
    <3>8. many <= Capacity => Len(messages') = many
      BY <1>7, <3>2, <3>3
    <3> QED
      BY <3>5, <3>6, <3>7, <3>8
  <2> QED
    BY <2>1, <2>2
<1> QED
  BY <1>3, <1>4, <1>5, <1>10 DEF IInv

\* A publish is given the class of an entry of its identity.
LEMMA PublishStep ==
  ASSUME IInv, NEW body \in Body, Publish(body)
  PROVE  IInv'
<1>1. /\ told' = [of |-> "message", said |-> ClassOf(body.identity), body |-> body,
                  among |-> serialized]
      /\ Call
      /\ UNCHANGED <<heap, subjects, context, requests, delivery, statements, headers,
                     queues, sids, messages, serialized>>
  BY DEF Publish, banks
<1>2. body \in serialized /\ Cardinality(Identities(serialized)) <= Capacity
        => ClassOf(body.identity) \in {body.class, None}
  <2> SUFFICES ASSUME body \in serialized, Cardinality(Identities(serialized)) <= Capacity
               PROVE  ClassOf(body.identity) \in {body.class, None}
    OBVIOUS
  <2>1. PICK i \in Entries(body.identity) : ClassOf(body.identity) = messages[i].class
    <3>1. Entries(body.identity) # {}
      BY DEF IInv, ClassesMatch
    <3> QED
      BY <3>1 DEF ClassOf
  <2> QED
    BY <2>1 DEF IInv, ClassesMatch, Entries
<1>3. NothingFalseIsSaid'
  <2>1. ClassesAreTrue'
    BY <1>1, <1>2 DEF ClassesAreTrue
  <2> QED
    BY <1>1, <2>1 DEF NothingFalseIsSaid, QueriesAreTrue, RoutesAreTrue, FreshHeadersAreTrue
<1>4. TypeOK'
  BY <1>1, CallCounts DEF IInv, TypeOK, Within, Map
<1>5. /\ StatementsMatch' /\ HeadersMatch' /\ QueuesMatch' /\ SidsMatch' /\ RouteMatches'
      /\ DeliveringChannelLives' /\ ClassesMatch'
  BY <1>1 DEF IInv, StatementsMatch, HeadersMatch, QueuesMatch, SidsMatch, RouteMatches,
              DeliveringChannelLives, ClassesMatch, Entries
<1> QED
  BY <1>3, <1>4, <1>5 DEF IInv

---------------------------------------------------------------------------
(* The theorems *)

\* Nothing is banked when the worker starts.
LEMMA InitLemma ==
  ASSUME Init
  PROVE  IInv
<1>1. /\ Within(Empty, Handle, Sql, MaxStatements) /\ DOMAIN Empty = {}
      /\ Within(Empty, Handle \X Tag, Queue, MaxQueues)
      /\ Within(Empty, Sid, Queue, MaxSids)
      /\ Map(Empty, Handle, SUBSET Line)
  BY Bounds, EmptyWithin DEF Within
<1>2. TypeOK
  <2>1. heap \in [Handle -> Object] /\ subjects \in [Sid -> Queue \cup {None}]
    BY DEF Init, Object
  <2>2. <<>> \in Seq(Entry) /\ Len(<<>>) <= Capacity
    BY Bounds
  <2> QED
    BY <1>1, <2>1, <2>2, Bounds DEF Init, TypeOK, Scope
<1>3. StatementsMatch /\ HeadersMatch /\ QueuesMatch /\ SidsMatch
  BY <1>1 DEF Init, StatementsMatch, HeadersMatch, QueuesMatch, SidsMatch, Free
<1>4. RouteMatches /\ DeliveringChannelLives /\ NothingFalseIsSaid
  BY DEF Init, RouteMatches, DeliveringChannelLives, Nobody, NothingFalseIsSaid,
         QueriesAreTrue, ClassesAreTrue, RoutesAreTrue, FreshHeadersAreTrue
<1>5. ClassesMatch
  <2>1. Identities({}) = {}
    BY DEF Identities
  <2>2. IsFiniteSet(Identities({})) /\ Cardinality(Identities({})) = 0
    BY <2>1, FS_EmptySet
  <2> QED
    BY <2>2 DEF Init, ClassesMatch
<1> QED
  BY <1>2, <1>3, <1>4, <1>5 DEF IInv

\* A step that changes nothing keeps the invariant.
LEMMA StutterStep ==
  ASSUME IInv, UNCHANGED vars
  PROVE  IInv'
<1>1. TypeOK'
  BY DEF IInv, TypeOK, vars, banks, Within, Map
<1>2. /\ StatementsMatch' /\ HeadersMatch' /\ QueuesMatch' /\ SidsMatch' /\ RouteMatches'
      /\ DeliveringChannelLives' /\ ClassesMatch' /\ NothingFalseIsSaid'
  BY DEF IInv, vars, banks, StatementsMatch, HeadersMatch, QueuesMatch, SidsMatch,
         RouteMatches, DeliveringChannelLives, ClassesMatch, Entries, NothingFalseIsSaid,
         QueriesAreTrue, ClassesAreTrue, RoutesAreTrue, FreshHeadersAreTrue
<1> QED
  BY <1>1, <1>2 DEF IInv

\* Every step keeps the invariant.
LEMMA NextLemma ==
  ASSUME IInv, [Next]_vars
  PROVE  IInv'
<1>1. CASE StartRequest \/ EndRequest
  BY <1>1, RequestStep
<1>2. CASE DeliveryEnd
  BY <1>2, DeliveryEndStep
<1>3. ASSUME NEW h \in Handle, Drop(h)
      PROVE  IInv'
  BY <1>3, CreateStep
<1>4. CASE StatementCalls
  BY <1>4, CreateStep, PrepareStep, ExecuteStep DEF StatementCalls
<1>5. CASE CurlCalls
  BY <1>5, CreateStep, CurlHeadersStep, CurlHeadersFailStep, UnseenStep, CurlExecStep
     DEF CurlCalls
<1>6. CASE ConsumerCalls
  BY <1>6, CreateStep, SubscribeStep, UnseenStep, DeliverStep, SubscribeNatsStep
     DEF ConsumerCalls
<1>7. CASE PublisherCalls
  BY <1>7, SerializeStep, PublishStep DEF PublisherCalls
<1>8. CASE UNCHANGED vars
  BY <1>8, StutterStep
<1> QED
  BY <1>1, <1>2, <1>3, <1>4, <1>5, <1>6, <1>7, <1>8 DEF Next

\* The invariant holds of every state: the maps of observer.rs keep their caps, and
\* nothing is banked that could be said of an object it is not about.
THEOREM Invariance == Spec => []IInv
<1>1. Init => IInv
  BY InitLemma
<1>2. IInv /\ [Next]_vars => IInv'
  BY NextLemma
<1> QED
  BY <1>1, <1>2, PTL DEF Spec

\* The observer never says of a statement, a message, a delivery or a transfer what is
\* not so, as far as its docs promise it (PREPARED_STATEMENTS, MESSAGE_BANK,
\* CONSUMER_QUEUES, SUBSCRIBE_SIDS, CURL_HEADERS).
THEOREM NamesAreTrue == Spec => []NothingFalseIsSaid
<1>1. IInv => NothingFalseIsSaid
  BY DEF IInv
<1> QED
  BY <1>1, Invariance, PTL
=============================================================================
