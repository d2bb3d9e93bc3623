----------------------------- MODULE HandleBanks -----------------------------
(***************************************************************************)
(* What the Zend observer remembers about an object between two calls on   *)
(* it, in one long-lived worker: the SQL of a prepared statement, the      *)
(* header list of a curl handle, the queue of a subscription, the class    *)
(* of a serialized message.  The maps are keyed by object handles, which   *)
(* the engine gives again once an object is gone, or by a digest, which    *)
(* two messages can share.  The extension sees the calls in its tables     *)
(* and no others, and never the end of an object.                          *)
(***************************************************************************)
EXTENDS Naturals, Sequences, FiniteSets

CONSTANTS
  Handle,         \* object handles of the engine
  Sql,            \* texts an application prepares
  Header,         \* header lines an application sets on a curl handle
  Tag,            \* consumer tags, chosen by the application
  Queue,          \* queues, and NATS subjects
  Class,          \* generated message classes
  Identity,       \* (hash, length) of a serialized message
  Sid,            \* subscription ids a NATS client mints, each used once
  None,           \* nothing remembered, or nothing asked for
  MaxStatements,  \* MAX_PREPARED_STATEMENTS, 512 in the code
  MaxQueues,      \* MAX_CONSUMER_QUEUES, 256
  MaxSids,        \* MAX_SUBSCRIBE_SIDS, 256
  Capacity,       \* MESSAGE_BANK_CAPACITY, 64
  MaxRequests,    \* requests the worker opens (bound)
  MaxCalls        \* calls the application makes (bound)

VARIABLES
  heap,        \* what the application's objects are: the truth
  subjects,    \* the subject each NATS subscription was made for: the truth
  context,     \* REQUEST_CONTEXT: the request the observer has open, 0 for none
  requests,    \* requests opened so far
  delivery,    \* DELIVERY_SCOPE, and the subscription the delivery was made for
  statements,  \* PREPARED_STATEMENTS
  headers,     \* CURL_HEADERS
  queues,      \* CONSUMER_QUEUES
  sids,        \* SUBSCRIBE_SIDS
  messages,    \* MESSAGE_BANK, oldest entry first
  serialized,  \* history: what was serialized in the open request
  told,        \* what the last call said from a bank, and of what
  calls        \* calls made so far

banks == <<statements, headers, queues, sids, messages>>
vars  == <<heap, subjects, context, requests, delivery, banks, serialized, told, calls>>

Requests == 1..MaxRequests
Body     == [identity : Identity, class : Class]

\* The traceparent of a request, as a line of a header list.
Traceparent(r) == [traceparent |-> r]
Traceparents == {Traceparent(r) : r \in Requests}
Line == Header \cup Traceparents

Free == [is |-> "free"]
\* seen: every prepare of it went through a call in the observer's tables
Statement == [is : {"statement"}, sql : Sql \cup {None}, seen : BOOLEAN]
\* app: what the application set and in which request; wire: what libcurl has
Curl == [is : {"curl"}, app : SUBSET Header, during : 0..MaxRequests, wire : SUBSET Line]
\* subs: the queue a live subscription asked for, and whether the reply was seen
Subscription == [queue : Queue \cup {None}, answered : BOOLEAN]
Channel == [is : {"channel"}, subs : [Tag -> Subscription \cup {None}]]

ASSUME BankAssumption ==
  /\ {MaxStatements, MaxQueues, MaxSids, Capacity, MaxRequests, MaxCalls} \subseteq Nat \ {0}
  /\ None \notin Sql \cup Queue \cup Class \cup Subscription
  /\ \A r \in Requests : Traceparent(r) \notin Header

Nobody == [of |-> "nobody"]
Empty  == [key \in {} |-> None]

Init ==
  /\ heap       = [h \in Handle |-> Free]
  /\ subjects   = [s \in Sid |-> None]
  /\ context    = 0
  /\ requests   = 0
  /\ delivery   = Nobody
  /\ statements = Empty
  /\ headers    = Empty
  /\ queues     = Empty
  /\ sids       = Empty
  /\ messages   = <<>>
  /\ serialized = {}
  /\ told       = Nobody
  /\ calls      = 0

---------------------------------------------------------------------------
(* The maps *)

Put(bank, key, value) ==
  [k \in DOMAIN bank \cup {key} |-> IF k = key THEN value ELSE bank[k]]

Evict(bank, key) == [k \in DOMAIN bank \ {key} |-> bank[k]]

LookUp(bank, key) == IF key \in DOMAIN bank THEN bank[key] ELSE None

\* Mutant: one entry too many
HasRoomForOneMore(bank, key, max) ==
  key \in DOMAIN bank \/ Cardinality(DOMAIN bank) <= max

HasRoomFor(bank, key, max) == key \in DOMAIN bank \/ Cardinality(DOMAIN bank) < max

\* Mutant: at the cap nothing is written, a known key keeps what it had
RefusesKnown(bank, key, value, max) ==
  IF Cardinality(DOMAIN bank) < max THEN Put(bank, key, value) ELSE bank

\* A full map refuses a new key and overwrites a known one.
Capped(bank, key, value, max) ==
  IF HasRoomFor(bank, key, max) THEN Put(bank, key, value) ELSE bank

\* The first entry of the ring with this identity, if there is one.
Entries(identity) == {i \in 1..Len(messages) : messages[i].identity = identity}

\* MessageBank::record: a second class poisons the identity for good; a full
\* ring gives up its oldest entry, poisoned or not.
Record(body) ==
  IF Entries(body.identity) # {}
  THEN [i \in 1..Len(messages) |->
          IF i \in Entries(body.identity) /\ messages[i].class # body.class
          THEN [messages[i] EXCEPT !.class = None]
          ELSE messages[i]]
  ELSE Append(IF Len(messages) >= Capacity THEN Tail(messages) ELSE messages, body)

ClassOf(identity) ==
  IF Entries(identity) = {} THEN None
  ELSE messages[CHOOSE i \in Entries(identity) : TRUE].class

---------------------------------------------------------------------------
(* Requests *)

Call   == calls < MaxCalls /\ calls' = calls + 1
Silent == told' = Nobody

\* What set_request_context and clear_request_context both clear; the
\* subscriptions outlive the request.
Forget ==
  /\ statements' = Empty /\ headers' = Empty /\ messages' = <<>> /\ serialized' = {}

StartRequest ==
  /\ context = 0 /\ requests < MaxRequests
  /\ requests' = requests + 1 /\ context' = requests + 1
  /\ Forget /\ Silent
  /\ UNCHANGED <<heap, subjects, delivery, queues, sids, calls>>

\* A delivery closes its own request, see DeliveryEnd.
EndRequest ==
  /\ context # 0 /\ delivery = Nobody
  /\ context' = 0
  /\ Forget /\ Silent
  /\ UNCHANGED <<heap, subjects, requests, delivery, queues, sids, calls>>

---------------------------------------------------------------------------
(* The engine: handles are given again.  The observer sees neither. *)

Becomes(h, object) == heap' = [heap EXCEPT ![h] = object]

Drop(h) ==
  /\ Call /\ Silent
  /\ heap[h] # Free
  /\ delivery.of = "amqp" => delivery.channel # h
  /\ Becomes(h, Free)
  /\ UNCHANGED <<subjects, context, requests, delivery, banks, serialized>>

Create(h, object) ==
  /\ Call /\ Silent
  /\ heap[h] = Free
  /\ Becomes(h, object)
  /\ UNCHANGED <<subjects, context, requests, delivery, banks, serialized>>

StmtInit(h)    == Create(h, [is |-> "statement", sql |-> None, seen |-> TRUE])
CurlInit(h)    == Create(h, [is |-> "curl", app |-> {}, during |-> 0, wire |-> {}])
OpenChannel(h) == Create(h, [is |-> "channel", subs |-> [t \in Tag |-> None]])

---------------------------------------------------------------------------
(* Prepared statements.  The banking runs when a frame is popped, and a    *)
(* frame was pushed only if a request is open.                             *)

\* The text is banked under the handle, or what the handle had is evicted.
Bank(h, sql, readable) ==
  IF context = 0 THEN UNCHANGED statements
  ELSE statements' = IF readable THEN Capped(statements, h, sql, MaxStatements)
                     ELSE Evict(statements, h)

\* mysqli::prepare, SQLite3::prepare, mysqli_prepare: a new statement object.
\* One that fails returns no object and banks nothing.
Prepare(h, sql, readable) ==
  /\ Call /\ Silent
  /\ heap[h] = Free
  /\ Becomes(h, [is |-> "statement", sql |-> sql, seen |-> TRUE])
  /\ Bank(h, sql, readable)
  /\ UNCHANGED <<subjects, context, requests, delivery, headers, queues, sids, messages,
                 serialized>>

\* mysqli_stmt::prepare and the constructor, on the statement itself; a failed
\* one leaves it without a query and evicts it.
PrepareThis(h, sql, succeeds, readable) ==
  /\ Call /\ Silent
  /\ heap[h].is = "statement"
  /\ Becomes(h, [is |-> "statement", sql |-> IF succeeds THEN sql ELSE None, seen |-> TRUE])
  /\ Bank(h, sql, succeeds /\ readable)
  /\ UNCHANGED <<subjects, context, requests, delivery, headers, queues, sids, messages,
                 serialized>>

\* mysqli_stmt_prepare, the procedural form, is in no table.
PrepareUnseen(h, sql) ==
  /\ Call /\ Silent
  /\ heap[h].is = "statement"
  /\ Becomes(h, [is |-> "statement", sql |-> sql, seen |-> FALSE])
  /\ UNCHANGED <<subjects, context, requests, delivery, banks, serialized>>

\* The span of an execute takes its text from the map.
Execute(h) ==
  /\ Call
  /\ heap[h].is = "statement" /\ heap[h].sql # None
  /\ context # 0
  /\ told' = [of |-> "statement", said |-> LookUp(statements, h), object |-> heap[h]]
  /\ UNCHANGED <<heap, subjects, context, requests, delivery, banks, serialized>>

---------------------------------------------------------------------------
(* Curl handles.  The header list is tracked in the begin handler, with or *)
(* without a request.                                                      *)

\* curl_setopt with CURLOPT_HTTPHEADER, curl_setopt_array.
CurlHeaders(h, list) ==
  /\ Call /\ Silent
  /\ heap[h].is = "curl"
  /\ Becomes(h, [is |-> "curl", app |-> list, during |-> context, wire |-> list])
  /\ headers' = Put(headers, h, list)
  /\ UNCHANGED <<subjects, context, requests, delivery, statements, queues, sids,
                 messages, serialized>>

\* The call throws or is refused: the handle keeps what it had, and the list was
\* tracked when the call began.  What the handle has is no longer known (during).
CurlHeadersFail(h, list) ==
  /\ Call /\ Silent
  /\ heap[h].is = "curl"
  /\ Becomes(h, [heap[h] EXCEPT !.during = 0])
  /\ headers' = Put(headers, h, list)
  /\ UNCHANGED <<subjects, context, requests, delivery, statements, queues, sids,
                 messages, serialized>>

\* curl_reset is in no table.
CurlReset(h) ==
  /\ Call /\ Silent
  /\ heap[h].is = "curl"
  /\ Becomes(h, [is |-> "curl", app |-> {}, during |-> 0, wire |-> {}])
  /\ UNCHANGED <<subjects, context, requests, delivery, banks, serialized>>

\* merge_propagation_headers: the tracked list, and one traceparent.
Merged(h) ==
  ((IF h \in DOMAIN headers THEN headers[h] ELSE {}) \ Traceparents)
    \cup {Traceparent(context)}

\* curl_exec: the merged list is set on the handle before the transfer.
CurlExec(h) ==
  /\ Call
  /\ heap[h].is = "curl"
  /\ LET sent == IF context = 0 THEN heap[h].wire ELSE Merged(h) IN
       /\ headers' = IF context = 0 THEN headers ELSE Put(headers, h, sent)
       /\ Becomes(h, [heap[h] EXCEPT !.wire = sent])
       /\ told' = [of |-> "curl", said |-> sent, object |-> heap[h]]
  /\ UNCHANGED <<subjects, context, requests, delivery, statements, queues, sids,
                 messages, serialized>>

---------------------------------------------------------------------------
(* Subscriptions and deliveries *)

\* Channel::consume, basic_consume.  Banked at the end of the call, request or
\* not: a server-named queue (None) and a promise (not answered) bank nothing.
Subscribe(h, tag, queue, answered) ==
  /\ Call /\ Silent
  /\ heap[h].is = "channel" /\ heap[h].subs[tag] = None
  /\ Becomes(h, [heap[h] EXCEPT !.subs[tag] = [queue |-> queue, answered |-> answered]])
  /\ queues' = IF answered /\ queue # None
               THEN Capped(queues, <<h, tag>>, queue, MaxQueues) ELSE queues
  /\ UNCHANGED <<subjects, context, requests, delivery, statements, headers, sids,
                 messages, serialized>>

\* basic_cancel is in no table.
Cancel(h, tag) ==
  /\ Call /\ Silent
  /\ heap[h].is = "channel" /\ heap[h].subs[tag] # None
  /\ Becomes(h, [heap[h] EXCEPT !.subs[tag] = None])
  /\ UNCHANGED <<subjects, context, requests, delivery, banks, serialized>>

\* A NATS subscription is banked when it is sent, under the client's own id.
SubscribeNats(s, subject) ==
  /\ Call /\ Silent
  /\ subjects[s] = None
  /\ subjects' = [subjects EXCEPT ![s] = subject]
  /\ sids' = Capped(sids, s, subject, MaxSids)
  /\ UNCHANGED <<heap, context, requests, delivery, statements, headers, queues,
                 messages, serialized>>

\* The dispatch of a message opens its request; one in an open request opens none.
OpenFor(scope) ==
  /\ Call /\ Silent
  /\ context = 0 /\ requests < MaxRequests
  /\ requests' = requests + 1 /\ context' = requests + 1
  /\ Forget
  /\ delivery' = scope
  /\ UNCHANGED <<heap, subjects, queues, sids>>

\* Bunny knows the route when the dispatch begins,
DeliverBunny(h, tag) ==
  /\ heap[h].is = "channel" /\ heap[h].subs[tag] # None
  /\ OpenFor([of |-> "amqp", channel |-> h, tag |-> tag, asked |-> heap[h].subs[tag],
              deferred |-> FALSE, route |-> LookUp(queues, <<h, tag>>)])

\* amqplib when it ends: the message does not have its tag before.
DeliverAmqplib(h, tag) ==
  /\ heap[h].is = "channel" /\ heap[h].subs[tag] # None
  /\ OpenFor([of |-> "amqp", channel |-> h, tag |-> tag, asked |-> heap[h].subs[tag],
              deferred |-> TRUE, route |-> None])

DeliverNats(s) ==
  /\ subjects[s] # None
  /\ OpenFor([of |-> "nats", asked |-> [queue |-> subjects[s], answered |-> TRUE],
              deferred |-> FALSE, route |-> LookUp(sids, s)])

\* DeliveryRoute::resolve; no name falls back to the routing key.
Route ==
  IF delivery.deferred THEN LookUp(queues, <<delivery.channel, delivery.tag>>)
  ELSE delivery.route

\* The subscription of an amqp delivery is still the one it was made for.
StillSubscribed ==
  delivery.of = "amqp" => heap[delivery.channel].subs[delivery.tag] = delivery.asked

DeliveryEnd ==
  /\ delivery # Nobody
  /\ told' = [of |-> "delivery", said |-> Route, asked |-> delivery.asked,
              settled |-> ~delivery.deferred \/ StillSubscribed]
  /\ delivery' = Nobody /\ context' = 0
  /\ Forget
  /\ UNCHANGED <<heap, subjects, requests, queues, sids, calls>>

---------------------------------------------------------------------------
(* Serialized messages *)

\* serializeToString: banked by its frame, so only in an open request.
Serialize(body) ==
  /\ Call /\ Silent
  /\ context # 0
  /\ messages' = Record(body)
  /\ serialized' = serialized \cup {body}
  /\ UNCHANGED <<heap, subjects, context, requests, delivery, statements, headers,
                 queues, sids>>

\* A publish without a type header looks its body up.
Publish(body) ==
  /\ Call
  /\ context # 0
  /\ told' = [of |-> "message", said |-> ClassOf(body.identity), body |-> body,
              among |-> serialized]
  /\ UNCHANGED <<heap, subjects, context, requests, delivery, banks, serialized>>

---------------------------------------------------------------------------

StatementCalls ==
  \E h \in Handle :
    \/ StmtInit(h)
    \/ \E sql \in Sql :
         \/ \E readable \in BOOLEAN : Prepare(h, sql, readable)
         \/ \E succeeds, readable \in BOOLEAN : PrepareThis(h, sql, succeeds, readable)
         \/ PrepareUnseen(h, sql)
    \/ Execute(h)

CurlCalls ==
  \E h \in Handle :
    \/ CurlInit(h)
    \/ \E list \in SUBSET Header : CurlHeaders(h, list) \/ CurlHeadersFail(h, list)
    \/ CurlReset(h)
    \/ CurlExec(h)

ConsumerCalls ==
  \/ \E h \in Handle :
       \/ OpenChannel(h)
       \/ \E tag \in Tag :
            \/ \E queue \in Queue \cup {None}, answered \in BOOLEAN :
                 Subscribe(h, tag, queue, answered)
            \/ Cancel(h, tag)
            \/ DeliverBunny(h, tag)
            \/ DeliverAmqplib(h, tag)
  \/ \E s \in Sid :
       \/ \E subject \in Queue : SubscribeNats(s, subject)
       \/ DeliverNats(s)

PublisherCalls == \E body \in Body : Serialize(body) \/ Publish(body)

Next ==
  \/ StartRequest
  \/ EndRequest
  \/ DeliveryEnd
  \/ \E h \in Handle : Drop(h)
  \/ StatementCalls
  \/ CurlCalls
  \/ ConsumerCalls
  \/ PublisherCalls

Spec == Init /\ [][Next]_vars
=============================================================================
