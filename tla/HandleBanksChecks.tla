-------------------------- MODULE HandleBanksChecks --------------------------
(***************************************************************************)
(* What the banks of the observer promise: they may forget, they may not   *)
(* say what is not so.                                                     *)
(***************************************************************************)
EXTENDS HandleBanks

Object == {Free} \cup Statement \cup Curl \cup Channel
Entry  == [identity : Identity, class : Class \cup {None}]
FromChannel ==
  [of : {"amqp"}, channel : Handle, tag : Tag, asked : Subscription,
   deferred : BOOLEAN, route : Queue \cup {None}]
FromNats ==
  [of : {"nats"}, asked : Subscription, deferred : {FALSE}, route : Queue \cup {None}]
Scope == {Nobody} \cup FromChannel \cup FromNats

Map(bank, Key, Value) == DOMAIN bank \subseteq Key /\ bank \in [DOMAIN bank -> Value]

Within(bank, Key, Value, max) ==
  /\ Map(bank, Key, Value)
  /\ IsFiniteSet(DOMAIN bank) /\ Cardinality(DOMAIN bank) <= max

\* Every map has its type and stays within its cap, whatever is dropped,
\* created again and never unsubscribed (Capped, MessageBank::record), and is
\* empty between two requests unless it belongs to the subscriptions.
TypeOK ==
  /\ heap \in [Handle -> Object]
  /\ subjects \in [Sid -> Queue \cup {None}]
  /\ context \in {0, requests} /\ requests \in 0..MaxRequests
  /\ delivery \in Scope /\ (delivery # Nobody => context # 0)
  /\ Within(statements, Handle, Sql, MaxStatements)
  /\ Map(headers, Handle, SUBSET Line)
  /\ Within(queues, Handle \X Tag, Queue, MaxQueues)
  /\ Within(sids, Sid, Queue, MaxSids)
  /\ messages \in Seq(Entry) /\ Len(messages) <= Capacity
  /\ context = 0 => statements = Empty /\ messages = <<>>
  /\ serialized \subseteq Body
  /\ calls \in 0..MaxCalls

\* observer.rs, "a recycled id must never keep the PREVIOUS statement's text": an
\* execute is given the text of its own statement or none, if the statement
\* was prepared by calls the observer sees.
QueriesAreTrue ==
  told.of = "statement" /\ told.object.seen => told.said \in {told.object.sql, None}

Identities(bodies) == {body.identity : body \in bodies}

\* messaging.rs, "It can NEVER produce a WRONG class": a publish of what was serialized
\* in this request is given its class or none, while no more was serialized than
\* the ring holds.
ClassesAreTrue ==
  told.of = "message" /\ told.body \in told.among
    /\ Cardinality(Identities(told.among)) <= Capacity
    => told.said \in {told.body.class, None}

\* observer.rs, "a re-subscribe under a recycled handle must never keep the OLD queue
\* name": a delivery is given the queue its subscription asked for or none, if
\* the subscription asked for one and was answered, and is still the same when
\* an amqplib delivery ends.
RoutesAreTrue ==
  told.of = "delivery" /\ told.asked.queue # None /\ told.asked.answered /\ told.settled
    => told.said \in {told.asked.queue, None}

\* A list the application set in the open request is sent as it is, and with
\* it one traceparent, the request's own, if no call to set another has failed since:
\* the begin handler tracks the list of that call too.
FreshHeadersAreTrue ==
  told.of = "curl" /\ context # 0 /\ told.object.during = context
    => told.said = told.object.app \cup {Traceparent(context)}

\* What is said from a bank is said of the right object: queries, classes, routes and
\* header lists (PREPARED_STATEMENTS, MESSAGE_BANK, CONSUMER_QUEUES, SUBSCRIBE_SIDS and
\* CURL_HEADERS of observer.rs).
NothingFalseIsSaid ==
  QueriesAreTrue /\ ClassesAreTrue /\ RoutesAreTrue /\ FreshHeadersAreTrue

\* A banked text is the statement's, if the observer saw it prepared.
StatementsMatch ==
  \A h \in DOMAIN statements :
    heap[h].is = "statement" /\ heap[h].seen /\ heap[h].sql # None
      => statements[h] = heap[h].sql

\* The list of a handle that was set in the open request is tracked.
HeadersMatch ==
  \A h \in Handle :
    heap[h].is = "curl" =>
      /\ heap[h].during <= requests
      /\ context # 0 /\ heap[h].during = context =>
           /\ h \in DOMAIN headers
           /\ headers[h] \ Traceparents = heap[h].app

Asks(sub) == sub.answered /\ sub.queue # None

\* A banked queue is the one the live subscription asked for, if it asked.
QueuesMatch ==
  \A h \in Handle, t \in Tag :
    heap[h].is = "channel" /\ <<h, t>> \in DOMAIN queues =>
      (heap[h].subs[t] # None /\ Asks(heap[h].subs[t])
         => queues[<<h, t>>] = heap[h].subs[t].queue)

\* The channel whose message is being delivered is there until it was.
DeliveringChannelLives == delivery.of = "amqp" => heap[delivery.channel].is = "channel"

SidsMatch == \A s \in DOMAIN sids : subjects[s] # None /\ sids[s] = subjects[s]

RouteMatches ==
  delivery # Nobody /\ ~delivery.deferred /\ Asks(delivery.asked)
    => delivery.route \in {delivery.asked.queue, None}

\* The ring has what was serialized; while it has not been full it has every
\* identity, and no class that a message of the identity does not have.
ClassesMatch ==
  LET many == Cardinality(Identities(serialized)) IN
    /\ IsFiniteSet(Identities(serialized))
    /\ \A i \in 1..Len(messages) : messages[i].identity \in Identities(serialized)
    /\ many <= Capacity =>
         /\ Len(messages) = many
         /\ \A body \in serialized : Entries(body.identity) # {}
         /\ \A i \in 1..Len(messages) : \A body \in serialized :
              body.identity = messages[i].identity
                => messages[i].class \in {body.class, None}

\* The inductive invariant: nothing false was said, and nothing false is banked
\* that could be said (the maps of observer.rs against the objects they are about).
IInv ==
  /\ TypeOK
  /\ StatementsMatch /\ HeadersMatch /\ QueuesMatch /\ SidsMatch
  /\ RouteMatches /\ DeliveringChannelLives /\ ClassesMatch
  /\ NothingFalseIsSaid
=============================================================================
